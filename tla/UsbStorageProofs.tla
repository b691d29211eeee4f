-------------------------- MODULE UsbStorageProofs --------------------------
(***************************************************************************)
(* Proofs about UsbStorage, for every MaxTransfers and with or without     *)
(* resets from user space. The inductive invariant IInv has five parts:    *)
(* who holds dev_mutex, how far a URB has got and who has claimed its      *)
(* cancellation, what a reset excludes, where the command is, and what the *)
(* error handler waits for. Each safety invariant of the module is a       *)
(* consequence of it.                                                      *)
(***************************************************************************)
EXTENDS UsbStorage, TLAPS

ActiveBits == {"URB_ACTIVE", "SG_ACTIVE"}
ThreadOwns == {"run", "msg", "check", "errors", "unlock", "classreset", "resetmsg",
               "endreset", "finish"}
AutoReset == {"unlock", "port", "prereset", "postreset", "relock", "classreset",
              "resetmsg", "endreset"}

\* dev_mutex has the holder its users take it for, and only a holder is inside
\* usb_stor_msg_common
OwnerInv ==
    /\ thr \in ThreadOwns <=> dev_mutex = "thread"
    /\ rst # "none" <=> dev_mutex = "reset"
    /\ (thr = "postreset" \/ eh = "postreset") <=> dev_mutex = "port"
    /\ thr = "postreset" => eh # "postreset"
    /\ thr \in {"msg", "resetmsg"} => msg # "none"
    /\ msg # "none" => thr \in {"msg", "resetmsg"} \/ rst # "none"

\* an active bit is set only from the submission to the end of the wait, and
\* whoever has cleared it is the only one to unlink
UrbInv ==
    /\ \A f \in ActiveBits :
          Has(f) => f = flag /\ msg \in {"recheck", "cancel", "wait"} /\ unlinks = 0
    /\ unlinks \in {0, 1}
    /\ msg = "submit" <=> urb = "submitting"
    /\ msg \in {"none", "test", "ret"} => urb \in {"idle", "freed"}
    /\ msg \in {"submit", "setactive", "unlink"} => unlinks = 0 /\ eh # "unlink"
    /\ eh = "unlink" => unlinks = 0 /\ ~Has("URB_ACTIVE") /\ ~Has("SG_ACTIVE")
    /\ msg \in {"recheck", "cancel", "wait"} /\ ~Has(flag) => urb # "active" \/ eh = "unlink"
    /\ msg = "wait" /\ Has(flag) /\ Has("ABORTING") => eh = "stop"

\* RESETTING tells where the thread is, and excludes an abort
ResetInv ==
    /\ Has("RESETTING") <=> thr \in AutoReset
    /\ Has("RESETTING") => ~Has("ABORTING")
    /\ thr = "resetmsg" => msg \notin {"cancel", "unlink"} /\ urb # "unlinked"

\* us->srb and the count of cmnd_ready say whether the thread has something to do
CommandInv ==
    /\ disc \notin {"stopping", "freed"} =>
          /\ srb <=> thr # "sleep" \/ ready = 1
          /\ ready = 1 => thr = "sleep"
          /\ thr # "exited"
    /\ disc \in {"stopping", "freed"} =>
          /\ ~srb /\ thr \in {"sleep", "lock", "exited"}
          /\ ready = 1 <=> thr = "sleep"
          /\ thr = "exited" => msg = "none"
    /\ disc \in {"flagged", "stopping", "freed"} => Has("DISCONNECTING")
    /\ disc \in {"removed", "flagged", "stopping", "freed"} => mid = "idle"
    /\ disc = "freed" => thr = "exited"
    /\ urb = "freed" <=> disc = "freed"
    /\ thr = "check" => result # "abort"
    /\ thr \in {"errors", "finish"} \cup AutoReset /\ result = "abort" => Has("TIMED_OUT")

\* TIMED_OUT and ABORTING belong to an abort that waits for a notify of a command
\* the driver still has
AbortInv ==
    /\ mid = "idle" => ~srb /\ notify = 0
    /\ mid = "issued" => srb
    /\ mid = "eh" <=> eh # "none"
    /\ eh \in {"reset", "busreset", "prereset", "postreset"} => ~srb
    /\ eh \in {"stop", "unlink"} => srb /\ Has("TIMED_OUT") /\ Has("ABORTING")
    /\ eh = "waiting" /\ notify = 0 => srb /\ Has("TIMED_OUT")
    /\ notify > 0 => eh = "waiting" /\ ~srb
    /\ Has("ABORTING") => Has("TIMED_OUT")
    /\ Has("TIMED_OUT") => srb /\ eh \in {"stop", "unlink", "waiting"}
    /\ rst = "eh" => eh = "reset"

IInv == TypeOK /\ OwnerInv /\ UrbInv /\ ResetInv /\ CommandInv /\ AbortInv

\* The invariant holds when the driver has probed a device.
LEMMA InitIInv == Init => IInv
<1> SUFFICES ASSUME Init PROVE IInv OBVIOUS
<1>1. srb \in BOOLEAN /\ portOk \in BOOLEAN /\ asked \in BOOLEAN /\ shutdown \in BOOLEAN
  BY Zenon DEF Init
<1>2. TypeOK BY <1>1, MaxTransfersAssumption DEF Init, TypeOK, Flags, ThreadPoints
<1>3. OwnerInv /\ ResetInv BY DEF Init, OwnerInv, ThreadOwns, ResetInv, AutoReset, Has
<1>4. UrbInv BY DEF Init, UrbInv, ActiveBits, Has
<1>5. CommandInv /\ AbortInv BY DEF Init, CommandInv, AutoReset, AbortInv, Has
<1> QED BY <1>2, <1>3, <1>4, <1>5 DEF IInv

\* The variables stay well typed; the counts are bounded because one command at a time
\* and one abort at a time use them.
LEMMA TypeOKStep == IInv /\ [Next]_vars => TypeOK'
<1> SUFFICES ASSUME IInv, [Next]_vars PROVE TypeOK'
  OBVIOUS
<1> USE DEF IInv, TypeOK, UrbInv, CommandInv, AbortInv, Has, ActiveBits, Flags,
  ThreadPoints
<1>1. CASE QueueCommand
  <2>1. srb' \in BOOLEAN /\ shutdown' \in BOOLEAN BY Zenon, <1>1 DEF QueueCommand,
    HostLockFree, thrVars, msgVars
  <2> QED BY <2>1, <1>1 DEF QueueCommand, HostLockFree, thrVars, msgVars
<1>2. CASE CommandTimeout BY <1>2 DEF CommandTimeout, thrVars, msgVars
<1>3. CASE Abort
  <2>1. dflags' \subseteq Flags
    <3>1. \/ dflags' = dflags
          \/ dflags' = dflags \cup {"TIMED_OUT"}
          \/ dflags' = dflags \cup {"TIMED_OUT", "ABORTING"}
      BY <1>3 DEF Abort, msgVars, EhUnchanged, thrVars
    <3>2. CASE dflags' = dflags BY <3>2 DEF Flags
    <3>3. CASE dflags' = dflags \cup {"TIMED_OUT"} BY <3>3 DEF Flags
    <3>4. CASE dflags' = dflags \cup {"TIMED_OUT", "ABORTING"} BY <3>4 DEF Flags
    <3> QED BY <3>1, <3>2, <3>3, <3>4
  <2> QED BY <2>1, <1>3 DEF Abort, msgVars, EhUnchanged, thrVars
<1>4. CASE StopTransport BY <1>4 DEF StopTransport, msgVars, EhUnchanged, thrVars
<1>5. CASE StopUnlink BY <1>5 DEF StopUnlink, Unlink, EhUnchanged, thrVars
<1>6. CASE AbortReturns BY <1>6 DEF AbortReturns, msgVars, EhUnchanged, thrVars
<1>7. CASE BusReset BY <1>7 DEF BusReset, PortResetRefused, thrVars, msgVars
<1>8. CASE BusPreReset BY <1>8 DEF BusPreReset, msgVars, EhUnchanged, thrVars
<1>9. CASE BusPostReset BY <1>9 DEF BusPostReset, thrVars, msgVars
<1>10. CASE DeviceReset
  <2>1. asked' \in BOOLEAN BY Zenon, <1>10 DEF DeviceReset, ResetLocked
  <2>2. msg' \in {msg, "test"} /\ left' \in 0 .. MaxTransfers + 2
    BY <1>10, MaxTransfersAssumption DEF DeviceReset, MsgStart, ResetTransfers
  <2> QED BY <2>1, <2>2, <1>10 DEF DeviceReset, ResetLocked, thrVars
<1>11. CASE DeviceResetStep BY <1>11, MaxTransfersAssumption DEF DeviceResetStep,
  ResetContinues, MsgStart, thrVars, ResetTransfers
<1>12. CASE DeviceResetEnd BY <1>12 DEF DeviceResetEnd, ResetEnds, thrVars,
  ResetTransfers
<1>13. CASE MsgTest BY <1>13 DEF MsgTest, MsgUnchanged, thrVars
<1>14. CASE MsgSubmitted BY <1>14 DEF MsgSubmitted, MsgUnchanged, thrVars
<1>15. CASE MsgSetActive BY <1>15 DEF MsgSetActive, MsgUnchanged, thrVars
<1>16. CASE MsgRecheck BY <1>16 DEF MsgRecheck, MsgUnchanged, thrVars
<1>17. CASE MsgCancel BY <1>17 DEF MsgCancel, MsgUnchanged, thrVars
<1>18. CASE MsgUnlink BY <1>18 DEF MsgUnlink, Unlink, MsgUnchanged, thrVars
<1>19. CASE MsgWoken BY <1>19 DEF MsgWoken, MsgUnchanged, thrVars
<1>20. CASE MsgTimeout BY <1>20 DEF MsgTimeout, MsgUnchanged, thrVars
<1>21. CASE MsgKill BY <1>21 DEF MsgKill, MsgUnchanged, thrVars
<1>22. CASE UrbCompletes BY <1>22 DEF UrbCompletes, MsgUnchanged, thrVars
<1>23. CASE ThrWoken BY <1>23 DEF ThrWoken, ThrGoes, ThrUnchanged
<1>24. CASE ThrBegin
  <2>1. srb' \in BOOLEAN BY Zenon, <1>24 DEF ThrBegin, HostLockFree, ThrGoes, Finish,
    ThrUnchanged
  <2>2. dflags' \subseteq Flags
    <3>1. \/ dflags' = dflags
          \/ dflags' = dflags \ {"ABORTING", "TIMED_OUT"}
      BY <1>24 DEF ThrBegin, HostLockFree, ThrGoes, Finish, ThrUnchanged
    <3>2. CASE dflags' = dflags BY <3>2 DEF Flags
    <3>3. CASE dflags' = dflags \ {"ABORTING", "TIMED_OUT"} BY <3>3 DEF Flags
    <3> QED BY <3>1, <3>2, <3>3
  <2>3. left' \in 0 .. MaxTransfers + 2 BY MaxTransfersAssumption, <1>24 DEF ThrBegin,
    HostLockFree, ThrGoes, Finish, ThrUnchanged
  <2>4. notify' \in 0 .. 1 BY SMT, <1>24 DEF ThrBegin, HostLockFree, ThrGoes, Finish,
    ThrUnchanged
  <2> QED BY <2>1, <2>2, <2>3, <2>4, <1>24 DEF ThrBegin, HostLockFree, ThrGoes, Finish,
    ThrUnchanged
<1>25. CASE ThrTransfer BY <1>25, MaxTransfersAssumption DEF ThrTransfer, MsgStart,
  ThrGoes, ThrLocal, ThrUnchanged
<1>26. CASE ThrTransferred BY <1>26 DEF ThrTransferred, ThrGoes, ThrLocal, ThrUnchanged
<1>27. CASE ThrCheck BY <1>27, MaxTransfersAssumption DEF ThrCheck, Ends, Senses,
  ThrLocal, ThrUnchanged, ThrGoes
<1>28. CASE ThrErrors BY <1>28 DEF ThrErrors, HostLockFree, ThrGoes, ThrLocal,
  ThrUnchanged
<1>29. CASE ThrUnlock BY <1>29 DEF ThrUnlock, ThrGoes, ThrLocal, ThrUnchanged
<1>30. CASE ThrPortReset
  <2>1. portOk' \in BOOLEAN BY Zenon, <1>30 DEF ThrPortReset, ThrGoes,
    PortResetRefused, ThrUnchanged
  <2> QED BY <2>1, <1>30 DEF ThrPortReset, ThrGoes, PortResetRefused, ThrUnchanged
<1>31. CASE ThrPreReset BY <1>31 DEF ThrPreReset, ThrGoes, ThrLocal, ThrUnchanged
<1>32. CASE ThrPostReset BY <1>32 DEF ThrPostReset, HostLockFree, ThrGoes, ThrUnchanged
<1>33. CASE ThrRelock BY <1>33 DEF ThrRelock, ThrGoes, ThrLocal, ThrUnchanged
<1>34. CASE ThrClassReset BY <1>34, MaxTransfersAssumption DEF ThrClassReset,
  HostLockFree, ThrGoes, MsgStart, ResetTransfers, ThrLocal, ThrUnchanged
<1>35. CASE ThrClassResetStep BY <1>35, MaxTransfersAssumption DEF ThrClassResetStep,
  ResetContinues, MsgStart, ResetEnds, ThrGoes, ThrLocal, ThrUnchanged, ResetTransfers
<1>36. CASE ThrEndReset BY <1>36 DEF ThrEndReset, ThrGoes, ThrLocal, ThrUnchanged
<1>37. CASE ThrFinish
  <2>1. srb' \in BOOLEAN BY Zenon, <1>37 DEF ThrFinish, HostLockFree, Finish,
    ThrUnchanged, ThrGoes
  <2>2. dflags' \subseteq Flags
    <3>1. \/ dflags' = dflags
          \/ dflags' = dflags \ {"ABORTING", "TIMED_OUT"}
      BY <1>37 DEF ThrFinish, HostLockFree, Finish, ThrUnchanged, ThrGoes
    <3>2. CASE dflags' = dflags BY <3>2 DEF Flags
    <3>3. CASE dflags' = dflags \ {"ABORTING", "TIMED_OUT"} BY <3>3 DEF Flags
    <3> QED BY <3>1, <3>2, <3>3
  <2> QED BY <2>1, <2>2, <1>37 DEF ThrFinish, HostLockFree, Finish, ThrUnchanged,
    ThrGoes
<1>38. CASE DiscStart
  <2>1. dflags' \subseteq Flags
    <3>1. \/ dflags' = dflags
          \/ dflags' = dflags \cup {"DISCONNECTING"}
      BY <1>38 DEF DiscStart, DiscUnchanged, thrVars
    <3>2. CASE dflags' = dflags BY <3>2 DEF Flags
    <3>3. CASE dflags' = dflags \cup {"DISCONNECTING"} BY <3>3 DEF Flags
    <3> QED BY <3>1, <3>2, <3>3
  <2> QED BY <2>1, <1>38 DEF DiscStart, DiscUnchanged, thrVars
<1>39. CASE DiscRemoved BY <1>39 DEF DiscRemoved, DiscUnchanged, thrVars
<1>40. CASE DiscFlag BY <1>40 DEF DiscFlag, HostLockFree, DiscUnchanged, thrVars
<1>41. CASE DiscStopThread BY <1>41 DEF DiscStopThread, DiscUnchanged, thrVars
<1>42. CASE DiscFree BY <1>42 DEF DiscFree, DiscUnchanged, thrVars
<1>43. CASE UNCHANGED vars BY <1>43 DEF vars, thrVars, msgVars
<1>44. CASE AskReset BY <1>44 DEF AskReset, thrVars, msgVars
<1> QED BY <1>1, <1>2, <1>3, <1>4, <1>5, <1>6, <1>7, <1>8, <1>9, <1>10, <1>11, <1>12,
  <1>13, <1>14, <1>15, <1>16, <1>17, <1>18, <1>19, <1>20, <1>21, <1>22, <1>23, <1>24,
  <1>25, <1>26, <1>27, <1>28, <1>29, <1>30, <1>31, <1>32, <1>33, <1>34, <1>35, <1>36,
  <1>37, <1>38, <1>39, <1>40, <1>41, <1>42, <1>43, <1>44 DEF Next, ErrorHandler, Reset,
  Message, Thread, Disconnect

\* dev_mutex keeps the holder its users take it for.
LEMMA OwnerInvStep == IInv /\ [Next]_vars => OwnerInv'
<1> SUFFICES ASSUME IInv, [Next]_vars PROVE OwnerInv'
  OBVIOUS
<1> USE DEF IInv, OwnerInv, AbortInv, ThreadOwns, Has
<1>1. CASE QueueCommand BY <1>1 DEF QueueCommand, HostLockFree, thrVars, msgVars
<1>2. CASE CommandTimeout BY <1>2 DEF CommandTimeout, thrVars, msgVars
<1>3. CASE Abort BY <1>3 DEF Abort, msgVars, EhUnchanged, thrVars
<1>4. CASE StopTransport BY <1>4 DEF StopTransport, msgVars, EhUnchanged, thrVars
<1>5. CASE StopUnlink BY <1>5 DEF StopUnlink, Unlink, EhUnchanged, thrVars
<1>6. CASE AbortReturns BY <1>6 DEF AbortReturns, msgVars, EhUnchanged, thrVars
<1>7. CASE BusReset BY <1>7 DEF BusReset, PortResetRefused, thrVars, msgVars
<1>8. CASE BusPreReset BY <1>8 DEF BusPreReset, msgVars, EhUnchanged, thrVars
<1>9. CASE BusPostReset BY <1>9 DEF BusPostReset, thrVars, msgVars
<1>10. CASE DeviceReset BY <1>10 DEF DeviceReset, ResetLocked, MsgStart, ResetTransfers, thrVars
<1>11. CASE DeviceResetStep BY <1>11 DEF DeviceResetStep, ResetContinues, MsgStart,
  thrVars, ResetTransfers
<1>12. CASE DeviceResetEnd BY <1>12 DEF DeviceResetEnd, ResetEnds, thrVars,
  ResetTransfers
<1>13. CASE MsgTest BY <1>13 DEF MsgTest, MsgUnchanged, thrVars
<1>14. CASE MsgSubmitted BY <1>14 DEF MsgSubmitted, MsgUnchanged, thrVars
<1>15. CASE MsgSetActive BY <1>15 DEF MsgSetActive, MsgUnchanged, thrVars
<1>16. CASE MsgRecheck BY <1>16 DEF MsgRecheck, MsgUnchanged, thrVars
<1>17. CASE MsgCancel BY <1>17 DEF MsgCancel, MsgUnchanged, thrVars
<1>18. CASE MsgUnlink BY <1>18 DEF MsgUnlink, Unlink, MsgUnchanged, thrVars
<1>19. CASE MsgWoken BY <1>19 DEF MsgWoken, MsgUnchanged, thrVars
<1>20. CASE MsgTimeout BY <1>20 DEF MsgTimeout, MsgUnchanged, thrVars
<1>21. CASE MsgKill BY <1>21 DEF MsgKill, MsgUnchanged, thrVars
<1>22. CASE UrbCompletes BY <1>22 DEF UrbCompletes, MsgUnchanged, thrVars
<1>23. CASE ThrWoken BY <1>23 DEF ThrWoken, ThrGoes, ThrUnchanged
<1>24. CASE ThrBegin BY <1>24 DEF ThrBegin, HostLockFree, ThrGoes, Finish, ThrUnchanged
<1>25. CASE ThrTransfer BY <1>25 DEF ThrTransfer, MsgStart, ThrGoes, ThrLocal,
  ThrUnchanged
<1>26. CASE ThrTransferred BY <1>26 DEF ThrTransferred, ThrGoes, ThrLocal, ThrUnchanged
<1>27. CASE ThrCheck BY <1>27 DEF ThrCheck, Ends, Senses, ThrLocal, ThrUnchanged,
  ThrGoes
<1>28. CASE ThrErrors BY <1>28 DEF ThrErrors, HostLockFree, ThrGoes, ThrLocal,
  ThrUnchanged
<1>29. CASE ThrUnlock BY <1>29 DEF ThrUnlock, ThrGoes, ThrLocal, ThrUnchanged
<1>30. CASE ThrPortReset BY <1>30 DEF ThrPortReset, ThrGoes, PortResetRefused,
  ThrUnchanged
<1>31. CASE ThrPreReset BY <1>31 DEF ThrPreReset, ThrGoes, ThrLocal, ThrUnchanged
<1>32. CASE ThrPostReset BY <1>32 DEF ThrPostReset, HostLockFree, ThrGoes, ThrUnchanged
<1>33. CASE ThrRelock BY <1>33 DEF ThrRelock, ThrGoes, ThrLocal, ThrUnchanged
<1>34. CASE ThrClassReset BY <1>34 DEF ThrClassReset, HostLockFree, ThrGoes, MsgStart,
  ResetTransfers, ThrLocal, ThrUnchanged
<1>35. CASE ThrClassResetStep BY <1>35 DEF ThrClassResetStep, ResetContinues, MsgStart,
  ResetEnds, ThrGoes, ThrLocal, ThrUnchanged, ResetTransfers
<1>36. CASE ThrEndReset BY <1>36 DEF ThrEndReset, ThrGoes, ThrLocal, ThrUnchanged
<1>37. CASE ThrFinish BY <1>37 DEF ThrFinish, HostLockFree, Finish, ThrUnchanged,
  ThrGoes
<1>38. CASE DiscStart BY <1>38 DEF DiscStart, DiscUnchanged, thrVars
<1>39. CASE DiscRemoved BY <1>39 DEF DiscRemoved, DiscUnchanged, thrVars
<1>40. CASE DiscFlag BY <1>40 DEF DiscFlag, HostLockFree, DiscUnchanged, thrVars
<1>41. CASE DiscStopThread BY <1>41 DEF DiscStopThread, DiscUnchanged, thrVars
<1>42. CASE DiscFree BY <1>42 DEF DiscFree, DiscUnchanged, thrVars
<1>43. CASE UNCHANGED vars BY <1>43 DEF vars, thrVars, msgVars
<1>44. CASE AskReset BY <1>44 DEF AskReset, thrVars, msgVars
<1> QED BY <1>1, <1>2, <1>3, <1>4, <1>5, <1>6, <1>7, <1>8, <1>9, <1>10, <1>11, <1>12,
  <1>13, <1>14, <1>15, <1>16, <1>17, <1>18, <1>19, <1>20, <1>21, <1>22, <1>23, <1>24,
  <1>25, <1>26, <1>27, <1>28, <1>29, <1>30, <1>31, <1>32, <1>33, <1>34, <1>35, <1>36,
  <1>37, <1>38, <1>39, <1>40, <1>41, <1>42, <1>43, <1>44 DEF Next, ErrorHandler, Reset,
  Message, Thread, Disconnect

\* Whoever clears an active bit unlinks the URB, and nobody else does.
LEMMA UrbInvStep == IInv /\ [Next]_vars => UrbInv'
<1> SUFFICES ASSUME IInv, [Next]_vars PROVE UrbInv'
  OBVIOUS
<1> USE DEF IInv, TypeOK, OwnerInv, UrbInv, CommandInv, AbortInv, ActiveBits,
  ThreadOwns, Has
<1>1. CASE QueueCommand BY <1>1 DEF QueueCommand, HostLockFree, thrVars, msgVars
<1>2. CASE CommandTimeout BY <1>2 DEF CommandTimeout, thrVars, msgVars
<1>3. CASE Abort BY <1>3 DEF Abort, msgVars, EhUnchanged, thrVars
<1>4. CASE StopTransport BY <1>4 DEF StopTransport, msgVars, EhUnchanged, thrVars
<1>5. CASE StopUnlink BY <1>5 DEF StopUnlink, Unlink, EhUnchanged, thrVars
<1>6. CASE AbortReturns BY <1>6 DEF AbortReturns, msgVars, EhUnchanged, thrVars
<1>7. CASE BusReset BY <1>7 DEF BusReset, PortResetRefused, thrVars, msgVars
<1>8. CASE BusPreReset BY <1>8 DEF BusPreReset, msgVars, EhUnchanged, thrVars
<1>9. CASE BusPostReset BY <1>9 DEF BusPostReset, thrVars, msgVars
<1>10. CASE DeviceReset BY <1>10 DEF DeviceReset, ResetLocked, MsgStart, ResetTransfers, thrVars
<1>11. CASE DeviceResetStep BY <1>11 DEF DeviceResetStep, ResetContinues, MsgStart,
  thrVars, ResetTransfers
<1>12. CASE DeviceResetEnd BY <1>12 DEF DeviceResetEnd, ResetEnds, thrVars,
  ResetTransfers
<1>13. CASE MsgTest BY <1>13 DEF MsgTest, MsgUnchanged, thrVars
<1>14. CASE MsgSubmitted BY <1>14 DEF MsgSubmitted, MsgUnchanged, thrVars
<1>15. CASE MsgSetActive BY <1>15 DEF MsgSetActive, MsgUnchanged, thrVars
<1>16. CASE MsgRecheck BY <1>16 DEF MsgRecheck, MsgUnchanged, thrVars
<1>17. CASE MsgCancel BY <1>17 DEF MsgCancel, MsgUnchanged, thrVars
<1>18. CASE MsgUnlink BY <1>18 DEF MsgUnlink, Unlink, MsgUnchanged, thrVars
<1>19. CASE MsgWoken BY <1>19 DEF MsgWoken, MsgUnchanged, thrVars
<1>20. CASE MsgTimeout BY <1>20 DEF MsgTimeout, MsgUnchanged, thrVars
<1>21. CASE MsgKill BY <1>21 DEF MsgKill, MsgUnchanged, thrVars
<1>22. CASE UrbCompletes BY <1>22 DEF UrbCompletes, MsgUnchanged, thrVars
<1>23. CASE ThrWoken BY <1>23 DEF ThrWoken, ThrGoes, ThrUnchanged
<1>24. CASE ThrBegin BY <1>24 DEF ThrBegin, HostLockFree, ThrGoes, Finish, ThrUnchanged
<1>25. CASE ThrTransfer BY <1>25 DEF ThrTransfer, MsgStart, ThrGoes, ThrLocal,
  ThrUnchanged
<1>26. CASE ThrTransferred BY <1>26 DEF ThrTransferred, ThrGoes, ThrLocal, ThrUnchanged
<1>27. CASE ThrCheck BY <1>27 DEF ThrCheck, Ends, Senses, ThrLocal, ThrUnchanged,
  ThrGoes
<1>28. CASE ThrErrors BY <1>28 DEF ThrErrors, HostLockFree, ThrGoes, ThrLocal,
  ThrUnchanged
<1>29. CASE ThrUnlock BY <1>29 DEF ThrUnlock, ThrGoes, ThrLocal, ThrUnchanged
<1>30. CASE ThrPortReset BY <1>30 DEF ThrPortReset, ThrGoes, PortResetRefused,
  ThrUnchanged
<1>31. CASE ThrPreReset BY <1>31 DEF ThrPreReset, ThrGoes, ThrLocal, ThrUnchanged
<1>32. CASE ThrPostReset BY <1>32 DEF ThrPostReset, HostLockFree, ThrGoes, ThrUnchanged
<1>33. CASE ThrRelock BY <1>33 DEF ThrRelock, ThrGoes, ThrLocal, ThrUnchanged
<1>34. CASE ThrClassReset BY <1>34 DEF ThrClassReset, HostLockFree, ThrGoes, MsgStart,
  ResetTransfers, ThrLocal, ThrUnchanged
<1>35. CASE ThrClassResetStep BY <1>35 DEF ThrClassResetStep, ResetContinues, MsgStart,
  ResetEnds, ThrGoes, ThrLocal, ThrUnchanged, ResetTransfers
<1>36. CASE ThrEndReset BY <1>36 DEF ThrEndReset, ThrGoes, ThrLocal, ThrUnchanged
<1>37. CASE ThrFinish BY <1>37 DEF ThrFinish, HostLockFree, Finish, ThrUnchanged,
  ThrGoes
<1>38. CASE DiscStart BY <1>38 DEF DiscStart, DiscUnchanged, thrVars
<1>39. CASE DiscRemoved BY <1>39 DEF DiscRemoved, DiscUnchanged, thrVars
<1>40. CASE DiscFlag BY <1>40 DEF DiscFlag, HostLockFree, DiscUnchanged, thrVars
<1>41. CASE DiscStopThread BY <1>41 DEF DiscStopThread, DiscUnchanged, thrVars
<1>42. CASE DiscFree BY <1>42 DEF DiscFree, DiscUnchanged, thrVars
<1>43. CASE UNCHANGED vars BY <1>43 DEF vars, thrVars, msgVars
<1>44. CASE AskReset BY <1>44 DEF AskReset, thrVars, msgVars
<1> QED BY <1>1, <1>2, <1>3, <1>4, <1>5, <1>6, <1>7, <1>8, <1>9, <1>10, <1>11, <1>12,
  <1>13, <1>14, <1>15, <1>16, <1>17, <1>18, <1>19, <1>20, <1>21, <1>22, <1>23, <1>24,
  <1>25, <1>26, <1>27, <1>28, <1>29, <1>30, <1>31, <1>32, <1>33, <1>34, <1>35, <1>36,
  <1>37, <1>38, <1>39, <1>40, <1>41, <1>42, <1>43, <1>44 DEF Next, ErrorHandler, Reset,
  Message, Thread, Disconnect

\* RESETTING keeps telling where the thread is, and keeps an abort out.
LEMMA ResetInvStep == IInv /\ [Next]_vars => ResetInv'
<1> SUFFICES ASSUME IInv, [Next]_vars PROVE ResetInv'
  OBVIOUS
<1> USE DEF IInv, TypeOK, OwnerInv, UrbInv, ResetInv, AbortInv, ThreadOwns, AutoReset,
  Has
<1>1. CASE QueueCommand BY <1>1 DEF QueueCommand, HostLockFree, thrVars, msgVars
<1>2. CASE CommandTimeout BY <1>2 DEF CommandTimeout, thrVars, msgVars
<1>3. CASE Abort BY <1>3 DEF Abort, msgVars, EhUnchanged, thrVars
<1>4. CASE StopTransport BY <1>4 DEF StopTransport, msgVars, EhUnchanged, thrVars
<1>5. CASE StopUnlink BY <1>5 DEF StopUnlink, Unlink, EhUnchanged, thrVars
<1>6. CASE AbortReturns BY <1>6 DEF AbortReturns, msgVars, EhUnchanged, thrVars
<1>7. CASE BusReset BY <1>7 DEF BusReset, PortResetRefused, thrVars, msgVars
<1>8. CASE BusPreReset BY <1>8 DEF BusPreReset, msgVars, EhUnchanged, thrVars
<1>9. CASE BusPostReset BY <1>9 DEF BusPostReset, thrVars, msgVars
<1>10. CASE DeviceReset BY <1>10 DEF DeviceReset, ResetLocked, MsgStart, ResetTransfers, thrVars
<1>11. CASE DeviceResetStep BY <1>11 DEF DeviceResetStep, ResetContinues, MsgStart,
  thrVars, ResetTransfers
<1>12. CASE DeviceResetEnd BY <1>12 DEF DeviceResetEnd, ResetEnds, thrVars,
  ResetTransfers
<1>13. CASE MsgTest BY <1>13 DEF MsgTest, MsgUnchanged, thrVars
<1>14. CASE MsgSubmitted BY <1>14 DEF MsgSubmitted, MsgUnchanged, thrVars
<1>15. CASE MsgSetActive BY <1>15 DEF MsgSetActive, MsgUnchanged, thrVars
<1>16. CASE MsgRecheck BY <1>16 DEF MsgRecheck, MsgUnchanged, thrVars
<1>17. CASE MsgCancel BY <1>17 DEF MsgCancel, MsgUnchanged, thrVars
<1>18. CASE MsgUnlink BY <1>18 DEF MsgUnlink, Unlink, MsgUnchanged, thrVars
<1>19. CASE MsgWoken BY <1>19 DEF MsgWoken, MsgUnchanged, thrVars
<1>20. CASE MsgTimeout BY <1>20 DEF MsgTimeout, MsgUnchanged, thrVars
<1>21. CASE MsgKill BY <1>21 DEF MsgKill, MsgUnchanged, thrVars
<1>22. CASE UrbCompletes BY <1>22 DEF UrbCompletes, MsgUnchanged, thrVars
<1>23. CASE ThrWoken BY <1>23 DEF ThrWoken, ThrGoes, ThrUnchanged
<1>24. CASE ThrBegin BY <1>24 DEF ThrBegin, HostLockFree, ThrGoes, Finish, ThrUnchanged
<1>25. CASE ThrTransfer BY <1>25 DEF ThrTransfer, MsgStart, ThrGoes, ThrLocal,
  ThrUnchanged
<1>26. CASE ThrTransferred BY <1>26 DEF ThrTransferred, ThrGoes, ThrLocal, ThrUnchanged
<1>27. CASE ThrCheck BY <1>27 DEF ThrCheck, Ends, Senses, ThrLocal, ThrUnchanged,
  ThrGoes
<1>28. CASE ThrErrors BY <1>28 DEF ThrErrors, HostLockFree, ThrGoes, ThrLocal,
  ThrUnchanged
<1>29. CASE ThrUnlock BY <1>29 DEF ThrUnlock, ThrGoes, ThrLocal, ThrUnchanged
<1>30. CASE ThrPortReset BY <1>30 DEF ThrPortReset, ThrGoes, PortResetRefused,
  ThrUnchanged
<1>31. CASE ThrPreReset BY <1>31 DEF ThrPreReset, ThrGoes, ThrLocal, ThrUnchanged
<1>32. CASE ThrPostReset BY <1>32 DEF ThrPostReset, HostLockFree, ThrGoes, ThrUnchanged
<1>33. CASE ThrRelock BY <1>33 DEF ThrRelock, ThrGoes, ThrLocal, ThrUnchanged
<1>34. CASE ThrClassReset BY <1>34 DEF ThrClassReset, HostLockFree, ThrGoes, MsgStart,
  ResetTransfers, ThrLocal, ThrUnchanged
<1>35. CASE ThrClassResetStep BY <1>35 DEF ThrClassResetStep, ResetContinues, MsgStart,
  ResetEnds, ThrGoes, ThrLocal, ThrUnchanged, ResetTransfers
<1>36. CASE ThrEndReset BY <1>36 DEF ThrEndReset, ThrGoes, ThrLocal, ThrUnchanged
<1>37. CASE ThrFinish BY <1>37 DEF ThrFinish, HostLockFree, Finish, ThrUnchanged,
  ThrGoes
<1>38. CASE DiscStart BY <1>38 DEF DiscStart, DiscUnchanged, thrVars
<1>39. CASE DiscRemoved BY <1>39 DEF DiscRemoved, DiscUnchanged, thrVars
<1>40. CASE DiscFlag BY <1>40 DEF DiscFlag, HostLockFree, DiscUnchanged, thrVars
<1>41. CASE DiscStopThread BY <1>41 DEF DiscStopThread, DiscUnchanged, thrVars
<1>42. CASE DiscFree BY <1>42 DEF DiscFree, DiscUnchanged, thrVars
<1>43. CASE UNCHANGED vars BY <1>43 DEF vars, thrVars, msgVars
<1>44. CASE AskReset BY <1>44 DEF AskReset, thrVars, msgVars
<1> QED BY <1>1, <1>2, <1>3, <1>4, <1>5, <1>6, <1>7, <1>8, <1>9, <1>10, <1>11, <1>12,
  <1>13, <1>14, <1>15, <1>16, <1>17, <1>18, <1>19, <1>20, <1>21, <1>22, <1>23, <1>24,
  <1>25, <1>26, <1>27, <1>28, <1>29, <1>30, <1>31, <1>32, <1>33, <1>34, <1>35, <1>36,
  <1>37, <1>38, <1>39, <1>40, <1>41, <1>42, <1>43, <1>44 DEF Next, ErrorHandler, Reset,
  Message, Thread, Disconnect

\* us->srb and cmnd_ready keep telling whether the thread has work.
LEMMA CommandInvStep == IInv /\ [Next]_vars => CommandInv'
<1> SUFFICES ASSUME IInv, [Next]_vars PROVE CommandInv'
  OBVIOUS
<1> USE DEF IInv, TypeOK, OwnerInv, CommandInv, AbortInv, AutoReset, Has
<1>1. CASE QueueCommand BY <1>1 DEF QueueCommand, HostLockFree, thrVars, msgVars
<1>2. CASE CommandTimeout BY <1>2 DEF CommandTimeout, thrVars, msgVars
<1>3. CASE Abort BY <1>3 DEF Abort, msgVars, EhUnchanged, thrVars
<1>4. CASE StopTransport BY <1>4 DEF StopTransport, msgVars, EhUnchanged, thrVars
<1>5. CASE StopUnlink BY <1>5 DEF StopUnlink, Unlink, EhUnchanged, thrVars
<1>6. CASE AbortReturns BY <1>6 DEF AbortReturns, msgVars, EhUnchanged, thrVars
<1>7. CASE BusReset BY <1>7 DEF BusReset, PortResetRefused, thrVars, msgVars
<1>8. CASE BusPreReset BY <1>8 DEF BusPreReset, msgVars, EhUnchanged, thrVars
<1>9. CASE BusPostReset BY <1>9 DEF BusPostReset, thrVars, msgVars
<1>10. CASE DeviceReset BY <1>10 DEF DeviceReset, ResetLocked, MsgStart, ResetTransfers, thrVars
<1>11. CASE DeviceResetStep BY <1>11 DEF DeviceResetStep, ResetContinues, MsgStart,
  thrVars, ResetTransfers
<1>12. CASE DeviceResetEnd BY <1>12 DEF DeviceResetEnd, ResetEnds, thrVars,
  ResetTransfers
<1>13. CASE MsgTest BY <1>13 DEF MsgTest, MsgUnchanged, thrVars
<1>14. CASE MsgSubmitted BY <1>14 DEF MsgSubmitted, MsgUnchanged, thrVars
<1>15. CASE MsgSetActive BY <1>15 DEF MsgSetActive, MsgUnchanged, thrVars
<1>16. CASE MsgRecheck BY <1>16 DEF MsgRecheck, MsgUnchanged, thrVars
<1>17. CASE MsgCancel BY <1>17 DEF MsgCancel, MsgUnchanged, thrVars
<1>18. CASE MsgUnlink BY <1>18 DEF MsgUnlink, Unlink, MsgUnchanged, thrVars
<1>19. CASE MsgWoken BY <1>19 DEF MsgWoken, MsgUnchanged, thrVars
<1>20. CASE MsgTimeout BY <1>20 DEF MsgTimeout, MsgUnchanged, thrVars
<1>21. CASE MsgKill BY <1>21 DEF MsgKill, MsgUnchanged, thrVars
<1>22. CASE UrbCompletes BY <1>22 DEF UrbCompletes, MsgUnchanged, thrVars
<1>23. CASE ThrWoken BY <1>23 DEF ThrWoken, ThrGoes, ThrUnchanged
<1>24. CASE ThrBegin BY <1>24 DEF ThrBegin, HostLockFree, ThrGoes, Finish, ThrUnchanged
<1>25. CASE ThrTransfer BY <1>25 DEF ThrTransfer, MsgStart, ThrGoes, ThrLocal,
  ThrUnchanged
<1>26. CASE ThrTransferred BY <1>26 DEF ThrTransferred, ThrGoes, ThrLocal, ThrUnchanged
<1>27. CASE ThrCheck BY <1>27 DEF ThrCheck, Ends, Senses, ThrLocal, ThrUnchanged,
  ThrGoes
<1>28. CASE ThrErrors BY <1>28 DEF ThrErrors, HostLockFree, ThrGoes, ThrLocal,
  ThrUnchanged
<1>29. CASE ThrUnlock BY <1>29 DEF ThrUnlock, ThrGoes, ThrLocal, ThrUnchanged
<1>30. CASE ThrPortReset BY <1>30 DEF ThrPortReset, ThrGoes, PortResetRefused,
  ThrUnchanged
<1>31. CASE ThrPreReset BY <1>31 DEF ThrPreReset, ThrGoes, ThrLocal, ThrUnchanged
<1>32. CASE ThrPostReset BY <1>32 DEF ThrPostReset, HostLockFree, ThrGoes, ThrUnchanged
<1>33. CASE ThrRelock BY <1>33 DEF ThrRelock, ThrGoes, ThrLocal, ThrUnchanged
<1>34. CASE ThrClassReset BY <1>34 DEF ThrClassReset, HostLockFree, ThrGoes, MsgStart,
  ResetTransfers, ThrLocal, ThrUnchanged
<1>35. CASE ThrClassResetStep BY <1>35 DEF ThrClassResetStep, ResetContinues, MsgStart,
  ResetEnds, ThrGoes, ThrLocal, ThrUnchanged, ResetTransfers
<1>36. CASE ThrEndReset BY <1>36 DEF ThrEndReset, ThrGoes, ThrLocal, ThrUnchanged
<1>37. CASE ThrFinish BY <1>37 DEF ThrFinish, HostLockFree, Finish, ThrUnchanged,
  ThrGoes
<1>38. CASE DiscStart BY <1>38 DEF DiscStart, DiscUnchanged, thrVars
<1>39. CASE DiscRemoved BY <1>39 DEF DiscRemoved, DiscUnchanged, thrVars
<1>40. CASE DiscFlag BY <1>40 DEF DiscFlag, HostLockFree, DiscUnchanged, thrVars
<1>41. CASE DiscStopThread BY <1>41 DEF DiscStopThread, DiscUnchanged, thrVars
<1>42. CASE DiscFree BY <1>42 DEF DiscFree, DiscUnchanged, thrVars
<1>43. CASE UNCHANGED vars BY <1>43 DEF vars, thrVars, msgVars
<1>44. CASE AskReset BY <1>44 DEF AskReset, thrVars, msgVars
<1> QED BY <1>1, <1>2, <1>3, <1>4, <1>5, <1>6, <1>7, <1>8, <1>9, <1>10, <1>11, <1>12,
  <1>13, <1>14, <1>15, <1>16, <1>17, <1>18, <1>19, <1>20, <1>21, <1>22, <1>23, <1>24,
  <1>25, <1>26, <1>27, <1>28, <1>29, <1>30, <1>31, <1>32, <1>33, <1>34, <1>35, <1>36,
  <1>37, <1>38, <1>39, <1>40, <1>41, <1>42, <1>43, <1>44 DEF Next, ErrorHandler, Reset,
  Message, Thread, Disconnect

\* TIMED_OUT and ABORTING keep belonging to an abort that waits.
LEMMA AbortInvStep == IInv /\ [Next]_vars => AbortInv'
<1> SUFFICES ASSUME IInv, [Next]_vars PROVE AbortInv'
  OBVIOUS
<1> USE DEF IInv, TypeOK, CommandInv, AbortInv, Has
<1>1. CASE QueueCommand BY <1>1 DEF QueueCommand, HostLockFree, thrVars, msgVars
<1>2. CASE CommandTimeout BY <1>2 DEF CommandTimeout, thrVars, msgVars
<1>3. CASE Abort BY <1>3 DEF Abort, msgVars, EhUnchanged, thrVars
<1>4. CASE StopTransport BY <1>4 DEF StopTransport, msgVars, EhUnchanged, thrVars
<1>5. CASE StopUnlink BY <1>5 DEF StopUnlink, Unlink, EhUnchanged, thrVars
<1>6. CASE AbortReturns BY <1>6 DEF AbortReturns, msgVars, EhUnchanged, thrVars
<1>7. CASE BusReset BY <1>7 DEF BusReset, PortResetRefused, thrVars, msgVars
<1>8. CASE BusPreReset BY <1>8 DEF BusPreReset, msgVars, EhUnchanged, thrVars
<1>9. CASE BusPostReset BY <1>9 DEF BusPostReset, thrVars, msgVars
<1>10. CASE DeviceReset BY <1>10 DEF DeviceReset, ResetLocked, MsgStart, ResetTransfers, thrVars
<1>11. CASE DeviceResetStep BY <1>11 DEF DeviceResetStep, ResetContinues, MsgStart,
  thrVars, ResetTransfers
<1>12. CASE DeviceResetEnd BY <1>12 DEF DeviceResetEnd, ResetEnds, thrVars,
  ResetTransfers
<1>13. CASE MsgTest BY <1>13 DEF MsgTest, MsgUnchanged, thrVars
<1>14. CASE MsgSubmitted BY <1>14 DEF MsgSubmitted, MsgUnchanged, thrVars
<1>15. CASE MsgSetActive BY <1>15 DEF MsgSetActive, MsgUnchanged, thrVars
<1>16. CASE MsgRecheck BY <1>16 DEF MsgRecheck, MsgUnchanged, thrVars
<1>17. CASE MsgCancel BY <1>17 DEF MsgCancel, MsgUnchanged, thrVars
<1>18. CASE MsgUnlink BY <1>18 DEF MsgUnlink, Unlink, MsgUnchanged, thrVars
<1>19. CASE MsgWoken BY <1>19 DEF MsgWoken, MsgUnchanged, thrVars
<1>20. CASE MsgTimeout BY <1>20 DEF MsgTimeout, MsgUnchanged, thrVars
<1>21. CASE MsgKill BY <1>21 DEF MsgKill, MsgUnchanged, thrVars
<1>22. CASE UrbCompletes BY <1>22 DEF UrbCompletes, MsgUnchanged, thrVars
<1>23. CASE ThrWoken BY <1>23 DEF ThrWoken, ThrGoes, ThrUnchanged
<1>24. CASE ThrBegin BY <1>24 DEF ThrBegin, HostLockFree, ThrGoes, Finish, ThrUnchanged
<1>25. CASE ThrTransfer BY <1>25 DEF ThrTransfer, MsgStart, ThrGoes, ThrLocal,
  ThrUnchanged
<1>26. CASE ThrTransferred BY <1>26 DEF ThrTransferred, ThrGoes, ThrLocal, ThrUnchanged
<1>27. CASE ThrCheck BY <1>27 DEF ThrCheck, Ends, Senses, ThrLocal, ThrUnchanged,
  ThrGoes
<1>28. CASE ThrErrors BY <1>28 DEF ThrErrors, HostLockFree, ThrGoes, ThrLocal,
  ThrUnchanged
<1>29. CASE ThrUnlock BY <1>29 DEF ThrUnlock, ThrGoes, ThrLocal, ThrUnchanged
<1>30. CASE ThrPortReset BY <1>30 DEF ThrPortReset, ThrGoes, PortResetRefused,
  ThrUnchanged
<1>31. CASE ThrPreReset BY <1>31 DEF ThrPreReset, ThrGoes, ThrLocal, ThrUnchanged
<1>32. CASE ThrPostReset BY <1>32 DEF ThrPostReset, HostLockFree, ThrGoes, ThrUnchanged
<1>33. CASE ThrRelock BY <1>33 DEF ThrRelock, ThrGoes, ThrLocal, ThrUnchanged
<1>34. CASE ThrClassReset BY <1>34 DEF ThrClassReset, HostLockFree, ThrGoes, MsgStart,
  ResetTransfers, ThrLocal, ThrUnchanged
<1>35. CASE ThrClassResetStep BY <1>35 DEF ThrClassResetStep, ResetContinues, MsgStart,
  ResetEnds, ThrGoes, ThrLocal, ThrUnchanged, ResetTransfers
<1>36. CASE ThrEndReset BY <1>36 DEF ThrEndReset, ThrGoes, ThrLocal, ThrUnchanged
<1>37. CASE ThrFinish BY <1>37 DEF ThrFinish, HostLockFree, Finish, ThrUnchanged,
  ThrGoes
<1>38. CASE DiscStart BY <1>38 DEF DiscStart, DiscUnchanged, thrVars
<1>39. CASE DiscRemoved BY <1>39 DEF DiscRemoved, DiscUnchanged, thrVars
<1>40. CASE DiscFlag BY <1>40 DEF DiscFlag, HostLockFree, DiscUnchanged, thrVars
<1>41. CASE DiscStopThread BY <1>41 DEF DiscStopThread, DiscUnchanged, thrVars
<1>42. CASE DiscFree BY <1>42 DEF DiscFree, DiscUnchanged, thrVars
<1>43. CASE UNCHANGED vars BY <1>43 DEF vars, thrVars, msgVars
<1>44. CASE AskReset BY <1>44 DEF AskReset, thrVars, msgVars
<1> QED BY <1>1, <1>2, <1>3, <1>4, <1>5, <1>6, <1>7, <1>8, <1>9, <1>10, <1>11, <1>12,
  <1>13, <1>14, <1>15, <1>16, <1>17, <1>18, <1>19, <1>20, <1>21, <1>22, <1>23, <1>24,
  <1>25, <1>26, <1>27, <1>28, <1>29, <1>30, <1>31, <1>32, <1>33, <1>34, <1>35, <1>36,
  <1>37, <1>38, <1>39, <1>40, <1>41, <1>42, <1>43, <1>44 DEF Next, ErrorHandler, Reset,
  Message, Thread, Disconnect

\* The inductive invariant of the protocol.
THEOREM Inductive == Spec => []IInv
<1>1. IInv /\ [Next]_vars => IInv'
  <2> SUFFICES ASSUME IInv, [Next]_vars PROVE IInv' OBVIOUS
  <2> QED BY TypeOKStep, OwnerInvStep, UrbInvStep, ResetInvStep, CommandInvStep, AbortInvStep
          DEF IInv
<1> QED BY InitIInv, <1>1, PTL DEF Spec

\* Every state is well typed: in particular ready and notify, counts the kernel does not
\* bound, never exceed one.
THEOREM TypeCorrect == Spec => []TypeOK
<1>1. IInv => TypeOK
  BY DEF IInv
<1> QED BY <1>1, Inductive, PTL

\* Part (1) of the comment "This is subtle, so pay attention" of USB/transport.c: after
\* stop_transport the URB the thread waits for has been cancelled.
THEOREM AbortCancels == Spec => []AbortedIsUnlinked
<1>1. IInv => AbortedIsUnlinked
  BY DEF IInv, TypeOK, UrbInv, ActiveBits, HostLockFree, AbortedIsUnlinked
<1> QED BY <1>1, Inductive, PTL

\* Part (2): one call of usb_unlink_urb at most, however abort and submission meet ...
THEOREM CancelledOnce == Spec => []UnlinkedOnce
<1>1. IInv => UnlinkedOnce
  BY DEF IInv, UrbInv, UnlinkedOnce
<1> QED BY <1>1, Inductive, PTL

\* ... and none while usb_submit_urb is running.
THEOREM SubmitUndisturbed == Spec => []NoUnlinkDuringSubmit
<1>1. IInv => NoUnlinkDuringSubmit
  BY DEF IInv, UrbInv, NoUnlinkDuringSubmit
<1> QED BY <1>1, Inductive, PTL

\* The reset after a failed command is never disturbed by an abort.
THEOREM ResetUndisturbed == Spec => []AutoResetUndisturbed
<1>1. IInv => AutoResetUndisturbed
  BY DEF IInv, ResetInv, AbortInv, HostLockFree, Has, AutoResetUndisturbed
<1> QED BY <1>1, Inductive, PTL

\* The state-transition error queuecommand_lck tests for cannot happen.
THEOREM HostNeverBusy == Spec => []NeverBusy
<1>1. IInv => NeverBusy
  BY DEF IInv, AbortInv, NeverBusy
<1> QED BY <1>1, Inductive, PTL

\* No command is lost and every accepted abort is answered exactly once.
THEOREM NoCommandLost == Spec => []CommandNotLost
<1>1. IInv => CommandNotLost
  BY DEF IInv, TypeOK, AbortInv, Has, CommandNotLost
<1> QED BY <1>1, Inductive, PTL

\* No flag of an abort or a reset survives its command.
THEOREM CleanAfterCommand == Spec => []NothingLeftBehind
<1>1. IInv => NothingLeftBehind
  BY DEF IInv, ResetInv, AbortInv, CommandInv, AutoReset, Has, NothingLeftBehind
<1> QED BY <1>1, Inductive, PTL

\* Once the URB is freed nobody uses it. A user's device_reset that waited for
\* dev_mutex across the disconnect gets it when the thread has exited, and the test
\* of DISCONNECTING keeps it from submitting (scsiglue.c:390, transport.c:1255).
THEOREM FreedIsUnused == Spec => []FreedUnused
<1>1. IInv => FreedUnused
  BY DEF IInv, TypeOK, OwnerInv, CommandInv, AbortInv, FreedUnused
<1> QED BY <1>1, Inductive, PTL

\* An abort reaches its URB, once, and nothing but its URB, for any number of
\* transfers (transport.c:128-188, 866-908).
THEOREM AbortIsSafe == Spec => []AbortSafe
BY AbortCancels, CancelledOnce, SubmitUndisturbed, ResetUndisturbed, PTL DEF AbortSafe

\* The midlayer and the driver agree on the command outstanding and on who owes
\* an answer (scsiglue.c:311-378, usb_1.c:305-409).
THEOREM CommandsAreAccounted == Spec => []CommandsAccounted
BY HostNeverBusy, NoCommandLost, PTL DEF CommandsAccounted

\* Neither a command nor a disconnect leaves a flag or a user of the URB behind,
\* whenever user programs ask for a device reset (usb_1.c:378-409, 781-859,
\* scsiglue.c:382-395, transport.c:1255-1258).
THEOREM IsCleanedUp == Spec => []CleanedUp
BY CleanAfterCommand, FreedIsUnused, PTL DEF CleanedUp
=============================================================================
