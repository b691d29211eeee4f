---------------------------- MODULE ScsiCommand ----------------------------
(***************************************************************************)
(* What usb_stor_invoke_transport (USB/transport.c) promises the control   *)
(* thread: a command is run once, followed by auto-sense at most twice (a  *)
(* large request and a small one); each of the runs makes a bounded number *)
(* of calls of usb_stor_msg_common; the command ends with one answer, and  *)
(* with a reset exactly if the answer is an error of the transport or an   *)
(* abort. UsbStorage abstracts a run in this way.                          *)
(***************************************************************************)
EXTENDS Naturals

CONSTANT MaxCalls      \* calls of usb_stor_msg_common that one run may need

VARIABLES stage, calls, answer
vars == <<stage, calls, answer>>

Answers == {"GOOD", "CHECK", "ERROR", "IMM_RETRY"}

Init == stage = "idle" /\ calls = 0 /\ answer = "none"

Issue ==
    /\ stage = "idle" /\ stage' = "run"
    /\ calls' = 0 /\ answer' = "none"

Call ==
    /\ stage \in {"run", "large", "small"} /\ calls < MaxCalls
    /\ calls' = calls + 1 /\ UNCHANGED <<stage, answer>>

AutoSense ==
    /\ \/ stage = "run" /\ stage' \in {"large", "small"}
       \/ stage = "large" /\ stage' = "small"
    /\ calls' = 0 /\ UNCHANGED answer

\* what the runs returned is looked at once more: short transfers, READ(10)
Judge ==
    /\ stage \in {"run", "large", "small"} /\ stage' = "judge"
    /\ calls' = 0 /\ UNCHANGED answer

Answer ==
    /\ stage \in {"run", "large", "small", "judge"} /\ stage' = "idle"
    /\ calls' = 0 /\ answer' \in Answers

GiveUp ==
    /\ stage \in {"run", "large", "small"} /\ stage' = "reset"
    /\ calls' = 0 /\ answer' \in {"ERROR", "ABORT"}

\* the last-sector workaround may turn the error into a final one
Recover ==
    /\ stage = "reset" /\ stage' = "idle"
    /\ answer' \in {answer, "CHECK"} /\ UNCHANGED calls

Next == Issue \/ Call \/ AutoSense \/ Judge \/ Answer \/ GiveUp \/ Recover

Spec == Init /\ [][Next]_vars /\ WF_vars(Call \/ AutoSense \/ Judge \/ Answer \/ GiveUp \/ Recover)
=============================================================================
