--------------------------- MODULE MCUsbTransport ---------------------------
(* Commands and devices for the model checker. *)
EXTENDS UsbTransport

Command(op, len, in, last, underflow) ==
    [op |-> op, len |-> len, in |-> in, last |-> last, underflow |-> underflow]

\* no data, one of them a sign of SAT; data in with the heuristics of INQUIRY; a read in the middle
\* and a write at the end of the disk
MCCommands == {
    Command("TUR",     0, FALSE, FALSE, 0),
    Command("ATA16",   0, FALSE, FALSE, 0),
    Command("INQUIRY", 2, TRUE,  FALSE, 1),
    Command("READ10",  1, TRUE,  FALSE, 1),
    Command("WRITE10", 1, FALSE, TRUE,  1) }

Device(p, u, f) == [protocol |-> p, ufi |-> u, fflags |-> f]

\* one LUN; several targets, tags not to be trusted and a first READ(10) that
\* fails; the UFI and the other control transports
MCDevices == {
    Device("BULK", FALSE, {}),
    Device("BULK", FALSE, {"SANE_SENSE", "MULT_TARG", "IGNORE_TAG", "INITIAL_READ10"}),
    Device("CB",   FALSE, {}),
    Device("CBI",  FALSE, {"SANE_SENSE"}),
    Device("CBI",  TRUE,  {}) }
=============================================================================
