------------------------------- MODULE MCPic -------------------------------
(* Firmware masks for Pic: everything masked, what a PC's firmware leaves   *)
(* with the RTC in use, and everything open.                                *)
EXTENDS Pic

Firmware(master, slave) == [master |-> master, slave |-> slave]
RtcAlone == {Firmware(Lines, Lines \ {0})}
RtcOpen == RtcAlone \cup
           {Firmware({3, 4, 5, 6, 7}, {1, 2, 3, 7}), Firmware({}, {})}
AnyFirmware == RtcOpen \cup {Firmware(Lines, Lines)}
=============================================================================
