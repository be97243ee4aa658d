---------------------------- MODULE MCDsmilUnlock ----------------------------
(* dsmil-unlock with a 10-bit UINT32, and msr-write addresses 0x1B0,    *)
(* 0x5B0 (0x1B0 once truncated) and 0x3A; and the four kinds of "full"   *)
(* mode: the two aggressive names, "safe" and anything else.              *)
EXTENDS DsmilUnlock

MCMsrArgs == {432, 1456, 58}
MCFullModes == {"safe", "aggressive", "complete", "quick"}
=============================================================================
