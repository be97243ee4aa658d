--------------------------- MODULE MCMeRestoreApp ---------------------------
(* Constants of MeRestoreApp for TLC.                                      *)
EXTENDS MeRestoreApp

(* FREG2 = 0x0EC70126, the ME region 0x126000..0xEC7FFF, and 0x0EC60126,  *)
(* a region one page short.                                                *)
MCFregVals == {247922982, 247857446}

=============================================================================
