------------------------------ MODULE MCDevMem2 -----------------------------
(* devmem2 with 5-bit addresses (off_t -16..15) and 8-byte pages.  The     *)
(* numbers are an aligned address (4), one 6 bytes into its page, one     *)
(* less than a step below the top of off_t (13) and one that converts to  *)
(* a negative off_t (20).                                                  *)
EXTENDS DevMem2

MCNums == {4, 6, 13, 20}
MCLetters == {"W", "x"}
=============================================================================
