------------------------------ MODULE MeRegion ------------------------------
(***************************************************************************)
(* The fixed ME range of MeRestoreApp.c and VerifyMeRegion's decoding of  *)
(* the FREG2 flash-region register: base in bits 14:0 and limit in bits   *)
(* 30:16, both in 4 KiB pages.  Shifts and masks are written with div and *)
(* mod: x & 0x7FFF is x % 2^15, x >> 16 is x \div 2^16, x << 12 is       *)
(* x * 2^12 (no overflow: the operands are widened to UINT64 first).      *)
(***************************************************************************)
EXTENDS Naturals

ME_FIRMWARE_START == 1204224     \* 0x00126000
ME_FIRMWARE_END   == 15499263    \* 0x00EC7FFF
ME_FIRMWARE_SIZE  == ME_FIRMWARE_END - ME_FIRMWARE_START + 1
ME_CHUNK_SIZE     == 256

Page == 4096

(* Base = ((UINT64)(Freg2 & 0x7FFF)) << 12                                 *)
FregBase(freg) == (freg % 32768) * Page

(* Limit = ((UINT64)((Freg2 >> 16) & 0x7FFF)) << 12                        *)
FregLimit(freg) == ((freg \div 65536) % 32768) * Page

(* ME_FIRMWARE_END & ~0xFFFULL                                             *)
PageFloor(x) == x - (x % Page)

(* VerifyMeRegion's acceptance test.                                       *)
MeRegionMatches(freg) ==
  /\ FregBase(freg) = ME_FIRMWARE_START
  /\ \/ FregLimit(freg) = ME_FIRMWARE_END
     \/ FregLimit(freg) = PageFloor(ME_FIRMWARE_END)

=============================================================================
