----------------------------- MODULE DsmilUnlock -----------------------------
(***************************************************************************)
(* The dsmil-unlock shell command (DsmilUnlock.c): the handler's dispatch *)
(* on its sub-command, and DsmilFullUnlock's tiers in their order, ending  *)
(* with the completion marker in MSR 0x1B0.  A shell session runs any      *)
(* number of commands one after the other.                                 *)
(*                                                                         *)
(* The tier functions are fixed lists of MMIO and PCI writes whose read-   *)
(* backs are only printed; each is abstracted to the fact that it ran,    *)
(* except the two that change state a property reads: the MSR writes of   *)
(* DsmilCoordinateMsrs and the marker, and the HAP bit (HFSTS1 bit 12)    *)
(* that DsmilActivateHap's six ME commands may or may not set.  MSR       *)
(* values are abstracted to Boot (as the platform left it), Ones           *)
(* (0xFFFFFFFFFFFFFFFF), Marker ("UEFIUNLK") and User (a value typed to   *)
(* msr-write, other than the marker).                                      *)
(***************************************************************************)
EXTENDS Integers, Sequences

CONSTANTS
  MsrArgs,     \* MSR addresses typed to msr-write, as StrHexToUintn parses them
  MsrAddrBits, \* width of the UINT32 the address is cast to (32)
  FullModes    \* mode arguments typed to "full"

ASSUME DsmilAssumption ==
  /\ MsrArgs \subseteq Nat
  /\ MsrAddrBits \in Nat /\ 2^MsrAddrBits > 432
  /\ FullModes \subseteq STRING

(* MSR_COORD_1A0 .. MSR_COORD_1B0 (DsmilUnlock.h).                          *)
CoordMsrs == {416, 420, 429, 430, 431, 432}
MSR_COORD_1B0 == 432

MsrVals == {"Boot", "Ones", "Marker", "User"}

Subs == {"msr-read", "msr-write", "coordinate", "clearance", "device255",
         "vsec", "hap", "host-bridge", "microcode", "i2c", "additional",
         "full", "unknown"}

(* The tiers DsmilFullUnlock runs in every mode, those it runs only when  *)
(* Aggressive, and the order of all of them.                               *)
BasicTiers == {"clearance", "coordinate", "device255", "hap", "vsec",
               "host-bridge", "marker"}
AggressiveTiers == {"microcode", "i2c", "additional"}

FullTiersMarkerFirst ==
  <<"clearance", "marker", "coordinate", "device255", "hap", "vsec",
    "host-bridge", "microcode", "i2c", "additional">>

FullTiers ==
  <<"clearance", "coordinate", "device255", "hap", "vsec", "host-bridge",
    "microcode", "i2c", "additional", "marker">>

(* The handler's prompt: no command running.                              *)
Shell == 0

IsAggressiveNotSafe(m) == m # "safe"

(* Aggressive = StrCmp (Mode, "aggressive") == 0 || StrCmp (Mode,          *)
(* "complete") == 0.                                                        *)
IsAggressive(m) == m \in {"aggressive", "complete"}

VARIABLES
  msr,       \* the coordination MSRs
  hap,       \* HFSTS1 bit 12: HAP mode active
  pc,        \* Shell (0) between commands, else the index in FullTiers
  fmode,     \* DsmilFullUnlock's Mode argument
  aggr,      \* DsmilFullUnlock's Aggressive
  ran,       \* tiers the current command has run
  last       \* the current or last sub-command

vars == <<msr, hap, pc, fmode, aggr, ran, last>>

TypeOK ==
  /\ msr \in [CoordMsrs -> MsrVals]
  /\ hap \in BOOLEAN
  /\ pc \in {Shell} \cup 1 .. Len(FullTiers)
  /\ fmode \in FullModes \cup {"safe"}
  /\ aggr \in BOOLEAN
  /\ ran \subseteq BasicTiers \cup AggressiveTiers
  /\ last \in Subs \cup {"none"}

Init ==
  /\ msr = [m \in CoordMsrs |-> "Boot"]
  /\ hap \in BOOLEAN
  /\ pc = Shell /\ fmode = "safe" /\ aggr = FALSE /\ ran = {} /\ last = "none"

-----------------------------------------------------------------------------
(* The tier functions, as the change each makes.                           *)

(* DsmilCoordinateMsrs: CoordValue to each of the six MSRs; the check of  *)
(* DsmilMsrWrite's status never fails (it returns EFI_SUCCESS).            *)
CoordinateMsrs == msr' = [m \in CoordMsrs |-> "Ones"] /\ UNCHANGED hap

(* DsmilActivateHap: six ME commands, then HFSTS1 bit 12 decides between *)
(* EFI_SUCCESS and EFI_NOT_READY.  Whether the ME takes one of them is    *)
(* the platform's choice; nothing clears the bit.                          *)
ActivateHap == hap' \in {hap, TRUE} /\ UNCHANGED msr

(* DsmilMsrWrite (MSR_COORD_1B0, UefiMarker).                              *)
WriteMarker == msr' = [msr EXCEPT ![MSR_COORD_1B0] = "Marker"] /\ UNCHANGED hap

(* The tiers that only write devices outside the model: their MMIO and    *)
(* PCI writes, their read-backs and their status checks change nothing a  *)
(* property reads.  Each returns EFI_SUCCESS or a Status nobody checks.    *)
SetClearance == UNCHANGED <<msr, hap>>                \* DsmilSetClearance
Device255Unlock == UNCHANGED <<msr, hap>>             \* DsmilDevice255Unlock
VsecUnlock == UNCHANGED <<msr, hap>>                  \* DsmilVsecUnlock
HostBridgeUnlock == UNCHANGED <<msr, hap>>            \* DsmilHostBridgeUnlock
StageMicrocode == UNCHANGED <<msr, hap>>              \* DsmilStageMicrocode
I2CUnlock == UNCHANGED <<msr, hap>>                   \* DsmilI2CUnlock
AdditionalHardwareUnlock == UNCHANGED <<msr, hap>>    \* DsmilAdditionalHardwareUnlock

RunTierDevice255Coordinates(t) ==
  CASE t = "clearance"   -> SetClearance
    [] t = "coordinate"  -> CoordinateMsrs
    [] t = "device255"   -> CoordinateMsrs
    [] t = "hap"         -> ActivateHap
    [] t = "vsec"        -> VsecUnlock
    [] t = "host-bridge" -> HostBridgeUnlock
    [] t = "microcode"   -> StageMicrocode
    [] t = "i2c"         -> I2CUnlock
    [] t = "additional"  -> AdditionalHardwareUnlock
    [] t = "marker"      -> WriteMarker

(* The tier t runs.                                                        *)
RunTier(t) ==
  CASE t = "clearance"   -> SetClearance
    [] t = "coordinate"  -> CoordinateMsrs
    [] t = "device255"   -> Device255Unlock
    [] t = "hap"         -> ActivateHap
    [] t = "vsec"        -> VsecUnlock
    [] t = "host-bridge" -> HostBridgeUnlock
    [] t = "microcode"   -> StageMicrocode
    [] t = "i2c"         -> I2CUnlock
    [] t = "additional"  -> AdditionalHardwareUnlock
    [] t = "marker"      -> WriteMarker

-----------------------------------------------------------------------------
(* DsmilUnlockCommandHandler with Argc arguments (the command name         *)
(* included): usage for Argc < 2, INVALID_PARAMETER for a missing operand *)
(* or an unknown sub-command, else the sub-command's tier.  msr-write     *)
(* truncates its address to UINT32.                                        *)
Handle(argc, sub, a, mode) ==
  LET mode2 == IF argc >= 3 THEN mode ELSE "safe"
      addr  == a % 2^MsrAddrBits
  IN
  IF argc < 2
    THEN last' = "none" /\ UNCHANGED <<msr, hap, pc, fmode, aggr, ran>>
    ELSE
    /\ last' = sub
    /\ CASE sub \in {"msr-read", "unknown"}
              \/ (sub = "msr-write" /\ argc < 4) ->
              UNCHANGED <<msr, hap, pc, fmode, aggr, ran>>
         [] sub = "msr-write" /\ argc >= 4 ->
              /\ msr' = IF addr \in CoordMsrs
                          THEN [msr EXCEPT ![addr] = "User"] ELSE msr
              /\ ran' = {} /\ UNCHANGED <<hap, pc, fmode, aggr>>
         [] sub = "full" ->
              /\ pc' = 1 /\ fmode' = mode2 /\ aggr' = IsAggressive(mode2)
              /\ ran' = {}
              /\ UNCHANGED <<msr, hap>>
         [] OTHER ->
              /\ RunTier(sub) /\ ran' = {sub}
              /\ UNCHANGED <<pc, fmode, aggr>>

(* The shell runs the command at its prompt, with any of the arguments.   *)
Command ==
  /\ pc = Shell
  /\ \E argc \in 1 .. 4, sub \in Subs, a \in MsrArgs, mode \in FullModes :
       Handle(argc, sub, a, mode)

FullStepPastEnd ==
  /\ pc \in 1 .. Len(FullTiers)
  /\ LET t == FullTiers[pc] IN
       IF t \in AggressiveTiers /\ ~aggr
         THEN UNCHANGED <<msr, hap, ran>>
         ELSE RunTier(t) /\ ran' = ran \cup {t}
  /\ pc' = IF pc > Len(FullTiers) THEN Shell ELSE pc + 1
  /\ UNCHANGED <<fmode, aggr, last>>

(* DsmilFullUnlock, one tier per step, the aggressive ones skipped unless *)
(* Aggressive; it returns EFI_SUCCESS after the marker.                    *)
FullStep ==
  /\ pc \in 1 .. Len(FullTiers)
  /\ LET t == FullTiers[pc] IN
       IF t \in AggressiveTiers /\ ~aggr
         THEN UNCHANGED <<msr, hap, ran>>
         ELSE RunTier(t) /\ ran' = ran \cup {t}
  /\ pc' = IF pc = Len(FullTiers) THEN Shell ELSE pc + 1
  /\ UNCHANGED <<fmode, aggr, last>>

Next == Command \/ FullStep

Spec == Init /\ [][Next]_vars

-----------------------------------------------------------------------------
(* When DsmilFullUnlock returns, MSR 0x1B0 holds the completion marker:   *)
(* the marker is written after DsmilCoordinateMsrs, which sets the same   *)
(* MSR to all ones.                                                        *)
MarkerAtFullEnd == pc = Shell /\ last = "full" => msr[MSR_COORD_1B0] = "Marker"

(* A full unlock runs every basic tier and the marker, and the microcode, *)
(* I2C and additional tiers exactly when its mode is "aggressive" or      *)
(* "complete" (the usage: "safe - Basic unlock (TIER 0-4)").              *)
FullRunsItsTiers ==
  pc = Shell /\ last = "full" =>
    ran = BasicTiers \cup (IF fmode \in {"aggressive", "complete"}
                            THEN AggressiveTiers ELSE {})

(* The completion marker in MSR 0x1B0 is read after reboot as "UEFI     *)
(* prerequisites complete".  Once written, only three commands of the     *)
(* session erase it: coordinate and a new full unlock (whose              *)
(* DsmilCoordinateMsrs writes all ones there), and msr-write to an        *)
(* address that truncates to 0x1B0.  No other tier touches it.            *)
MarkerErasedOnlyByMsrWriters ==
  [][msr[MSR_COORD_1B0] = "Marker" /\ msr'[MSR_COORD_1B0] # "Marker"
       => last' \in {"coordinate", "full", "msr-write"}]_vars

=============================================================================
