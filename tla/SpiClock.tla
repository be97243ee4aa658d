------------------------------ MODULE SpiClock ------------------------------
(***************************************************************************)
(* The SPI clock-divider handling of MeRestoreApp.c: ProbeSpiClockControl, *)
(* SetSpiClockSpeed and RestoreSpiClockSpeed, in the order ShellAppMain   *)
(* calls them (set before the firmware transfer, restore on every exit    *)
(* after it), with the transfers in between as an environment.            *)
(*                                                                         *)
(* A register is abstracted to its divider field, bits 8-10, as a number  *)
(* 0..7 (SPI_CLOCK_DIV_1 is 0, SPI_CLOCK_DIV_8 is 3).  Which candidate      *)
(* registers keep a value written to that field is a property of the      *)
(* platform, chosen once in Init.  The candidate at offset 0x0010          *)
(* (SPI_CLOCK_CTL) is also SPI_FDATA0, the first data register every      *)
(* transfer writes.  The controller may be busy with a cycle (SCIP) it    *)
(* finishes on its own; the bounded idle-wait loops are abstracted to     *)
(* their two exits: idle seen, or busy throughout.                        *)
(***************************************************************************)
EXTENDS Naturals

CONSTANTS
  Divs,   \* divider field values a register may hold
  Div8    \* SPI_CLOCK_DIV_8 >> 8, the test pattern and the value set

ASSUME ClockAssumption == Div8 \in Divs /\ 0 \in Divs /\ Divs \subseteq 0..7

(* The three candidate locations, by the code's offset names.            *)
Regs == {"HSFSTS_CTL", "HSFCTL", "CLOCK_CTL"}

NoReg == "none"

VARIABLES
  field,      \* divider field of each candidate register
  sticky,     \* the registers whose field keeps a written value
  scip,       \* a flash cycle is running
  saved,      \* mOriginalSpiClock
  pc,         \* where ShellAppMain and the clock routines are
  caller,     \* the routine that called ProbeSpiClockControl
  origScip,   \* SCIP in OriginalHsfstsCtl, read at the probe's entry
  orig,       \* the field values the probe read at its entry
  preg,       \* ClockRegOffset returned by the probe
  pfound,     \* the probe returned EFI_SUCCESS
  setReg,     \* the register SetSpiClockSpeed wrote, or NoReg
  setOrig,    \* that register's field before SetSpiClockSpeed
  setOk       \* SetSpiClockSpeed returned EFI_SUCCESS

vars == <<field, sticky, scip, saved, pc, caller, origScip, orig, preg,
          pfound, setReg, setOrig, setOk>>

Pcs == {"Start", "P0", "M1Wait", "M1Test", "M1Check", "M2", "M2Check",
        "M3", "M3Check", "SetRead", "SetWait", "SetWrite", "Transfers",
        "Restore", "RestoreWait", "RestoreWrite", "Done"}

TypeOK ==
  /\ field \in [Regs -> Divs]
  /\ sticky \subseteq Regs
  /\ scip \in BOOLEAN /\ origScip \in BOOLEAN
  /\ saved \in Divs
  /\ pc \in Pcs
  /\ caller \in {"Set", "Restore"}
  /\ orig \in [Regs -> Divs]
  /\ preg \in Regs /\ pfound \in BOOLEAN
  /\ setReg \in Regs \cup {NoReg} /\ setOrig \in Divs /\ setOk \in BOOLEAN

Init ==
  /\ field \in [Regs -> Divs]
  /\ sticky \in SUBSET Regs
  /\ scip \in BOOLEAN
  /\ saved = 0
  /\ pc = "Start"
  /\ caller = "Set"
  /\ origScip = FALSE
  /\ orig = field
  /\ preg = "CLOCK_CTL" /\ pfound = FALSE
  /\ setReg = NoReg /\ setOrig = 0 /\ setOk = FALSE

(* A write of v to the field of r: it sticks only where the platform has *)
(* a writable field there.                                               *)
Write(r, v) == [field EXCEPT ![r] = IF r \in sticky THEN v ELSE @]

(* The probe returns to its caller with its result.                       *)
Return(r, found) ==
  /\ preg' = r /\ pfound' = found
  /\ pc' = IF caller = "Set" THEN "SetRead" ELSE "RestoreWait"

-----------------------------------------------------------------------------
(* ProbeSpiClockControl.                                                   *)

(* Read OriginalHsfstsCtl and OriginalHsfctl.                             *)
P0 ==
  /\ pc = "P0"
  /\ origScip' = scip
  /\ orig' = field
  /\ pc' = "M1Wait"
  /\ UNCHANGED <<field, sticky, scip, saved, caller, preg, pfound,
                 setReg, setOrig, setOk>>

(* Method 1: wait for idle; after 1000 busy polls skip to Method 2.       *)
M1Wait ==
  /\ pc = "M1Wait"
  /\ pc' = IF scip THEN "M2" ELSE "M1Test"
  /\ UNCHANGED <<field, sticky, scip, saved, caller, origScip, orig, preg,
                 pfound, setReg, setOrig, setOk>>

(* Write DIV_8 into SPI_CLOCK_CTL's field.                                *)
M1Test ==
  /\ pc = "M1Test"
  /\ field' = Write("CLOCK_CTL", Div8)
  /\ pc' = "M1Check"
  /\ UNCHANGED <<sticky, scip, saved, caller, origScip, orig, preg, pfound,
                 setReg, setOrig, setOk>>

(* Mutant: the location is returned without writing the original value *)
(* back first.                                                            *)
M1CheckKeepsTest ==
  /\ pc = "M1Check"
  /\ IF field["CLOCK_CTL"] = Div8
       THEN Return("CLOCK_CTL", TRUE) /\ UNCHANGED field
       ELSE /\ field' = Write("CLOCK_CTL", orig["CLOCK_CTL"])
            /\ pc' = "M2" /\ UNCHANGED <<preg, pfound>>
  /\ UNCHANGED <<sticky, scip, saved, caller, origScip, orig,
                 setReg, setOrig, setOk>>

(* Read back, write the original value back, and return the location if *)
(* the field read DIV_8.                                                   *)
M1Check ==
  /\ pc = "M1Check"
  /\ field' = Write("CLOCK_CTL", orig["CLOCK_CTL"])
  /\ IF field["CLOCK_CTL"] = Div8
       THEN Return("CLOCK_CTL", TRUE)
       ELSE pc' = "M2" /\ UNCHANGED <<preg, pfound>>
  /\ UNCHANGED <<sticky, scip, saved, caller, origScip, orig,
                 setReg, setOrig, setOk>>

(* Method 2: only if the HSFSTS_CTL value read at entry showed idle.      *)
M2 ==
  /\ pc = "M2"
  /\ IF origScip
       THEN pc' = "M3" /\ UNCHANGED field
       ELSE pc' = "M2Check" /\ field' = Write("HSFSTS_CTL", Div8)
  /\ UNCHANGED <<sticky, scip, saved, caller, origScip, orig, preg, pfound,
                 setReg, setOrig, setOk>>

M2Check ==
  /\ pc = "M2Check"
  /\ field' = Write("HSFSTS_CTL", orig["HSFSTS_CTL"])
  /\ IF field["HSFSTS_CTL"] = Div8
       THEN Return("HSFSTS_CTL", TRUE)
       ELSE pc' = "M3" /\ UNCHANGED <<preg, pfound>>
  /\ UNCHANGED <<sticky, scip, saved, caller, origScip, orig,
                 setReg, setOrig, setOk>>

(* Method 3: write the test pattern into HSFCTL.                          *)
M3 ==
  /\ pc = "M3"
  /\ field' = Write("HSFCTL", Div8)
  /\ pc' = "M3Check"
  /\ UNCHANGED <<sticky, scip, saved, caller, origScip, orig, preg, pfound,
                 setReg, setOrig, setOk>>

(* Found in HSFCTL, or fall back to offset 0x0010 with EFI_NOT_FOUND.     *)
M3Check ==
  /\ pc = "M3Check"
  /\ field' = Write("HSFCTL", orig["HSFCTL"])
  /\ IF field["HSFCTL"] = Div8
       THEN Return("HSFCTL", TRUE)
       ELSE Return("CLOCK_CTL", FALSE)
  /\ UNCHANGED <<sticky, scip, saved, caller, origScip, orig,
                 setReg, setOrig, setOk>>

-----------------------------------------------------------------------------
(* SetSpiClockSpeed (SPI_CLOCK_DIV_RELIABLE), called by ShellAppMain once *)
(* the dump file is open.                                                  *)

SetCall ==
  /\ pc = "Start"
  /\ caller' = "Set" /\ pc' = "P0"
  /\ UNCHANGED <<field, sticky, scip, saved, origScip, orig, preg, pfound,
                 setReg, setOrig, setOk>>

(* Mutant: the whole register is saved, without `& ClockBitMask`.       *)
SetReadUnmasked ==
  /\ pc = "SetRead"
  /\ saved' = field[preg] * 256
  /\ pc' = "SetWait"
  /\ UNCHANGED <<field, sticky, scip, caller, origScip, orig, preg, pfound,
                 setReg, setOrig, setOk>>

(* Read the register the probe named and save its field in              *)
(* mOriginalSpiClock, before waiting for idle.                            *)
SetRead ==
  /\ pc = "SetRead"
  /\ saved' = field[preg]
  /\ pc' = "SetWait"
  /\ UNCHANGED <<field, sticky, scip, caller, origScip, orig, preg, pfound,
                 setReg, setOrig, setOk>>

(* Busy throughout the wait: EFI_DEVICE_ERROR, which ShellAppMain ignores.*)
SetWait ==
  /\ pc = "SetWait"
  /\ pc' = IF scip THEN "Transfers" ELSE "SetWrite"
  /\ UNCHANGED <<field, sticky, scip, saved, caller, origScip, orig, preg,
                 pfound, setReg, setOrig, setOk>>

(* Write DIV_8 and verify it by reading back.                             *)
SetWrite ==
  /\ pc = "SetWrite"
  /\ field' = Write(preg, Div8)
  /\ setReg' = preg /\ setOrig' = field[preg]
  /\ setOk' = (field'[preg] = Div8)
  /\ pc' = "Transfers"
  /\ UNCHANGED <<sticky, scip, saved, caller, origScip, orig, preg, pfound>>

-----------------------------------------------------------------------------
(* The firmware transfer between the two calls.  Each transaction waits   *)
(* for idle, writes FDATA0 (a write stages its data there, a read cycle   *)
(* loads flash data there) and may time out with its cycle still running. *)

Transfer ==
  /\ pc = "Transfers"
  /\ ~scip
  /\ \E v \in Divs : field' = [field EXCEPT !["CLOCK_CTL"] = v]
  /\ scip' \in BOOLEAN
  /\ UNCHANGED <<sticky, saved, pc, caller, origScip, orig, preg, pfound,
                 setReg, setOrig, setOk>>

(* Every exit of ShellAppMain after this point calls                      *)
(* RestoreSpiClockSpeed: success, a failed write, verify or seek.         *)
TransfersEnd ==
  /\ pc = "Transfers"
  /\ pc' = "Restore"
  /\ UNCHANGED <<field, sticky, scip, saved, caller, origScip, orig, preg,
                 pfound, setReg, setOrig, setOk>>

-----------------------------------------------------------------------------
(* RestoreSpiClockSpeed.                                                   *)

(* mOriginalSpiClock == 0 means "nothing to restore"; otherwise probe    *)
(* again for the register.                                                *)
RestoreCall ==
  /\ pc = "Restore"
  /\ IF saved = 0 THEN pc' = "Done" /\ UNCHANGED caller
                  ELSE pc' = "P0" /\ caller' = "Restore"
  /\ UNCHANGED <<field, sticky, scip, saved, origScip, orig, preg, pfound,
                 setReg, setOrig, setOk>>

(* Busy throughout the wait: EFI_DEVICE_ERROR, nothing restored.          *)
RestoreWait ==
  /\ pc = "RestoreWait"
  /\ pc' = IF scip THEN "Done" ELSE "RestoreWrite"
  /\ UNCHANGED <<field, sticky, scip, saved, caller, origScip, orig, preg,
                 pfound, setReg, setOrig, setOk>>

(* Write the saved field back and clear mOriginalSpiClock.               *)
RestoreWrite ==
  /\ pc = "RestoreWrite"
  /\ field' = Write(preg, saved)
  /\ saved' = 0
  /\ pc' = "Done"
  /\ UNCHANGED <<sticky, scip, caller, origScip, orig, preg, pfound,
                 setReg, setOrig, setOk>>

-----------------------------------------------------------------------------
(* Controller: a running cycle finishes.                                  *)
CycleEnds ==
  /\ scip
  /\ scip' = FALSE
  /\ UNCHANGED <<field, sticky, saved, pc, caller, origScip, orig, preg,
                 pfound, setReg, setOrig, setOk>>

ProbeStep == P0 \/ M1Wait \/ M1Test \/ M1Check \/ M2 \/ M2Check \/ M3 \/ M3Check

Next ==
  \/ SetCall \/ ProbeStep \/ SetRead \/ SetWait \/ SetWrite
  \/ Transfer \/ TransfersEnd
  \/ RestoreCall \/ RestoreWait \/ RestoreWrite
  \/ CycleEnds

Spec == Init /\ [][Next]_vars

-----------------------------------------------------------------------------
(* Properties.                                                             *)

(* ProbeSpiClockControl leaves every candidate register as it found it,  *)
(* on each of its exits: whichever method confirms a location, and when   *)
(* none does, each test write has been undone before the probe returns.   *)
ProbeRestores == pc \in {"SetRead", "RestoreWait"} => field = orig

(* The clock routines write a controller register only while no flash    *)
(* cycle runs (the idle-wait precondition the driver's contract states   *)
(* for every register-modifying operation).                               *)
ClockWriteStep ==
  M1Test \/ M1Check \/ (M2 /\ ~origScip) \/ M2Check \/ M3 \/ M3Check
  \/ SetWrite \/ RestoreWrite

NoClockWriteWhileBusy == [][ClockWriteStep => ~scip]_vars

(* When ShellAppMain returns, the register SetSpiClockSpeed changed holds *)
(* the divider it had before (the saved-and-restored clock setting).      *)
ClockRestoredOnExit ==
  pc = "Done" /\ setReg # NoReg => field[setReg] = setOrig

(* While the firmware is transferred after SetSpiClockSpeed reported      *)
(* success, the clock register keeps the reliable divider it set.         *)
ClockHeldDuringTransfers ==
  pc = "Transfers" /\ setOk => field[setReg] = Div8

=============================================================================
