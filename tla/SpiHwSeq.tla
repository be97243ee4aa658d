------------------------------ MODULE SpiHwSeq ------------------------------
(***************************************************************************)
(* One hardware-sequencing SPI flash transaction, as driven by             *)
(* WriteSpiChunk and ReadSpiChunk (MeRestoreApp.c), interleaved with the   *)
(* flash controller that runs the cycle.                                   *)
(*                                                                         *)
(* The driver is a sequence of MMIO steps: poll HSFSTS_CTL until SCIP is   *)
(* clear (bounded), clear a stale FCERR, program FADDR and FDATA, write    *)
(* the cycle with FGO, poll for FDONE or FCERR (bounded), and for a read   *)
(* drain FDATA.  The controller runs the cycle concurrently: it completes  *)
(* it (FDONE) or fails it (FCERR) at any moment, or never, so every poll   *)
(* loop can time out while the cycle is still running.                     *)
(*                                                                         *)
(* FDONE and FCERR are write-1-to-clear status bits: the driver's own      *)
(* "clear any previous errors" write relies on that.  Whether writing FGO  *)
(* also clears FDONE is a property of the controller the code does not     *)
(* establish; it is the constant GoClearsDone.                             *)
(***************************************************************************)
EXTENDS Naturals

CONSTANTS
  Addr,          \* flash addresses a transaction may target
  Val,           \* contents of one transaction's data (FDATA0..FDATA3)
  TxMax,         \* the per-transaction byte limit (16)
  IdlePolls,     \* polls of SCIP before giving up (1000)
  DonePolls,     \* polls of FDONE/FCERR before giving up (10000)
  GoClearsDone   \* does writing FGO clear a stale FDONE?

ASSUME ConstAssumption ==
  /\ Addr # {} /\ Val # {}
  /\ TxMax \in Nat \ {0}
  /\ IdlePolls \in Nat \ {0}
  /\ DonePolls \in Nat \ {0}
  /\ GoClearsDone \in BOOLEAN

Kinds == {"Read", "Write"}

Results == {"None", "Pending", "Success", "InvalidParameter", "DeviceError", "Timeout"}

DriverPcs == {"Idle", "WaitReady", "StartCycle", "WaitDone", "DrainData"}

VARIABLES
  \* controller state (HSFSTS_CTL bits, FADDR, FDATA, the flash itself)
  scip, fdone, fcerr, cycle, faddr, fdata, flash,
  \* driver state: program counter, the call's arguments, the remaining
  \* polls of the current loop, the last HSFSTS_CTL value read while
  \* waiting for idle, the call's result and the caller's read buffer
  pc, op, timer, sts, ret, rdata

hw == <<scip, fdone, fcerr, cycle, faddr, fdata, flash>>
drv == <<pc, op, timer, sts, ret, rdata>>
vars == <<hw, drv>>

Ops == [kind : Kinds, addr : Addr, data : Val, size : 0..TxMax + 1]

TypeOK ==
  /\ scip \in BOOLEAN /\ fdone \in BOOLEAN /\ fcerr \in BOOLEAN
  /\ cycle \in Kinds /\ faddr \in Addr /\ fdata \in Val
  /\ flash \in [Addr -> Val]
  /\ pc \in DriverPcs
  /\ op \in Ops
  /\ timer \in 0..(IF IdlePolls > DonePolls THEN IdlePolls ELSE DonePolls)
  /\ sts \in [fcerr : BOOLEAN, fdone : BOOLEAN]
  /\ ret \in Results
  /\ rdata \in Val

(* The controller may be in any state when the application starts: a     *)
(* cycle started by firmware may still run and status bits may be stale.  *)
Init ==
  /\ scip \in BOOLEAN /\ fdone \in BOOLEAN /\ fcerr \in BOOLEAN
  /\ cycle \in Kinds /\ faddr \in Addr /\ fdata \in Val
  /\ flash \in [Addr -> Val]
  /\ pc = "Idle"
  /\ op \in Ops
  /\ timer = 0
  /\ sts \in [fcerr : BOOLEAN, fdone : BOOLEAN]
  /\ ret = "None"
  /\ rdata \in Val

-----------------------------------------------------------------------------
(* Driver.                                                                 *)

(* Entry of WriteSpiChunk / ReadSpiChunk with a size of 0 or above 16:    *)
(* EFI_INVALID_PARAMETER before any register access.                      *)
CallInvalid ==
  /\ pc = "Idle"
  /\ \E o \in Ops :
       /\ o.size \notin 1..TxMax
       /\ op' = o
  /\ ret' = "InvalidParameter"
  /\ UNCHANGED <<hw, pc, timer, sts, rdata>>

(* Mutant: the `DataSize > 16` half of the check is missing.             *)
CallValidNoUpperBound ==
  /\ pc = "Idle"
  /\ \E o \in Ops :
       /\ o.size \in 1..TxMax + 1
       /\ op' = o
  /\ pc' = "WaitReady"
  /\ timer' = IdlePolls
  /\ ret' = "Pending"
  /\ UNCHANGED <<hw, sts, rdata>>

(* Entry with a valid size: start the wait-for-idle loop.                 *)
CallValid ==
  /\ pc = "Idle"
  /\ \E o \in Ops :
       /\ o.size \in 1..TxMax
       /\ op' = o
  /\ pc' = "WaitReady"
  /\ timer' = IdlePolls
  /\ ret' = "Pending"
  /\ UNCHANGED <<hw, sts, rdata>>

(* One iteration of the SCIP poll (the loop at the head of both          *)
(* functions): leave the loop on idle, keeping the value read, or poll    *)
(* again, or after IdlePolls busy reads return EFI_DEVICE_ERROR.          *)
ReadyIdle ==
  /\ ~scip
  /\ sts' = [fcerr |-> fcerr, fdone |-> fdone]
  /\ pc' = "StartCycle"
  /\ UNCHANGED <<timer, ret>>

ReadyBusy ==
  /\ scip
  /\ timer > 1
  /\ timer' = timer - 1
  /\ UNCHANGED <<pc, sts, ret>>

(* Mutant: the `if (Timeout == 0) return` is missing and a busy           *)
(* controller is programmed anyway.                                       *)
ReadyExpiredFallThrough ==
  /\ scip
  /\ timer = 1
  /\ timer' = 0
  /\ sts' = [fcerr |-> fcerr, fdone |-> fdone]
  /\ pc' = "StartCycle"
  /\ UNCHANGED ret

ReadyExpired ==
  /\ scip
  /\ timer = 1
  /\ timer' = 0
  /\ pc' = "Idle"
  /\ ret' = "DeviceError"
  /\ UNCHANGED sts

WaitReady ==
  /\ pc = "WaitReady"
  /\ ReadyIdle \/ ReadyBusy \/ ReadyExpired
  /\ UNCHANGED <<hw, op, rdata>>

(* Mutant: the completion poll is started one read too long.            *)
DonePollsOffByOne == DonePolls + 1

(* The number of completion polls (the `Timeout = 10000` of the loop).   *)
DoneBudget == DonePolls

(* Clear FCERR if the value read had it (writing that value back with     *)
(* FCERR set, which also clears FDONE if it was read set), program FADDR, *)
(* stage the data of a write in FDATA, and write the cycle with FGO.      *)
StartCycle ==
  /\ pc = "StartCycle"
  /\ fcerr' = (fcerr /\ ~sts.fcerr)
  /\ fdone' = (fdone /\ ~(sts.fcerr /\ sts.fdone) /\ ~GoClearsDone)
  /\ faddr' = op.addr
  /\ fdata' = IF op.kind = "Write" THEN op.data ELSE fdata
  /\ cycle' = op.kind
  /\ scip' = TRUE
  /\ timer' = DoneBudget
  /\ pc' = "WaitDone"
  /\ UNCHANGED <<flash, op, sts, ret, rdata>>

(* One iteration of the completion poll: FDONE ends the loop (a write     *)
(* returns, a read drains FDATA), FCERR returns EFI_DEVICE_ERROR, and     *)
(* DonePolls reads of neither return EFI_TIMEOUT.                         *)
DoneSeen ==
  /\ fdone
  /\ pc' = IF op.kind = "Read" THEN "DrainData" ELSE "Idle"
  /\ ret' = IF op.kind = "Read" THEN ret ELSE "Success"
  /\ UNCHANGED timer

ErrorSeen ==
  /\ ~fdone /\ fcerr
  /\ pc' = "Idle"
  /\ ret' = "DeviceError"
  /\ UNCHANGED timer

(* Mutant: the loop lost its `Timeout--` and spins for as long as the     *)
(* controller neither completes nor fails the cycle.                      *)
DonePollForever ==
  /\ ~fdone /\ ~fcerr
  /\ timer > 1
  /\ UNCHANGED <<pc, ret, timer>>

DonePoll ==
  /\ ~fdone /\ ~fcerr
  /\ timer > 1
  /\ timer' = timer - 1
  /\ UNCHANGED <<pc, ret>>

(* Mutant: the `if (Timeout == 0) return EFI_TIMEOUT` is missing and an   *)
(* exhausted poll falls through as if FDONE had been seen.                *)
DoneExpiredFallThrough ==
  /\ ~fdone /\ ~fcerr
  /\ timer = 1
  /\ timer' = 0
  /\ pc' = IF op.kind = "Read" THEN "DrainData" ELSE "Idle"
  /\ ret' = IF op.kind = "Read" THEN ret ELSE "Success"

DoneExpired ==
  /\ ~fdone /\ ~fcerr
  /\ timer = 1
  /\ timer' = 0
  /\ pc' = "Idle"
  /\ ret' = "Timeout"

WaitDone ==
  /\ pc = "WaitDone"
  /\ DoneSeen \/ ErrorSeen \/ DonePoll \/ DoneExpired
  /\ UNCHANGED <<hw, op, sts, rdata>>

(* A read copies FDATA into the caller's buffer and returns success.      *)
DrainData ==
  /\ pc = "DrainData"
  /\ rdata' = fdata
  /\ pc' = "Idle"
  /\ ret' = "Success"
  /\ UNCHANGED <<hw, op, timer, sts>>

-----------------------------------------------------------------------------
(* Controller.                                                             *)

(* The running cycle completes: a read loads FDATA from flash, a write    *)
(* programs FDATA into flash; SCIP clears and FDONE sets.                  *)
HwCycleDone ==
  /\ scip
  /\ scip' = FALSE
  /\ fdone' = TRUE
  /\ fdata' = IF cycle = "Read" THEN flash[faddr] ELSE fdata
  /\ flash' = IF cycle = "Write" THEN [flash EXCEPT ![faddr] = fdata]
                                 ELSE flash
  /\ UNCHANGED <<fcerr, cycle, faddr, drv>>

(* The running cycle fails (e.g. a protected region): SCIP clears, FCERR  *)
(* sets, nothing is transferred.                                          *)
HwCycleError ==
  /\ scip
  /\ scip' = FALSE
  /\ fcerr' = TRUE
  /\ UNCHANGED <<fdone, cycle, faddr, fdata, flash, drv>>

DriverStep == WaitReady \/ StartCycle \/ WaitDone \/ DrainData

Next ==
  \/ CallInvalid \/ CallValid \/ DriverStep
  \/ HwCycleDone \/ HwCycleError

Spec == Init /\ [][Next]_vars

(* The driver busy-polls and never blocks: each of its steps is taken     *)
(* while enabled.  The controller gets no fairness: a cycle may hang.     *)
FairSpec == Spec /\ WF_vars(DriverStep)

-----------------------------------------------------------------------------
(* Properties.                                                             *)

(* A transaction reported successful has really been carried out by the  *)
(* controller: its cycle is over, a read returned the flash contents at   *)
(* the address and a write put its data there (WriteSpiChunk/ReadSpiChunk *)
(* returning EFI_SUCCESS).                                                 *)
SuccessIsCompletion ==
  (pc = "Idle" /\ ret = "Success" /\ op.size \in 1..TxMax) =>
     /\ ~scip
     /\ op.kind = "Read" => rdata = flash[op.addr]
     /\ op.kind = "Write" => flash[op.addr] = op.data

(* The call's FGO write found FDONE clear: the HSFSTS_CTL value the idle  *)
(* poll read had FDONE clear, or had FCERR set too so that writing it back *)
(* cleared FDONE, or the controller clears FDONE on FGO.  The value read   *)
(* is the driver's own local, kept until the next call's idle poll.        *)
FreshGo == GoClearsDone \/ ~sts.fdone \/ sts.fcerr

(* Whatever the controller does with FDONE, a call reported successful    *)
(* whose FGO write found FDONE clear has been carried out: its cycle is   *)
(* over, a read returned the flash contents at the address and a write    *)
(* put its data there.  The calls it leaves out are exactly those of the  *)
(* stale FDONE the success path never clears (run spihwseq_staledone).    *)
SuccessAfterFreshGo ==
  (pc = "Idle" /\ ret = "Success" /\ op.size \in 1..TxMax /\ FreshGo) =>
     /\ ~scip
     /\ op.kind = "Read" => rdata = flash[op.addr]
     /\ op.kind = "Write" => flash[op.addr] = op.data

(* The driver writes FGO only when the controller is idle: a new cycle is *)
(* never started on top of a running one, including one left behind by a *)
(* call that timed out.                                                    *)
NoCycleWhileBusy == [][pc = "StartCycle" => ~scip]_vars

(* Every call returns, whatever the controller does: both poll loops are  *)
(* bounded.                                                                *)
TransactionReturns == (pc # "Idle") ~> (pc = "Idle")


(* The driver and controller together implement the transaction contract *)
(* SpiTxn that WriteMeFirmware and VerifyMeFirmware rely on: the call is *)
(* in progress while the driver is not idle, and its transfer has         *)
(* happened once the driver holds FDONE for its own cycle.                *)
Txn == INSTANCE SpiTxn
         WITH busy <- (pc # "Idle"),
              xfer <- (pc \in {"WaitDone", "DrainData"} /\ fdone)

TxnSpec == Txn!Spec

=============================================================================
