--------------------------- MODULE SpiHwSeqProofs ---------------------------
(***************************************************************************)
(* Proofs about the SPI transaction driver of SpiHwSeq, for every value   *)
(* of the constants.                                                       *)
(***************************************************************************)
EXTENDS SpiHwSeq, TLAPS

USE ConstAssumption

-----------------------------------------------------------------------------
(* Every step keeps the variables within their types.                      *)
LEMMA TypeStep == TypeOK /\ [Next]_vars => TypeOK'
<1> USE DEF Kinds, Results, DriverPcs
<1> SUFFICES ASSUME TypeOK, [Next]_vars PROVE TypeOK'
  OBVIOUS
<1>1. CASE CallInvalid
  BY <1>1 DEF CallInvalid, TypeOK, Ops, hw
<1>2. CASE CallValid
  BY <1>2 DEF CallValid, TypeOK, Ops, hw
<1>3. CASE WaitReady
  BY <1>3 DEF WaitReady, ReadyIdle, ReadyBusy, ReadyExpired, TypeOK, hw
<1>4. CASE StartCycle
  BY <1>4 DEF StartCycle, DoneBudget, TypeOK, Ops
<1>5. CASE WaitDone
  BY <1>5 DEF WaitDone, DoneSeen, ErrorSeen, DonePoll, DoneExpired,
        TypeOK, hw
<1>6. CASE DrainData
  BY <1>6 DEF DrainData, TypeOK, hw
<1>7. CASE HwCycleDone
  BY <1>7 DEF HwCycleDone, TypeOK, drv
<1>8. CASE HwCycleError
  BY <1>8 DEF HwCycleError, TypeOK, drv
<1>9. CASE UNCHANGED vars
  BY <1>9 DEF vars, hw, drv, TypeOK
<1>10. QED
  BY <1>1, <1>2, <1>3, <1>4, <1>5, <1>6, <1>7, <1>8, <1>9
     DEF Next, DriverStep

THEOREM TypeCorrect == Spec => []TypeOK
<1>1. Init => TypeOK
  BY DEF Init, TypeOK, Ops, Kinds, Results, DriverPcs
<1>2. QED
  BY <1>1, TypeStep, PTL DEF Spec

-----------------------------------------------------------------------------
(* A cycle's transfer has happened: the controller's data register holds *)
(* what flash holds at its address (read), or flash holds the data (write). *)
CycleCompleted ==
  /\ cycle = "Read" => fdata = flash[faddr]
  /\ cycle = "Write" => flash[faddr] = fdata

(* Between the idle poll and FGO the controller stays idle and the value *)
(* read is the live FCERR and FDONE: nothing else starts a cycle.          *)
IdleInv ==
  /\ TypeOK
  /\ pc = "StartCycle" => ~scip /\ sts.fcerr = fcerr /\ sts.fdone = fdone

(* Every step keeps IdleInv.                                               *)
LEMMA IdleStep == IdleInv /\ [Next]_vars => IdleInv'
<1> USE DEF Kinds, Results, DriverPcs
<1> SUFFICES ASSUME IdleInv, [Next]_vars PROVE IdleInv'
  OBVIOUS
<1>1. TypeOK'
  BY TypeStep DEF IdleInv
<1>2. CASE CallInvalid \/ CallValid
  BY <1>1, <1>2 DEF IdleInv, CallInvalid, CallValid
<1>3. CASE WaitReady
  BY <1>1, <1>3 DEF IdleInv, WaitReady, ReadyIdle, ReadyBusy, ReadyExpired,
                    hw
<1>4. CASE StartCycle
  BY <1>1, <1>4 DEF IdleInv, StartCycle
<1>5. CASE WaitDone
  BY <1>1, <1>5 DEF IdleInv, WaitDone, DoneSeen, ErrorSeen, DonePoll,
                    DoneExpired
<1>6. CASE DrainData
  BY <1>1, <1>6 DEF IdleInv, DrainData
<1>7. CASE HwCycleDone \/ HwCycleError
  BY <1>1, <1>7 DEF IdleInv, HwCycleDone, HwCycleError, drv
<1>8. CASE UNCHANGED vars
  BY <1>1, <1>8 DEF IdleInv, vars, hw, drv
<1>9. QED
  BY <1>2, <1>3, <1>4, <1>5, <1>6, <1>7, <1>8 DEF Next, DriverStep

LEMMA IdleInvariant == Spec => []IdleInv
<1>1. Init => IdleInv
  BY DEF Init, IdleInv, TypeOK, Ops, Kinds, Results, DriverPcs
<1>2. QED
  BY <1>1, IdleStep, PTL DEF Spec

(* The driver never writes FGO while a cycle runs (NoCycleWhileBusy), for *)
(* every controller: WriteSpiChunk and ReadSpiChunk only program the      *)
(* controller after reading SCIP clear, and only they start cycles.       *)
THEOREM NoCycleWhileBusyHolds == Spec => NoCycleWhileBusy
<1>1. IdleInv => (pc = "StartCycle" => ~scip)
  BY DEF IdleInv
<1>2. [](pc = "StartCycle" => ~scip) => NoCycleWhileBusy
  BY PTL DEF NoCycleWhileBusy
<1>3. QED
  BY <1>1, <1>2, IdleInvariant, PTL

-----------------------------------------------------------------------------
(* The inductive strengthening of SuccessAfterFreshGo.  It tracks the    *)
(* call through its steps: once FGO is written the controller's cycle     *)
(* registers hold the call's own cycle; and if FGO found FDONE clear       *)
(* (FreshGo), a running cycle has FDONE and FCERR clear and FDONE seen     *)
(* means the cycle's transfer has happened.  Of a call whose FGO found    *)
(* FDONE stale it says nothing: that call may return while its cycle runs. *)
(* The call's arguments are valid once it passes the check, and the     *)
(* cycle FGO started is the call's own.                                   *)
CallShape ==
  /\ pc # "Idle" => op.size \in 1..TxMax
  /\ pc \in {"WaitDone", "DrainData"} =>
        /\ cycle = op.kind /\ faddr = op.addr
        /\ op.kind = "Write" => fdata = op.data
  /\ pc = "DrainData" => op.kind = "Read"

(* After a fresh FGO, FDONE and FCERR stay clear while the cycle runs, and *)
(* FDONE set means the transfer has happened.                              *)
FreshCycle ==
  FreshGo =>
     /\ pc = "WaitDone" /\ scip => ~fdone /\ ~fcerr
     /\ pc = "WaitDone" /\ fdone => ~scip /\ CycleCompleted
     /\ pc = "DrainData" => ~scip /\ CycleCompleted

FInv == IdleInv /\ CallShape /\ FreshCycle /\ SuccessAfterFreshGo

(* Every step keeps FInv, whether or not writing FGO clears FDONE.        *)
LEMMA FInvStep == FInv /\ [Next]_vars => FInv'
<1> USE DEF Kinds, Results, DriverPcs
<1> SUFFICES ASSUME FInv, [Next]_vars PROVE FInv'
  OBVIOUS
<1>1. IdleInv'
  BY IdleStep DEF FInv
<1>2. TypeOK /\ IdleInv /\ CallShape /\ FreshCycle /\ SuccessAfterFreshGo
  BY DEF FInv, IdleInv
<1>3. CASE CallInvalid \/ CallValid
  BY <1>1, <1>2, <1>3 DEF FInv, CallInvalid, CallValid, SuccessAfterFreshGo,
                          FreshGo, CallShape, FreshCycle
<1>4. CASE WaitReady
  BY <1>1, <1>2, <1>4 DEF FInv, WaitReady, ReadyIdle, ReadyBusy, ReadyExpired,
                          SuccessAfterFreshGo, FreshGo, CallShape, FreshCycle
<1>5. CASE StartCycle
  <2>1. CallShape'
    BY <1>2, <1>5 DEF StartCycle, CallShape
  <2>2. FreshCycle'
    BY <1>2, <1>5 DEF IdleInv, StartCycle, FreshCycle, FreshGo, TypeOK
  <2>3. SuccessAfterFreshGo'
    BY <1>5 DEF StartCycle, SuccessAfterFreshGo
  <2>4. QED
    BY <1>1, <2>1, <2>2, <2>3 DEF FInv
<1>6. CASE WaitDone
  <2>1. /\ pc = "WaitDone" /\ UNCHANGED <<hw, op, sts, rdata>>
        /\ FreshGo' = FreshGo /\ CycleCompleted' = CycleCompleted
    BY <1>6 DEF WaitDone, FreshGo, CycleCompleted, hw
  <2>2. CASE DoneSeen /\ op.kind = "Read"
    <3>1. pc' = "DrainData" /\ ret' = ret
      BY <2>2 DEF DoneSeen
    <3>2. CallShape'
      BY <1>2, <2>1, <3>1, <2>2 DEF CallShape, hw
    <3>3. FreshCycle'
      BY <1>2, <2>1, <3>1, <2>2 DEF FreshCycle, DoneSeen, hw
    <3>4. SuccessAfterFreshGo'
      BY <3>1 DEF SuccessAfterFreshGo
    <3>5. QED
      BY <1>1, <3>2, <3>3, <3>4 DEF FInv
  <2>3. CASE DoneSeen /\ op.kind = "Write"
    <3>1. pc' = "Idle" /\ ret' = "Success" /\ fdone
      BY <2>3 DEF DoneSeen
    <3>2. CallShape' /\ FreshCycle'
      BY <3>1 DEF CallShape, FreshCycle
    <3>3. FreshGo => ~scip /\ flash[op.addr] = op.data
      BY <1>2, <2>1, <2>3, <3>1 DEF FreshCycle, CallShape, CycleCompleted
    <3>4. SuccessAfterFreshGo'
      BY <2>1, <2>3, <3>3 DEF SuccessAfterFreshGo, hw
    <3>5. QED
      BY <1>1, <3>2, <3>4 DEF FInv
  <2>4. CASE ErrorSeen \/ DoneExpired
    <3>1. pc' = "Idle" /\ ret' # "Success"
      BY <2>4 DEF ErrorSeen, DoneExpired
    <3>2. QED
      BY <1>1, <3>1 DEF FInv, CallShape, FreshCycle, SuccessAfterFreshGo
  <2>5. CASE DonePoll
    <3>1. pc' = "WaitDone" /\ ~fdone
      BY <2>1, <2>5 DEF DonePoll
    <3>2. CallShape'
      BY <1>2, <2>1, <3>1 DEF CallShape, hw
    <3>3. FreshCycle'
      BY <1>2, <2>1, <3>1 DEF FreshCycle, hw
    <3>4. QED
      BY <1>1, <3>1, <3>2, <3>3 DEF FInv, SuccessAfterFreshGo
  <2>6. QED
    BY <1>2, <1>6, <2>2, <2>3, <2>4, <2>5 DEF WaitDone, TypeOK, Ops
<1>7. CASE DrainData
  <2>1. CallShape' /\ FreshCycle'
    BY <1>7 DEF DrainData, CallShape, FreshCycle
  <2>2. SuccessAfterFreshGo'
    BY <1>2, <1>7 DEF DrainData, CallShape, FreshCycle, SuccessAfterFreshGo,
                      FreshGo, CycleCompleted, hw
  <2>3. QED
    BY <1>1, <2>1, <2>2 DEF FInv
<1>8. CASE HwCycleDone
  <2>1. CallShape'
    BY <1>2, <1>8 DEF HwCycleDone, CallShape, drv
  <2>2. FreshGo' = FreshGo
    BY <1>8 DEF HwCycleDone, FreshGo, drv
  <2>3. CycleCompleted'
    BY <1>2, <1>8 DEF HwCycleDone, CycleCompleted, TypeOK
  <2>4. FreshCycle'
    BY <1>2, <1>8, <2>2, <2>3 DEF HwCycleDone, FreshCycle, drv
  <2>5. SuccessAfterFreshGo'
    BY <1>2, <1>8, <2>2 DEF HwCycleDone, SuccessAfterFreshGo, drv
  <2>6. QED
    BY <1>1, <2>1, <2>4, <2>5 DEF FInv
<1>9. CASE HwCycleError
  <2>1. CallShape'
    BY <1>2, <1>9 DEF HwCycleError, CallShape, drv
  <2>2. FreshGo' = FreshGo /\ CycleCompleted' = CycleCompleted
    BY <1>9 DEF HwCycleError, FreshGo, CycleCompleted, drv
  <2>3. FreshCycle'
    BY <1>2, <1>9, <2>2 DEF HwCycleError, FreshCycle, drv
  <2>4. SuccessAfterFreshGo'
    BY <1>2, <1>9, <2>2 DEF HwCycleError, SuccessAfterFreshGo, drv
  <2>5. QED
    BY <1>1, <2>1, <2>3, <2>4 DEF FInv
<1>10. CASE UNCHANGED vars
  BY <1>1, <1>2, <1>10 DEF FInv, vars, hw, drv, SuccessAfterFreshGo, FreshGo,
                           CycleCompleted, CallShape, FreshCycle
<1>11. QED
  BY <1>3, <1>4, <1>5, <1>6, <1>7, <1>8, <1>9, <1>10 DEF Next, DriverStep

(* A call that returns Success after an FGO write that found FDONE clear   *)
(* (or the error bit set, or a controller that clears FDONE on FGO) has    *)
(* really done its transfer and left the controller idle                  *)
(* (SuccessAfterFreshGo), for every controller and every bound: what     *)
(* WriteSpiChunk and ReadSpiChunk return is only as good as the FDONE     *)
(* they poll.                                                             *)
THEOREM SuccessAfterFreshGoHolds == Spec => []SuccessAfterFreshGo
<1>1. Init => FInv
  BY DEF Init, FInv, IdleInv, TypeOK, Ops, Kinds, Results, DriverPcs,
         SuccessAfterFreshGo, CallShape, FreshCycle
<1>2. FInv => SuccessAfterFreshGo
  BY DEF FInv
<1>3. QED
  BY <1>1, <1>2, FInvStep, PTL DEF Spec

=============================================================================
