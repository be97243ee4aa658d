--------------------------- MODULE SpiClockProofs ---------------------------
(***************************************************************************)
(* Proofs about the SPI clock routines for every set of divider values:   *)
(* the type invariant, and that ProbeSpiClockControl returns with every   *)
(* candidate register as it found it.                                      *)
(***************************************************************************)
EXTENDS SpiClock, TLAPS

(* The field values after the test write of DIV_8 to r: changed only      *)
(* where the platform keeps the written value.                             *)
Tested(r) == [orig EXCEPT ![r] = IF r \in sticky THEN Div8 ELSE orig[r]]

(* Inside the probe, the registers hold the values read at its entry,     *)
(* except between a method's test write and its check, where the tested   *)
(* register holds what the test write left.  ProbeRestores alone is not   *)
(* inductive: it says nothing of the check steps, whose write-back is     *)
(* what restores the register.                                             *)
ProbeInv ==
  /\ pc \in {"M1Wait", "M1Test", "M2", "M3", "SetRead", "RestoreWait"}
       => field = orig
  /\ pc = "M1Check" => field = Tested("CLOCK_CTL")
  /\ pc = "M2Check" => field = Tested("HSFSTS_CTL")
  /\ pc = "M3Check" => field = Tested("HSFCTL")

IInv == TypeOK /\ ProbeInv

USE ClockAssumption

-----------------------------------------------------------------------------
(* A write of a divider value keeps the fields within their type.          *)
LEMMA WriteType ==
  ASSUME NEW f \in [Regs -> Divs], NEW r \in Regs, NEW v \in Divs,
         NEW S \in SUBSET Regs
  PROVE  [f EXCEPT ![r] = IF r \in S THEN v ELSE @] \in [Regs -> Divs]
OBVIOUS

(* Writing the original value back over the test write restores the       *)
(* register, whether or not the test write stuck.                          *)
LEMMA WriteBack ==
  ASSUME TypeOK, NEW r \in Regs, field = Tested(r)
  PROVE  Write(r, orig[r]) = orig
BY DEF TypeOK, Tested, Write

(* The probe hands its caller back a candidate register.                  *)
LEMMA ReturnType ==
  ASSUME NEW r \in Regs, NEW found \in BOOLEAN, Return(r, found)
  PROVE  preg' \in Regs /\ pfound' \in BOOLEAN
         /\ pc' \in {"SetRead", "RestoreWait"}
BY DEF Return

LEMMA InitIInv == Init => IInv
BY DEF Init, IInv, TypeOK, ProbeInv, Pcs, NoReg, Regs

(* Every step keeps IInv.  The probe's test writes and write-backs move   *)
(* between orig and Tested; the other routines run outside the probe and *)
(* change only what TypeOK constrains.                                     *)
LEMMA NextIInv == IInv /\ [Next]_vars => IInv'
<1> SUFFICES ASSUME IInv, [Next]_vars PROVE IInv'
  OBVIOUS
<1>0. TypeOK /\ ProbeInv
  BY DEF IInv
<1>1. CASE SetCall
  BY <1>0, <1>1 DEF SetCall, IInv, TypeOK, ProbeInv, Pcs
<1>2. CASE P0
  BY <1>0, <1>2 DEF P0, IInv, TypeOK, ProbeInv, Pcs
<1>3. CASE M1Wait
  BY <1>0, <1>3 DEF M1Wait, IInv, TypeOK, ProbeInv, Pcs
<1>4. CASE M1Test
  <2>1. field' = Tested("CLOCK_CTL") /\ pc' = "M1Check"
    BY <1>0, <1>4 DEF M1Test, Write, Tested, ProbeInv
  <2>2. field' \in [Regs -> Divs]
    BY <1>0, <1>4, WriteType DEF M1Test, Write, TypeOK, Regs
  <2>. QED  BY <1>0, <1>4, <2>1, <2>2 DEF M1Test, IInv, TypeOK, ProbeInv, Tested, Pcs
<1>5. CASE M1Check
  <2>1. field' = orig
    BY <1>0, <1>5, WriteBack DEF M1Check, ProbeInv, Regs
  <2>2. CASE field["CLOCK_CTL"] = Div8
    <3>1. Return("CLOCK_CTL", TRUE)
      BY <1>5, <2>2 DEF M1Check
    <3>. QED  BY <1>0, <1>5, <2>1, <3>1, ReturnType
              DEF M1Check, IInv, TypeOK, ProbeInv, Pcs, Regs
  <2>3. CASE field["CLOCK_CTL"] # Div8
    BY <1>0, <1>5, <2>1, <2>3 DEF M1Check, IInv, TypeOK, ProbeInv, Pcs
  <2>. QED  BY <2>2, <2>3
<1>6. CASE M2
  <2>1. CASE origScip
    BY <1>0, <1>6, <2>1 DEF M2, IInv, TypeOK, ProbeInv, Pcs
  <2>2. CASE ~origScip
    <3>1. field' = Tested("HSFSTS_CTL") /\ pc' = "M2Check"
      BY <1>0, <1>6, <2>2 DEF M2, Write, Tested, ProbeInv
    <3>2. field' \in [Regs -> Divs]
      BY <1>0, <1>6, <2>2, WriteType DEF M2, Write, TypeOK, Regs
    <3>. QED  BY <1>0, <1>6, <3>1, <3>2 DEF M2, IInv, TypeOK, ProbeInv, Tested, Pcs
  <2>. QED  BY <2>1, <2>2
<1>7. CASE M2Check
  <2>1. field' = orig
    BY <1>0, <1>7, WriteBack DEF M2Check, ProbeInv, Regs
  <2>2. CASE field["HSFSTS_CTL"] = Div8
    <3>1. Return("HSFSTS_CTL", TRUE)
      BY <1>7, <2>2 DEF M2Check
    <3>. QED  BY <1>0, <1>7, <2>1, <3>1, ReturnType
              DEF M2Check, IInv, TypeOK, ProbeInv, Pcs, Regs
  <2>3. CASE field["HSFSTS_CTL"] # Div8
    BY <1>0, <1>7, <2>1, <2>3 DEF M2Check, IInv, TypeOK, ProbeInv, Pcs
  <2>. QED  BY <2>2, <2>3
<1>8. CASE M3
  <2>1. field' = Tested("HSFCTL") /\ pc' = "M3Check"
    BY <1>0, <1>8 DEF M3, Write, Tested, ProbeInv
  <2>2. field' \in [Regs -> Divs]
    BY <1>0, <1>8, WriteType DEF M3, Write, TypeOK, Regs
  <2>. QED  BY <1>0, <1>8, <2>1, <2>2 DEF M3, IInv, TypeOK, ProbeInv, Tested, Pcs
<1>9. CASE M3Check
  <2>1. field' = orig
    BY <1>0, <1>9, WriteBack DEF M3Check, ProbeInv, Regs
  <2>2. \E r \in Regs : Return(r, field["HSFCTL"] = Div8)
    BY <1>9 DEF M3Check, Regs
  <2>3. preg' \in Regs /\ pfound' \in BOOLEAN
        /\ pc' \in {"SetRead", "RestoreWait"}
    BY <2>2, ReturnType
  <2>. QED  BY <1>0, <1>9, <2>1, <2>3 DEF M3Check, IInv, TypeOK, ProbeInv, Pcs
<1>10. CASE SetRead
  BY <1>0, <1>10 DEF SetRead, IInv, TypeOK, ProbeInv, Pcs
<1>11. CASE SetWait
  BY <1>0, <1>11 DEF SetWait, IInv, TypeOK, ProbeInv, Pcs
<1>12. CASE SetWrite
  <2>1. field' \in [Regs -> Divs]
    BY <1>0, <1>12, WriteType DEF SetWrite, Write, TypeOK
  <2>. QED  BY <1>0, <1>12, <2>1 DEF SetWrite, IInv, TypeOK, ProbeInv, Pcs
<1>13. CASE Transfer
  BY <1>0, <1>13 DEF Transfer, IInv, TypeOK, ProbeInv, Pcs, Regs
<1>14. CASE TransfersEnd
  BY <1>0, <1>14 DEF TransfersEnd, IInv, TypeOK, ProbeInv, Pcs
<1>15. CASE RestoreCall
  BY <1>0, <1>15 DEF RestoreCall, IInv, TypeOK, ProbeInv, Pcs
<1>16. CASE RestoreWait
  BY <1>0, <1>16 DEF RestoreWait, IInv, TypeOK, ProbeInv, Pcs
<1>17. CASE RestoreWrite
  <2>1. field' \in [Regs -> Divs]
    BY <1>0, <1>17, WriteType DEF RestoreWrite, Write, TypeOK
  <2>. QED  BY <1>0, <1>17, <2>1 DEF RestoreWrite, IInv, TypeOK, ProbeInv, Pcs
<1>18. CASE CycleEnds
  BY <1>0, <1>18 DEF CycleEnds, IInv, TypeOK, ProbeInv, Tested
<1>19. CASE UNCHANGED vars
  BY <1>0, <1>19 DEF vars, IInv, TypeOK, ProbeInv, Tested
<1>. QED  BY <1>1, <1>2, <1>3, <1>4, <1>5, <1>6, <1>7, <1>8, <1>9, <1>10,
             <1>11, <1>12, <1>13, <1>14, <1>15, <1>16, <1>17, <1>18, <1>19
          DEF Next, ProbeStep

-----------------------------------------------------------------------------
(* The clock routines keep every variable within its type.                 *)
THEOREM ClockTypeCorrect == Spec => []TypeOK
<1>1. IInv => TypeOK
  BY DEF IInv
<1>. QED  BY <1>1, InitIInv, NextIInv, PTL DEF Spec

(* Whenever ProbeSpiClockControl returns to SetSpiClockSpeed or to         *)
(* RestoreSpiClockSpeed, all three candidate registers hold the values it *)
(* read at its entry: each method writes back what its test write         *)
(* changed, on the path that confirms the location and on the path that  *)
(* moves on.                                                               *)
THEOREM ProbeRestoresHolds == Spec => []ProbeRestores
<1>1. IInv => ProbeRestores
  BY DEF IInv, ProbeInv, ProbeRestores
<1>. QED  BY <1>1, InitIInv, NextIInv, PTL DEF Spec

====
