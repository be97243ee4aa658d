-------------------------- MODULE DsmilUnlockProofs --------------------------
(***************************************************************************)
(* Proofs about the dsmil-unlock command for every value of the           *)
(* constants: the type invariant, and that every completed full unlock    *)
(* leaves the marker in MSR 0x1B0 and has run exactly its mode's tiers.   *)
(***************************************************************************)
EXTENDS DsmilUnlock, TLAPS

(* The position of each tier in DsmilFullUnlock's sequence.               *)
Tiers == BasicTiers \cup AggressiveTiers

Idx(t) ==
  CASE t = "clearance"   -> 1  [] t = "coordinate" -> 2
    [] t = "device255"   -> 3  [] t = "hap"        -> 4
    [] t = "vsec"        -> 5  [] t = "host-bridge" -> 6
    [] t = "microcode"   -> 7  [] t = "i2c"        -> 8
    [] t = "additional"  -> 9  [] t = "marker"     -> 10

(* The tiers before position p, and those a mode without Aggressive skips. *)
RanBefore(p) == {t \in Tiers : Idx(t) < p}
Skipped(a) == IF a THEN {} ELSE AggressiveTiers

(* The tiers a full unlock in mode m runs, as FullRunsItsTiers states it.  *)
ModeTiers(m) ==
  BasicTiers \cup (IF m \in {"aggressive", "complete"} THEN AggressiveTiers ELSE {})

(* Inside DsmilFullUnlock the command is "full", Aggressive was computed   *)
(* from the mode, and the tiers run are those before pc that the mode     *)
(* does not skip; back at the prompt after "full", the marker is in place *)
(* and the mode's tiers have run.  MarkerAtFullEnd and FullRunsItsTiers   *)
(* alone say nothing of the states inside the sequence, whose tiers decide *)
(* what holds at its end.                                                  *)
FullInv ==
  /\ pc # Shell => /\ last = "full"
                   /\ aggr = IsAggressive(fmode)
                   /\ ran = RanBefore(pc) \ Skipped(aggr)
  /\ pc = Shell /\ last = "full" => /\ msr[MSR_COORD_1B0] = "Marker"
                                    /\ ran = ModeTiers(fmode)

IInv == TypeOK /\ FullInv

USE DsmilAssumption

-----------------------------------------------------------------------------
(* FullTiers lists each tier once, at its position.                        *)
LEMMA TierAtIdx ==
  ASSUME NEW p \in 1 .. Len(FullTiers)
  PROVE  /\ FullTiers[p] \in Tiers
         /\ Idx(FullTiers[p]) = p
BY DEF FullTiers, Tiers, Idx, BasicTiers, AggressiveTiers

(* The tiers before p + 1 are those before p and the tier at p.            *)
LEMMA RanStep ==
  ASSUME NEW p \in 1 .. Len(FullTiers)
  PROVE  RanBefore(p + 1) = RanBefore(p) \cup {FullTiers[p]}
<1>1. \A t \in Tiers : Idx(t) \in 1 .. 10
  BY DEF Tiers, Idx, BasicTiers, AggressiveTiers
<1>2. Len(FullTiers) = 10
  BY DEF FullTiers
<1>3. \A t \in Tiers : Idx(t) = p => t = FullTiers[p]
  BY <1>2 DEF Tiers, Idx, BasicTiers, AggressiveTiers, FullTiers
<1>. QED  BY <1>1, <1>2, <1>3, TierAtIdx DEF RanBefore

(* Once the marker has run every tier has.                                 *)
LEMMA RanAll == RanBefore(Len(FullTiers) + 1) = Tiers
BY DEF RanBefore, Tiers, Idx, BasicTiers, AggressiveTiers, FullTiers

(* A tier changes the MSRs and the HAP bit only within their types.        *)
LEMMA RunTierType ==
  ASSUME TypeOK, NEW t \in Tiers, RunTier(t)
  PROVE  msr' \in [CoordMsrs -> MsrVals] /\ hap' \in BOOLEAN
<1>. DEFINE Unch == msr' = msr /\ hap' = hap
<1>1. CASE t \in {"clearance", "device255", "vsec", "host-bridge",
                  "microcode", "i2c", "additional"}
  <2>1. Unch
    BY <1>1 DEF RunTier, SetClearance, Device255Unlock, VsecUnlock,
                HostBridgeUnlock, StageMicrocode, I2CUnlock,
                AdditionalHardwareUnlock
  <2>. QED  BY <2>1 DEF TypeOK
<1>2. CASE t = "coordinate"
  BY <1>2 DEF RunTier, CoordinateMsrs, TypeOK, MsrVals
<1>3. CASE t = "hap"
  BY <1>3 DEF RunTier, ActivateHap, TypeOK
<1>4. CASE t = "marker"
  BY <1>4 DEF RunTier, WriteMarker, TypeOK, MsrVals, CoordMsrs, MSR_COORD_1B0
<1>. QED  BY <1>1, <1>2, <1>3, <1>4 DEF Tiers, BasicTiers, AggressiveTiers

-----------------------------------------------------------------------------
(* The initial state: the prompt, with no command run yet.                 *)
LEMMA InitIInv == Init => IInv
BY DEF Init, IInv, TypeOK, FullInv, MsrVals, Shell, FullTiers

(* A shell command keeps IInv: every sub-command but "full" returns to    *)
(* the prompt with last naming it, and "full" enters the sequence at its  *)
(* first tier with Aggressive computed from the mode and nothing run.     *)
LEMMA CommandIInv == IInv /\ Command => IInv'
<1> SUFFICES ASSUME IInv, Command PROVE IInv'
  OBVIOUS
<1>0. TypeOK /\ pc = Shell
  BY DEF IInv, Command
<1>1. PICK argc \in 1 .. 4, sub \in Subs, a \in MsrArgs, mode \in FullModes :
        Handle(argc, sub, a, mode)
  BY DEF Command
<1>. DEFINE mode2 == IF argc >= 3 THEN mode ELSE "safe"
            addr  == a % 2^MsrAddrBits
<1>2. CASE argc < 2
  <2>1. last' = "none" /\ UNCHANGED <<msr, hap, pc, fmode, aggr, ran>>
    BY <1>1, <1>2 DEF Handle
  <2>. QED  BY <1>0, <2>1 DEF IInv, TypeOK, FullInv
<1>6. CASE argc >= 2 /\ (sub \in {"msr-read", "unknown"}
                          \/ (sub = "msr-write" /\ argc < 4))
  <2>1. last' = sub /\ UNCHANGED <<msr, hap, pc, fmode, aggr, ran>>
    BY <1>1, <1>6 DEF Handle
  <2>. QED  BY <1>0, <1>6, <2>1 DEF IInv, TypeOK, FullInv, Subs
<1>3. CASE argc >= 2 /\ sub = "msr-write" /\ argc >= 4
  <2>1. /\ msr' = IF addr \in CoordMsrs
                    THEN [msr EXCEPT ![addr] = "User"] ELSE msr
        /\ ran' = {} /\ UNCHANGED <<hap, pc, fmode, aggr>>
        /\ last' = "msr-write"
    BY <1>1, <1>3 DEF Handle
  <2>. QED  BY <1>0, <2>1 DEF IInv, TypeOK, FullInv, Subs, MsrVals
<1>4. CASE argc >= 2 /\ sub = "full"
  <2>1. /\ pc' = 1 /\ fmode' = mode2 /\ aggr' = IsAggressive(mode2)
        /\ ran' = {} /\ UNCHANGED <<msr, hap>>
        /\ last' = "full"
    BY <1>1, <1>4 DEF Handle
  <2>2. RanBefore(1) = {}
    BY DEF RanBefore, Tiers, Idx, BasicTiers, AggressiveTiers
  <2>. QED  BY <1>0, <2>1, <2>2 DEF IInv, TypeOK, FullInv, Subs, Shell,
                                    FullTiers, IsAggressive
<1>5. CASE argc >= 2 /\ sub \notin {"msr-read", "unknown", "msr-write", "full"}
  <2>1. sub \in Tiers
    BY <1>5 DEF Subs, Tiers, BasicTiers, AggressiveTiers
  <2>2. /\ RunTier(sub) /\ ran' = {sub}
        /\ UNCHANGED <<pc, fmode, aggr>>
        /\ last' = sub
    BY <1>1, <1>5 DEF Handle
  <2>3. msr' \in [CoordMsrs -> MsrVals] /\ hap' \in BOOLEAN
    BY <1>0, <2>1, <2>2, RunTierType
  <2>. QED  BY <1>0, <1>5, <2>1, <2>2, <2>3 DEF IInv, TypeOK, FullInv, Subs, Tiers
<1>. QED  BY <1>2, <1>3, <1>4, <1>5, <1>6

(* A tier of DsmilFullUnlock keeps IInv: the tier at pc joins the tiers   *)
(* run unless the mode skips it, and after the last one, the marker, the  *)
(* command is back at the prompt with every tier of its mode run.          *)
LEMMA FullStepIInv == IInv /\ FullStep => IInv'
<1> SUFFICES ASSUME IInv, FullStep PROVE IInv'
  OBVIOUS
<1>. DEFINE t == FullTiers[pc]
<1>0. /\ TypeOK /\ pc \in 1 .. Len(FullTiers)
      /\ last = "full" /\ aggr = IsAggressive(fmode)
      /\ ran = RanBefore(pc) \ Skipped(aggr)
  BY DEF IInv, FullInv, FullStep, Shell
<1>1. t \in Tiers /\ Idx(t) = pc
  BY <1>0, TierAtIdx
<1>2. RanBefore(pc + 1) = RanBefore(pc) \cup {t}
  BY <1>0, RanStep
<1>3. /\ UNCHANGED <<fmode, aggr, last>>
      /\ pc' = IF pc = Len(FullTiers) THEN Shell ELSE pc + 1
  BY DEF FullStep
<1>4. /\ ran' = RanBefore(pc + 1) \ Skipped(aggr)
      /\ msr' \in [CoordMsrs -> MsrVals] /\ hap' \in BOOLEAN
  <2>1. CASE t \in AggressiveTiers /\ ~aggr
    <3>1. UNCHANGED <<msr, hap, ran>>
      BY <2>1 DEF FullStep
    <3>. QED  BY <1>0, <1>2, <2>1, <3>1 DEF Skipped, TypeOK
  <2>3. CASE ~(t \in AggressiveTiers /\ ~aggr)
    <3>1. RunTier(t) /\ ran' = ran \cup {t}
      BY <2>3 DEF FullStep
    <3>2. t \notin Skipped(aggr)
      BY <2>3 DEF Skipped
    <3>3. msr' \in [CoordMsrs -> MsrVals] /\ hap' \in BOOLEAN
      BY <1>0, <1>1, <3>1, RunTierType
    <3>. QED  BY <1>0, <1>2, <3>1, <3>2, <3>3
  <2>. QED  BY <2>1, <2>3
<1>5. ran' \subseteq Tiers
  BY <1>4, <1>0 DEF RanBefore
<1>6. CASE pc # Len(FullTiers)
  <2>1. pc' = pc + 1 /\ pc' \in 1 .. Len(FullTiers) /\ pc' # Shell
    BY <1>0, <1>3, <1>6 DEF Shell
  <2>. QED  BY <1>0, <1>3, <1>4, <1>5, <2>1
            DEF IInv, TypeOK, FullInv, Tiers
<1>7. CASE pc = Len(FullTiers)
  <2>1. pc' = Shell
    BY <1>3, <1>7
  <2>2. t = "marker" /\ t \notin AggressiveTiers
    BY <1>7 DEF FullTiers, AggressiveTiers
  <2>3. msr'[MSR_COORD_1B0] = "Marker"
    <3>1. RunTier(t)
      BY <2>2 DEF FullStep
    <3>2. WriteMarker
      BY <2>2, <3>1 DEF RunTier
    <3>. QED  BY <1>0, <3>2 DEF WriteMarker, TypeOK, CoordMsrs, MSR_COORD_1B0
  <2>4. ran' = ModeTiers(fmode)
    <3>1. ran' = Tiers \ Skipped(aggr)
      BY <1>4, <1>7, RanAll
    <3>. QED  BY <1>0, <3>1 DEF Tiers, Skipped, ModeTiers, IsAggressive,
                                BasicTiers, AggressiveTiers
  <2>. QED  BY <1>0, <1>3, <1>4, <1>5, <2>1, <2>3, <2>4
            DEF IInv, TypeOK, FullInv, Tiers, Shell
<1>. QED  BY <1>6, <1>7

-----------------------------------------------------------------------------
(* IInv holds in every state of every shell session.                       *)
THEOREM IInvHolds == Spec => []IInv
<1>1. Init => IInv
  BY InitIInv
<1>2. IInv /\ [Next]_vars => IInv'
  <2>1. IInv /\ UNCHANGED vars => IInv'
    BY DEF IInv, TypeOK, FullInv, vars
  <2>. QED  BY <2>1, CommandIInv, FullStepIInv DEF Next
<1>. QED  BY <1>1, <1>2, PTL DEF Spec

(* The handler and DsmilFullUnlock keep every variable within its type.    *)
THEOREM DsmilTypeCorrect == Spec => []TypeOK
BY IInvHolds, PTL DEF IInv

(* Whenever DsmilFullUnlock has returned to the prompt, MSR 0x1B0 holds    *)
(* the completion marker, although DsmilCoordinateMsrs wrote all ones to  *)
(* it earlier in the same sequence.                                        *)
THEOREM MarkerAtFullEndHolds == Spec => []MarkerAtFullEnd
<1>1. IInv => MarkerAtFullEnd
  BY DEF IInv, FullInv, MarkerAtFullEnd
<1>. QED  BY <1>1, IInvHolds, PTL

(* A completed full unlock has run every basic tier and the marker, and   *)
(* the microcode, I2C and additional tiers exactly in the modes           *)
(* "aggressive" and "complete".                                            *)
THEOREM FullRunsItsTiersHolds == Spec => []FullRunsItsTiers
<1>1. IInv => FullRunsItsTiers
  BY DEF IInv, FullInv, FullRunsItsTiers, ModeTiers
<1>. QED  BY <1>1, IInvHolds, PTL

-----------------------------------------------------------------------------
(* A step that takes the marker out of MSR 0x1B0, as a formula of the     *)
(* step.                                                                   *)
Erase ==
  msr[MSR_COORD_1B0] = "Marker" /\ msr'[MSR_COORD_1B0] # "Marker"
    => last' \in {"coordinate", "full", "msr-write"}

(* Only the coordinate tier touches MSR 0x1B0 among the tiers a command   *)
(* can name.                                                               *)
LEMMA RunTierKeepsMsrs ==
  ASSUME NEW t \in Tiers \ {"coordinate", "marker"}, RunTier(t)
  PROVE  msr' = msr
BY DEF Tiers, BasicTiers, AggressiveTiers, RunTier, ActivateHap,
       SetClearance, Device255Unlock, VsecUnlock, HostBridgeUnlock,
       StageMicrocode, I2CUnlock, AdditionalHardwareUnlock

(* Every step of a session satisfies Erase: inside DsmilFullUnlock the    *)
(* command is "full", and a shell command other than coordinate, full and *)
(* msr-write writes no coordination MSR.                                   *)
LEMMA StepErase == IInv /\ [Next]_vars => Erase
<1> SUFFICES ASSUME IInv, [Next]_vars PROVE Erase
  OBVIOUS
<1>1. CASE UNCHANGED vars
  BY <1>1 DEF Erase, vars
<1>2. CASE FullStep
  <2>1. last' = "full"
    BY <1>2 DEF FullStep, IInv, FullInv, Shell
  <2>. QED  BY <2>1 DEF Erase
<1>3. CASE Command
  <2>1. PICK argc \in 1 .. 4, sub \in Subs, a \in MsrArgs, mode \in FullModes :
          Handle(argc, sub, a, mode)
    BY <1>3 DEF Command
  <2>2. CASE argc < 2
    BY <2>1, <2>2 DEF Handle, Erase
  <2>3. CASE argc >= 2 /\ sub \in {"coordinate", "full", "msr-write"}
    BY <2>1, <2>3 DEF Handle, Erase
  <2>4. CASE argc >= 2 /\ sub \in {"msr-read", "unknown"}
    BY <2>1, <2>4 DEF Handle, Erase
  <2>5. CASE argc >= 2 /\ sub \notin {"coordinate", "full", "msr-write",
                                       "msr-read", "unknown"}
    <3>1. sub \in Tiers \ {"coordinate", "marker"}
      BY <2>5 DEF Subs, Tiers, BasicTiers, AggressiveTiers
    <3>2. RunTier(sub)
      BY <2>1, <2>5 DEF Handle
    <3>. QED  BY <3>1, <3>2, RunTierKeepsMsrs DEF Erase
  <2>. QED  BY <2>2, <2>3, <2>4, <2>5
<1>. QED  BY <1>1, <1>2, <1>3 DEF Next

(* Once a full unlock has written the marker, no step erases it except a  *)
(* coordinate command, a new full unlock, or an msr-write (whose UINT32   *)
(* cast also lands addresses above 4 GiB on 0x1B0).                       *)
THEOREM MarkerErasedOnlyByMsrWritersHolds == Spec => MarkerErasedOnlyByMsrWriters
<1>1. IInv /\ [Next]_vars => [Erase]_vars
  BY StepErase
<1>. QED  BY <1>1, IInvHolds, PTL DEF Spec, MarkerErasedOnlyByMsrWriters, Erase

====
