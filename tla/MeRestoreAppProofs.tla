------------------------- MODULE MeRestoreAppProofs -------------------------
(***************************************************************************)
(* Proofs about VerifyMeRegion's decoding of FREG2 and about the          *)
(* restoration flow of ShellAppMain, for every value of the constants.    *)
(***************************************************************************)
EXTENDS MeRestoreApp, SequenceTheorems, TLAPS

-----------------------------------------------------------------------------
(* VerifyMeRegion accepts a FREG2 value exactly when its base field is    *)
(* 0x126 and its limit field 0xEC7; the other bits are ignored.            *)
THEOREM RegionFields ==
  \A f \in Nat :
    MeRegionMatches(f) <=> f % 32768 = 294 /\ (f \div 65536) % 32768 = 3783
BY DEF MeRegionMatches, FregBase, FregLimit, PageFloor, Page,
       ME_FIRMWARE_START, ME_FIRMWARE_END

(* The second operand of the limit test, Limit == ME_FIRMWARE_END, never  *)
(* holds: a decoded limit is page aligned and ME_FIRMWARE_END is not.      *)
THEOREM LimitNeverEnd ==
  \A f \in Nat : FregLimit(f) # ME_FIRMWARE_END
BY DEF FregLimit, Page, ME_FIRMWARE_END

(* A FREG2 that VerifyMeRegion accepts describes exactly the range the    *)
(* transfer engine writes: the region's last page ends at                 *)
(* ME_FIRMWARE_END, and its size is a whole number of ME_CHUNK_SIZE       *)
(* chunks.                                                                 *)
THEOREM AcceptedRegionIsMeRange ==
  \A f \in Nat :
    MeRegionMatches(f) =>
      /\ FregBase(f) = ME_FIRMWARE_START
      /\ FregLimit(f) + Page - 1 = ME_FIRMWARE_END
      /\ (FregLimit(f) + Page - FregBase(f)) = ME_FIRMWARE_SIZE
      /\ ME_FIRMWARE_SIZE % ME_CHUNK_SIZE = 0
BY DEF MeRegionMatches, FregBase, FregLimit, PageFloor, Page,
       ME_FIRMWARE_START, ME_FIRMWARE_END, ME_FIRMWARE_SIZE, ME_CHUNK_SIZE

-----------------------------------------------------------------------------
(* The blocks a pass transfers end at SpanEnd.                             *)
SpanEnd == MinOf(Region, Len(file))

(* Every block of the span up to k read back equal to the file.            *)
Seen(k) == \A b \in 1 .. k : b \in Span => flash[b] = file[b]

(* The inductive strengthening of AppSuccessMeansImage, TransferClipped   *)
(* and RestoreBound.  Inside a sub-chunk loop the chunk lies within the   *)
(* span; while verifying, a zero MismatchCount means every block read so  *)
(* far matched; a zero exit code past the loop means the whole span did.  *)
IInv ==
  /\ TypeOK
  /\ pc \in {"WSub", "VSub"} =>
        off < SpanEnd /\ csize = ChunkSize(off) /\ sub <= csize
  /\ pc = "VChunk" => mism <= MinOf(off, SpanEnd) /\ (mism = 0 => Seen(off))
  /\ pc = "VSub" => mism <= off + sub /\ (mism = 0 => Seen(off + sub))
  /\ pc = "Verdict" /\ mism = 0 => Seen(SpanEnd)
  /\ pc \in {"Cleanup", "Exit"} /\ code = 0 => Seen(SpanEnd)
  /\ pc \notin {"Cleanup", "Exit"} => restores <= MaxRestoreAttempts
  /\ TransferClipped

USE AppAssumption

(* The dump file is a sequence no longer than the region plus one block.  *)
LEMMA FileIsSeq ==
  ASSUME NEW f \in Files
  PROVE  f \in Seq(Bit) /\ Len(f) \in 0 .. Region + 1 /\ DOMAIN f = 1 .. Len(f)
<1>1. PICK n \in 0 .. Region + 1 : f \in [1 .. n -> Bit]
  BY DEF Files
<1>2. f \in Seq(Bit)
  BY <1>1, SeqDef
<1>3. DOMAIN f = 1 .. Len(f) /\ Len(f) \in Nat
  BY <1>2, LenProperties
<1>4. Len(f) = n
  BY <1>1, <1>3
<1>5. QED
  BY <1>1, <1>2, <1>3, <1>4

LEMMA InitIInv == Init => IInv
<1> SUFFICES ASSUME Init PROVE IInv
  OBVIOUS
<1>1. TypeOK
  <2>1. /\ off \in 0 .. Region + ChunkLen /\ sub \in 0 .. ChunkLen
        /\ csize \in 0 .. ChunkLen /\ mism \in 0 .. Region
        /\ restores \in 0 .. MaxRestoreAttempts + 1
    BY DEF Init
  <2>2. pc \in Pcs /\ code \in {0, 1} /\ clock \in {"Orig", "Set", "Restored"}
    BY DEF Init, Pcs
  <2>3. QED
    BY <2>1, <2>2 DEF Init, TypeOK
<1>2. TransferClipped
  BY DEF Init, TransferClipped
<1>3. QED
  BY <1>1, <1>2 DEF Init, IInv

(* TypeOK in three groups: control, data and counters.                     *)
CtlOK ==
  /\ pc \in Pcs /\ code \in {0, 1} /\ faults \in BOOLEAN
  /\ clock \in {"Orig", "Set", "Restored"} /\ fileOpen \in BOOLEAN
DataOK ==
  /\ flash \in [Blocks -> Bit] /\ flash0 \in [Blocks -> Bit]
  /\ file \in Files /\ platform \in Platforms /\ wp \in BOOLEAN
CountOK ==
  /\ off \in 0 .. Region + ChunkLen /\ sub \in 0 .. ChunkLen
  /\ csize \in 0 .. ChunkLen /\ mism \in 0 .. Region
  /\ restores \in 0 .. MaxRestoreAttempts + 1

LEMMA TypeSplit == TypeOK <=> CtlOK /\ DataOK /\ CountOK
BY DEF TypeOK, CtlOK, DataOK, CountOK

(* IInv without TypeOK and TransferClipped: what the loops keep.           *)
LoopInv ==
  /\ pc \in {"WSub", "VSub"} =>
        off < SpanEnd /\ csize = ChunkSize(off) /\ sub <= csize
  /\ pc = "VChunk" => mism <= MinOf(off, SpanEnd) /\ (mism = 0 => Seen(off))
  /\ pc = "VSub" => mism <= off + sub /\ (mism = 0 => Seen(off + sub))
  /\ pc = "Verdict" /\ mism = 0 => Seen(SpanEnd)
  /\ pc \in {"Cleanup", "Exit"} /\ code = 0 => Seen(SpanEnd)
  /\ pc \notin {"Cleanup", "Exit"} => restores <= MaxRestoreAttempts

LEMMA IInvSplit == IInv <=> TypeOK /\ LoopInv /\ TransferClipped
BY DEF IInv, LoopInv

(* Every step keeps IInv.                                                  *)
LEMMA IInvStep == IInv /\ [Next]_vars => IInv'
<1> USE DEF Bit, Blocks, Pcs, app, fixed
<1> SUFFICES ASSUME TypeOK, LoopInv, TransferClipped, [Next]_vars
             PROVE  CtlOK' /\ DataOK' /\ CountOK' /\ LoopInv' /\ TransferClipped'
  BY DEF IInv, LoopInv, TypeOK, CtlOK, DataOK, CountOK
<1>a. /\ file \in Seq(Bit) /\ Len(file) \in 0 .. Region + 1
      /\ DOMAIN file = 1 .. Len(file)
  BY FileIsSeq DEF TypeOK
<1>0. /\ file \in Seq(Bit) /\ Len(file) \in 0 .. Region + 1
      /\ DOMAIN file = 1 .. Len(file)
      /\ SpanEnd \in 0 .. Len(file) /\ SpanEnd <= Region
  BY <1>a DEF SpanEnd, MinOf
<1>1. CASE MapSpiController
  <2>1. CtlOK'
    BY <1>1 DEF TypeOK, CtlOK, MapSpiController, FailTo
  <2>2. DataOK'
    BY <1>1 DEF TypeOK, DataOK, MapSpiController, FailTo
  <2>3. CountOK'
    BY <1>0, <1>1 DEF TypeOK, LoopInv, CountOK, SpanEnd, MapSpiController, FailTo
  <2>4. LoopInv'
    BY <1>0, <1>1 DEF TypeOK, LoopInv, Seen, Span, SpanEnd, MapSpiController, FailTo
  <2>5. TransferClipped'
    BY <1>0, <1>1 DEF TypeOK, LoopInv, TransferClipped, Span, SpanEnd, MapSpiController, FailTo
  <2>6. QED
    BY <2>1, <2>2, <2>3, <2>4, <2>5
<1>2. CASE VerifyMeRegion
  <2>1. CtlOK'
    BY <1>2 DEF TypeOK, CtlOK, VerifyMeRegion, FailTo
  <2>2. DataOK'
    BY <1>2 DEF TypeOK, DataOK, VerifyMeRegion, FailTo
  <2>3. CountOK'
    BY <1>0, <1>2 DEF TypeOK, LoopInv, CountOK, SpanEnd, VerifyMeRegion, FailTo
  <2>4. LoopInv'
    BY <1>0, <1>2 DEF TypeOK, LoopInv, Seen, Span, SpanEnd, VerifyMeRegion, FailTo
  <2>5. TransferClipped'
    BY <1>0, <1>2 DEF TypeOK, LoopInv, TransferClipped, Span, SpanEnd, VerifyMeRegion, FailTo
  <2>6. QED
    BY <2>1, <2>2, <2>3, <2>4, <2>5
<1>3. CASE DisableWriteProtection
  <2>1. CtlOK'
    BY <1>3 DEF TypeOK, CtlOK, DisableWriteProtection
  <2>2. DataOK'
    BY <1>3 DEF TypeOK, DataOK, DisableWriteProtection
  <2>3. CountOK'
    BY <1>0, <1>3 DEF TypeOK, LoopInv, CountOK, SpanEnd, DisableWriteProtection
  <2>4. LoopInv'
    BY <1>0, <1>3 DEF TypeOK, LoopInv, Seen, Span, SpanEnd, DisableWriteProtection
  <2>5. TransferClipped'
    BY <1>0, <1>3 DEF TypeOK, LoopInv, TransferClipped, Span, SpanEnd, DisableWriteProtection
  <2>6. QED
    BY <2>1, <2>2, <2>3, <2>4, <2>5
<1>4. CASE OpenFile
  <2>1. CtlOK'
    BY <1>4 DEF TypeOK, CtlOK, OpenFile, FailTo
  <2>2. DataOK'
    BY <1>4 DEF TypeOK, DataOK, OpenFile, FailTo
  <2>3. CountOK'
    BY <1>0, <1>4 DEF TypeOK, LoopInv, CountOK, SpanEnd, OpenFile, FailTo
  <2>4. LoopInv'
    BY <1>0, <1>4 DEF TypeOK, LoopInv, Seen, Span, SpanEnd, OpenFile, FailTo
  <2>5. TransferClipped'
    BY <1>0, <1>4 DEF TypeOK, LoopInv, TransferClipped, Span, SpanEnd, OpenFile, FailTo
  <2>6. QED
    BY <2>1, <2>2, <2>3, <2>4, <2>5
<1>5. CASE SetSpiClockSpeed
  <2>1. CtlOK'
    BY <1>5 DEF TypeOK, CtlOK, SetSpiClockSpeed
  <2>2. DataOK'
    BY <1>5 DEF TypeOK, DataOK, SetSpiClockSpeed
  <2>3. CountOK'
    BY <1>0, <1>5 DEF TypeOK, LoopInv, CountOK, SpanEnd, SetSpiClockSpeed
  <2>4. LoopInv'
    BY <1>0, <1>5 DEF TypeOK, LoopInv, Seen, Span, SpanEnd, SetSpiClockSpeed
  <2>5. TransferClipped'
    BY <1>0, <1>5 DEF TypeOK, LoopInv, TransferClipped, Span, SpanEnd, SetSpiClockSpeed
  <2>6. QED
    BY <2>1, <2>2, <2>3, <2>4, <2>5
<1>6. CASE WriteStart
  <2>1. CtlOK'
    BY <1>6 DEF TypeOK, CtlOK, WriteStart, FailTo
  <2>2. DataOK'
    BY <1>6 DEF TypeOK, DataOK, WriteStart, FailTo
  <2>3. CountOK'
    BY <1>0, <1>6 DEF TypeOK, LoopInv, CountOK, SpanEnd, WriteStart, FailTo
  <2>4. LoopInv'
    BY <1>0, <1>6 DEF TypeOK, LoopInv, Seen, Span, SpanEnd, WriteStart, FailTo
  <2>5. TransferClipped'
    BY <1>0, <1>6 DEF TypeOK, LoopInv, TransferClipped, Span, SpanEnd, WriteStart, FailTo
  <2>6. QED
    BY <2>1, <2>2, <2>3, <2>4, <2>5
<1>7. CASE WriteChunk
  <2>0. /\ UNCHANGED <<flash, flash0, file, platform, wp, off, mism,
                       restores, clock, fileOpen>>
        /\ pc = "WChunk"
    BY <1>7 DEF WriteChunk
  <2>a. \/ /\ MoreChunks(off) /\ pc' = "WSub" /\ sub' = 0
           /\ csize' = ChunkSize(off) /\ code' = code
        \/ pc' = "Cleanup" /\ code' = 1 /\ UNCHANGED <<sub, csize>>
        \/ pc' \in {"VStart", "SeekAfter"} /\ UNCHANGED <<sub, csize, code>>
    BY <1>7 DEF WriteChunk, FailTo
  <2>b. MoreChunks(off) => off < SpanEnd /\ ChunkSize(off) \in 1 .. ChunkLen
    BY <1>0 DEF TypeOK, MoreChunks, SpanEnd, ChunkSize, MinOf
  <2>c. SpanEnd' = SpanEnd /\ ChunkSize(off)' = ChunkSize(off)
    BY <2>0 DEF SpanEnd, ChunkSize
  <2>1. CtlOK'
    BY <1>7 DEF TypeOK, CtlOK, WriteChunk, FailTo
  <2>2. DataOK'
    BY <2>0 DEF TypeOK, DataOK
  <2>3. CountOK'
    BY <2>0, <2>a, <2>b DEF TypeOK, CountOK
  <2>4. LoopInv'
    BY <2>0, <2>a, <2>b, <2>c DEF LoopInv
  <2>5. TransferClipped'
    BY <2>0, <2>c DEF TransferClipped, Span, SpanEnd
  <2>6. QED
    BY <2>1, <2>2, <2>3, <2>4, <2>5
<1>8. CASE WriteSub
  <2> DEFINE b == off + sub + 1
  <2>0. /\ UNCHANGED <<flash0, file, platform, wp, csize, mism, restores,
                       clock, fileOpen>>
        /\ pc = "WSub"
    BY <1>8 DEF WriteSub
  <2>1. sub < csize => b \in Span /\ b \in DOMAIN file /\ b \in Blocks
    <3>1. sub < csize => b \in 1 .. SpanEnd
      <4>1. ChunkSize(off) <= SpanEnd - off
        BY <1>0 DEF TypeOK, ChunkSize, SpanEnd, MinOf
      <4>2. off < SpanEnd /\ csize = ChunkSize(off) /\ sub <= csize
        BY <2>0 DEF LoopInv
      <4>3. QED
        BY <4>1, <4>2, <1>0 DEF TypeOK, SpanEnd, MinOf
    <3>2. SpanEnd \in 0 .. Len(file) /\ SpanEnd <= Region
      BY <1>0 DEF SpanEnd, MinOf
    <3>3. QED
      BY <1>0, <3>1, <3>2 DEF Span, SpanEnd
  <2>2. sub < csize => ProgramResults(flash[b], file[b]) \subseteq Bit
    BY <1>0, <2>1 DEF TypeOK, ProgramResults, Programmed
  <2>3. \/ /\ sub < csize /\ pc' = pc /\ code' = code /\ off' = off
           /\ sub' = sub + 1
           /\ \E v \in ProgramResults(flash[b], file[b]) :
                flash' = [flash EXCEPT ![b] = v]
        \/ /\ sub < csize /\ pc' = "Cleanup" /\ code' = 1 /\ off' = off
           /\ sub' = sub
           /\ \E v \in Bit : flash' = [flash EXCEPT ![b] = v]
        \/ /\ sub >= csize /\ pc' = "WChunk" /\ off' = off + ChunkLen
           /\ UNCHANGED <<flash, sub, code>>
    BY <1>8, <2>0, <2>2, <2>1 DEF WriteSub, FailTo, TypeOK
  <2>4. /\ SpanEnd' = SpanEnd /\ Span' = Span
        /\ off' = off => ChunkSize(off)' = ChunkSize(off)
    BY <2>0 DEF SpanEnd, ChunkSize, Span
  <2>5. CtlOK'
    BY <1>8 DEF TypeOK, CtlOK, WriteSub, FailTo
  <2>6. DataOK'
    BY <2>0, <2>1, <2>2, <2>3 DEF TypeOK, DataOK
  <2>7. CountOK'
    BY <1>0, <2>0, <2>3 DEF TypeOK, LoopInv, CountOK, SpanEnd, MinOf
  <2>8. LoopInv'
    <3>0. off < SpanEnd /\ csize = ChunkSize(off) /\ sub <= csize
      BY <2>0 DEF LoopInv
    <3>1. (pc = "WSub" => off < SpanEnd /\ csize = ChunkSize(off) /\ sub <= csize)'
      BY <3>0, <2>0, <2>3, <2>4 DEF TypeOK
    <3>2. restores' <= MaxRestoreAttempts
      BY <2>0 DEF LoopInv
    <3>3. pc' \in {"WSub", "Cleanup", "WChunk"} /\ (pc' = "Cleanup" => code' = 1)
      BY <2>0, <2>3
    <3>4. QED
      BY <3>1, <3>2, <3>3 DEF LoopInv
  <2>9. TransferClipped'
    BY <2>0, <2>1, <2>3, <2>4 DEF TypeOK, TransferClipped
  <2>10. QED
    BY <2>5, <2>6, <2>7, <2>8, <2>9
<1>9. CASE VerifyStart
  <2>1. CtlOK'
    BY <1>9 DEF TypeOK, CtlOK, VerifyStart, FailTo
  <2>2. DataOK'
    BY <1>9 DEF TypeOK, DataOK, VerifyStart, FailTo
  <2>3. CountOK'
    BY <1>0, <1>9 DEF TypeOK, LoopInv, CountOK, SpanEnd, VerifyStart, FailTo
  <2>4. LoopInv'
    BY <1>0, <1>9 DEF TypeOK, LoopInv, Seen, Span, SpanEnd, VerifyStart, FailTo, ChunkSize, MinOf
  <2>5. TransferClipped'
    BY <1>0, <1>9 DEF TypeOK, LoopInv, TransferClipped, Span, SpanEnd, VerifyStart, FailTo
  <2>6. QED
    BY <2>1, <2>2, <2>3, <2>4, <2>5
<1>10. CASE VerifyChunk
  <2>0. /\ UNCHANGED <<flash, flash0, file, platform, wp, off, mism,
                       restores, clock, fileOpen>>
        /\ pc = "VChunk"
    BY <1>10 DEF VerifyChunk
  <2>a. \/ /\ MoreChunks(off) /\ pc' = "VSub" /\ sub' = 0
           /\ csize' = ChunkSize(off) /\ code' = code
        \/ pc' = "Cleanup" /\ code' = 1 /\ UNCHANGED <<sub, csize>>
        \/ ~MoreChunks(off) /\ pc' = "Verdict" /\ UNCHANGED <<sub, csize, code>>
    BY <1>10 DEF VerifyChunk, FailTo
  <2>b. MoreChunks(off) => off < SpanEnd /\ ChunkSize(off) \in 1 .. ChunkLen
    BY <1>0 DEF TypeOK, MoreChunks, SpanEnd, ChunkSize, MinOf
  <2>c. ~MoreChunks(off) => SpanEnd <= off
    BY <1>0 DEF TypeOK, MoreChunks, SpanEnd, MinOf
  <2>d. /\ SpanEnd' = SpanEnd /\ ChunkSize(off)' = ChunkSize(off)
        /\ Seen(off)' = Seen(off) /\ Seen(SpanEnd)' = Seen(SpanEnd)
    BY <2>0 DEF SpanEnd, ChunkSize, Seen, Span
  <2>e. mism <= MinOf(off, SpanEnd) /\ (mism = 0 => Seen(off))
    BY <2>0 DEF LoopInv
  <2>f. SpanEnd <= off => (Seen(off) => Seen(SpanEnd))
    BY <1>0 DEF TypeOK, Seen, SpanEnd, MinOf
  <2>1. CtlOK'
    BY <1>10 DEF TypeOK, CtlOK, VerifyChunk, FailTo
  <2>2. DataOK'
    BY <2>0 DEF TypeOK, DataOK
  <2>3. CountOK'
    BY <2>0, <2>a, <2>b DEF TypeOK, CountOK
  <2>4. LoopInv'
    <3>1. (pc = "VSub" => off < SpanEnd /\ csize = ChunkSize(off) /\ sub <= csize)'
      BY <2>0, <2>a, <2>b, <2>d
    <3>2. (pc = "VSub" => mism <= off + sub /\ (mism = 0 => Seen(off + sub)))'
      <4>1. pc' = "VSub" => sub' = 0 /\ mism' <= off'
        BY <2>0, <2>a, <2>e, <1>0 DEF TypeOK, MinOf
      <4>2. pc' = "VSub" => (mism' = 0 => Seen(off + sub)')
        BY <2>0, <2>a, <2>e, <1>0 DEF TypeOK, Seen, Span, SpanEnd
      <4>3. QED
        BY <4>1, <4>2, <2>0, <1>0 DEF TypeOK
    <3>3. (pc = "Verdict" /\ mism = 0 => Seen(SpanEnd))'
      BY <2>0, <2>a, <2>c, <2>d, <2>e, <2>f
    <3>4. restores' <= MaxRestoreAttempts
      BY <2>0 DEF LoopInv
    <3>5. pc' \in {"VSub", "Cleanup", "Verdict"} /\ (pc' = "Cleanup" => code' = 1)
      BY <2>a
    <3>6. QED
      BY <3>1, <3>2, <3>3, <3>4, <3>5 DEF LoopInv
  <2>5. TransferClipped'
    BY <2>0, <2>d DEF TransferClipped, Span, SpanEnd
  <2>6. QED
    BY <2>1, <2>2, <2>3, <2>4, <2>5
<1>11. CASE VerifySub
  <2> DEFINE b == off + sub + 1
  <2>0. /\ UNCHANGED <<flash, flash0, file, platform, wp, csize, restores,
                       clock, fileOpen>>
        /\ pc = "VSub"
    BY <1>11 DEF VerifySub
  <2>1. /\ off < SpanEnd /\ csize = ChunkSize(off) /\ sub <= csize
        /\ mism <= off + sub /\ (mism = 0 => Seen(off + sub))
    BY <2>0 DEF LoopInv
  <2>2. /\ ChunkSize(off) <= SpanEnd - off
        /\ ChunkSize(off) = ChunkLen \/ off + ChunkSize(off) = SpanEnd
    <3>1. ChunkSize(off) <= SpanEnd - off
      BY <1>0 DEF TypeOK, ChunkSize, SpanEnd, MinOf
    <3>2. ChunkSize(off) = ChunkLen \/ off + ChunkSize(off) = SpanEnd
      <4> DEFINE L == Len(file)
      <4>1. L \in Nat /\ off \in Nat
        BY <1>0 DEF TypeOK
      <4>2. SpanEnd = IF Region < L THEN Region ELSE L
        BY DEF SpanEnd, MinOf
      <4>3. ChunkSize(off) =
              IF (IF ChunkLen < Region - off THEN ChunkLen ELSE Region - off)
                   < L - off
                THEN IF ChunkLen < Region - off THEN ChunkLen ELSE Region - off
                ELSE L - off
        BY DEF ChunkSize, MinOf
      <4>4. QED
        BY <4>1, <4>2, <4>3
    <3>3. QED
      BY <3>1, <3>2
  <2>3. \/ /\ sub < csize /\ pc' = pc /\ code' = code /\ off' = off
           /\ sub' = sub + 1
           /\ mism' = mism + (IF flash[b] = file[b] THEN 0 ELSE 1)
        \/ /\ sub < csize /\ pc' = "Cleanup" /\ code' = 1 /\ off' = off
           /\ UNCHANGED <<sub, mism>>
        \/ /\ sub >= csize /\ pc' = "VChunk" /\ off' = off + ChunkLen
           /\ UNCHANGED <<sub, mism, code>>
    BY <1>11 DEF VerifySub, FailTo
  <2>4. /\ SpanEnd' = SpanEnd /\ Span' = Span
        /\ off' = off => ChunkSize(off)' = ChunkSize(off)
        /\ \A k \in Nat : Seen(k)' = Seen(k)
    BY <2>0 DEF SpanEnd, ChunkSize, Span, Seen
  <2>5. CtlOK'
    BY <1>11 DEF TypeOK, CtlOK, VerifySub, FailTo
  <2>6. DataOK'
    BY <2>0 DEF TypeOK, DataOK
  <2>7. CountOK'
    <3>1. /\ off + ChunkLen <= Region + ChunkLen
          /\ sub < csize => sub + 1 <= ChunkLen /\ mism + 1 <= Region
      BY <1>0, <2>1, <2>2 DEF TypeOK, CountOK
    <3>2. CASE sub < csize /\ pc' = pc
      BY <3>1, <3>2, <2>0, <2>3 DEF TypeOK, CountOK
    <3>3. CASE sub < csize /\ pc' = "Cleanup"
      BY <3>3, <2>0, <2>3 DEF TypeOK, CountOK
    <3>4. CASE sub >= csize
      BY <3>1, <3>4, <2>0, <2>3 DEF TypeOK, CountOK
    <3>5. QED
      BY <3>2, <3>3, <3>4, <2>3
  <2>8. LoopInv'
    <3>1. (pc = "VSub" => off < SpanEnd /\ csize = ChunkSize(off) /\ sub <= csize)'
      BY <2>0, <2>1, <2>3, <2>4 DEF TypeOK
    <3>2. (pc = "VSub" => mism <= off + sub)'
      BY <2>0, <2>1, <2>3 DEF TypeOK
    <3>3. (pc = "VSub" => (mism = 0 => Seen(off + sub)))'
      <4>1. sub < csize /\ mism = 0 /\ flash[b] = file[b] => Seen(off + sub + 1)
        BY <2>1, <1>0 DEF TypeOK, Seen
      <4>2. QED
        BY <4>1, <2>0, <2>1, <2>3, <2>4 DEF TypeOK
    <3>4. (pc = "VChunk" => mism <= MinOf(off, SpanEnd))'
      BY <1>0, <2>0, <2>1, <2>2, <2>3, <2>4 DEF TypeOK, MinOf
    <3>5. (pc = "VChunk" => (mism = 0 => Seen(off)))'
      <4>1. sub >= csize => (Seen(off + sub) => Seen(off + ChunkLen))
        BY <1>0, <2>1, <2>2 DEF TypeOK, Seen, Span, SpanEnd
      <4>2. QED
        BY <4>1, <2>0, <2>1, <2>3, <2>4 DEF TypeOK
    <3>6. restores' <= MaxRestoreAttempts
      BY <2>0 DEF LoopInv
    <3>7. pc' \in {"VSub", "Cleanup", "VChunk"} /\ (pc' = "Cleanup" => code' = 1)
      BY <2>0, <2>3
    <3>8. QED
      BY <3>1, <3>2, <3>3, <3>4, <3>5, <3>6, <3>7 DEF LoopInv
  <2>9. TransferClipped'
    BY <2>0, <2>4 DEF TransferClipped
  <2>10. QED
    BY <2>5, <2>6, <2>7, <2>8, <2>9
<1>12. CASE Verdict
  <2>1. CtlOK'
    BY <1>12 DEF TypeOK, CtlOK, Verdict
  <2>2. DataOK'
    BY <1>12 DEF TypeOK, DataOK, Verdict
  <2>3. CountOK'
    BY <1>0, <1>12 DEF TypeOK, LoopInv, CountOK, SpanEnd, Verdict
  <2>4. LoopInv'
    BY <1>0, <1>12 DEF TypeOK, LoopInv, Seen, Span, SpanEnd, Verdict
  <2>5. TransferClipped'
    BY <1>0, <1>12 DEF TypeOK, LoopInv, TransferClipped, Span, SpanEnd, Verdict
  <2>6. QED
    BY <2>1, <2>2, <2>3, <2>4, <2>5
<1>13. CASE SeekBefore
  <2>1. CtlOK'
    BY <1>13 DEF TypeOK, CtlOK, SeekBefore, FailTo
  <2>2. DataOK'
    BY <1>13 DEF TypeOK, DataOK, SeekBefore, FailTo
  <2>3. CountOK'
    BY <1>0, <1>13 DEF TypeOK, LoopInv, CountOK, SpanEnd, SeekBefore, FailTo
  <2>4. LoopInv'
    BY <1>0, <1>13 DEF TypeOK, LoopInv, Seen, Span, SpanEnd, SeekBefore, FailTo
  <2>5. TransferClipped'
    BY <1>0, <1>13 DEF TypeOK, LoopInv, TransferClipped, Span, SpanEnd, SeekBefore, FailTo
  <2>6. QED
    BY <2>1, <2>2, <2>3, <2>4, <2>5
<1>14. CASE SeekAfter
  <2>1. CtlOK'
    BY <1>14 DEF TypeOK, CtlOK, SeekAfter, FailTo
  <2>2. DataOK'
    BY <1>14 DEF TypeOK, DataOK, SeekAfter, FailTo
  <2>3. CountOK'
    BY <1>0, <1>14 DEF TypeOK, LoopInv, CountOK, SpanEnd, SeekAfter, FailTo
  <2>4. LoopInv'
    BY <1>0, <1>14 DEF TypeOK, LoopInv, Seen, Span, SpanEnd, SeekAfter, FailTo
  <2>5. TransferClipped'
    BY <1>0, <1>14 DEF TypeOK, LoopInv, TransferClipped, Span, SpanEnd, SeekAfter, FailTo
  <2>6. QED
    BY <2>1, <2>2, <2>3, <2>4, <2>5
<1>15. CASE Cleanup
  <2>1. CtlOK'
    BY <1>15 DEF TypeOK, CtlOK, Cleanup
  <2>2. DataOK'
    BY <1>15 DEF TypeOK, DataOK, Cleanup
  <2>3. CountOK'
    BY <1>0, <1>15 DEF TypeOK, LoopInv, CountOK, SpanEnd, Cleanup
  <2>4. LoopInv'
    BY <1>0, <1>15 DEF TypeOK, LoopInv, Seen, Span, SpanEnd, Cleanup
  <2>5. TransferClipped'
    BY <1>0, <1>15 DEF TypeOK, LoopInv, TransferClipped, Span, SpanEnd, Cleanup
  <2>6. QED
    BY <2>1, <2>2, <2>3, <2>4, <2>5
<1>16. CASE Done
  <2>0. UNCHANGED <<flash, flash0, file, platform, wp, pc, off, sub, csize,
                    mism, restores, code, clock, fileOpen, faults>>
    BY <1>16 DEF Done, vars
  <2>1. /\ SpanEnd' = SpanEnd /\ ChunkSize(off)' = ChunkSize(off)
        /\ \A k \in Nat : Seen(k)' = Seen(k)
    BY <2>0 DEF SpanEnd, ChunkSize, Seen, Span
  <2>2. CtlOK' /\ DataOK' /\ CountOK'
    BY <2>0 DEF TypeOK, CtlOK, DataOK, CountOK
  <2>3. LoopInv'
    BY <1>0, <2>0, <2>1 DEF LoopInv, TypeOK
  <2>4. TransferClipped'
    BY <2>0 DEF TransferClipped, Span
  <2>5. QED
    BY <2>2, <2>3, <2>4
<1>17. CASE UNCHANGED vars
  <2>0. UNCHANGED <<flash, flash0, file, platform, wp, pc, off, sub, csize,
                    mism, restores, code, clock, fileOpen, faults>>
    BY <1>17 DEF vars
  <2>1. /\ SpanEnd' = SpanEnd /\ ChunkSize(off)' = ChunkSize(off)
        /\ \A k \in Nat : Seen(k)' = Seen(k)
    BY <2>0 DEF SpanEnd, ChunkSize, Seen, Span
  <2>2. CtlOK' /\ DataOK' /\ CountOK'
    BY <2>0 DEF TypeOK, CtlOK, DataOK, CountOK
  <2>3. LoopInv'
    BY <1>0, <2>0, <2>1 DEF LoopInv, TypeOK
  <2>4. TransferClipped'
    BY <2>0 DEF TransferClipped, Span
  <2>5. QED
    BY <2>2, <2>3, <2>4
<1>18. QED
  BY <1>1, <1>2, <1>3, <1>4, <1>5, <1>6, <1>7, <1>8, <1>9, <1>10, <1>11, <1>12, <1>13, <1>14, <1>15, <1>16, <1>17 DEF Next, AppStep


LEMMA IInvariant == Spec => []IInv
BY InitIInv, IInvStep, PTL DEF Spec

(* The variables of ShellAppMain's flow keep their types.                  *)
THEOREM AppTypeCorrect == Spec => []TypeOK
<1>1. IInv => TypeOK
  BY DEF IInv
<1>2. QED
  BY <1>1, IInvariant, PTL

(* ShellAppMain returns 0 only when the flash holds the dump file over    *)
(* the whole span WriteMeFirmware transferred (AppSuccessMeansImage), for *)
(* every region, chunk length, restore limit and platform: the verify    *)
(* pass that ended with MismatchCount = 0 compared every block of the     *)
(* span, and nothing writes flash after it.  The model's chunk reads are   *)
(* SpiTxn's atomic transfers, so this is the flow's correctness on a      *)
(* controller whose FGO write clears FDONE; with a stale FDONE the reads   *)
(* lag one cycle behind and the theorem says nothing.                      *)
THEOREM AppSuccessMeansImageHolds == Spec => []AppSuccessMeansImage
<1>1. IInv => AppSuccessMeansImage
  BY DEF IInv, AppSuccessMeansImage, Seen, Span, SpanEnd
<1>2. QED
  BY <1>1, IInvariant, PTL

(* WriteMeFirmware never writes outside the span (TransferClipped): the   *)
(* block after the ME region and the blocks past the end of a short file  *)
(* keep their contents, for every region and chunk length.                *)
THEOREM TransferClippedHolds == Spec => []TransferClipped
<1>1. IInv => TransferClipped
  BY DEF IInv
<1>2. QED
  BY <1>1, IInvariant, PTL

(* The do-while loop of ShellAppMain runs at most MaxRestoreAttempts      *)
(* restore passes (RestoreBound), for every MaxRestoreAttempts.            *)
THEOREM RestoreBoundHolds == Spec => []RestoreBound
<1>1. IInv => RestoreBound
  BY DEF IInv, TypeOK, RestoreBound
<1>2. QED
  BY <1>1, IInvariant, PTL

-----------------------------------------------------------------------------
(* Before the dump file is opened it is not open; ShellAppMain returns    *)
(* either from there or through Cleanup.                                   *)
(* ExitCleansUp alone is not inductive: it says nothing of the early      *)
(* steps, whose error returns reach Exit without Cleanup.                  *)
CleanInv ==
  /\ pc \in {"Map", "Region", "Protect", "Open"} => ~fileOpen
  /\ pc = "Exit" => ~fileOpen

LEMMA CleanInvStep == CleanInv /\ [Next]_vars => CleanInv'
<1> SUFFICES ASSUME CleanInv, [Next]_vars PROVE CleanInv'
  OBVIOUS
<1>1. CASE MapSpiController \/ VerifyMeRegion \/ DisableWriteProtection
  BY <1>1 DEF MapSpiController, VerifyMeRegion, DisableWriteProtection,
              FailTo, CleanInv
<1>2. CASE OpenFile
  BY <1>2 DEF OpenFile, FailTo, CleanInv
<1>3. CASE SetSpiClockSpeed \/ WriteStart \/ WriteChunk \/ WriteSub
  BY <1>3 DEF SetSpiClockSpeed, WriteStart, WriteChunk, WriteSub, FailTo,
              CleanInv
<1>4. CASE VerifyStart \/ VerifyChunk \/ VerifySub
  BY <1>4 DEF VerifyStart, VerifyChunk, VerifySub, FailTo, CleanInv
<1>5. CASE Verdict \/ SeekBefore \/ SeekAfter
  BY <1>5 DEF Verdict, SeekBefore, SeekAfter, FailTo, CleanInv
<1>6. CASE Cleanup
  BY <1>6 DEF Cleanup, CleanInv
<1>7. CASE Done \/ UNCHANGED vars
  BY <1>7 DEF Done, vars, CleanInv
<1>. QED  BY <1>1, <1>2, <1>3, <1>4, <1>5, <1>6, <1>7 DEF Next, AppStep

(* Every return of ShellAppMain leaves the dump file closed (ExitCleansUp): *)
(* the error returns after ShellOpenFileByName and the success return all *)
(* go through ShellCloseFile, and the earlier ones happen before the file *)
(* was opened.                                                             *)
THEOREM ExitCleansUpHolds == Spec => []ExitCleansUp
<1>1. Init => CleanInv
  BY DEF Init, CleanInv
<1>2. CleanInv => ExitCleansUp
  BY DEF CleanInv, ExitCleansUp
<1>. QED  BY <1>1, <1>2, CleanInvStep, PTL DEF Spec

=============================================================================
