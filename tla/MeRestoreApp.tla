---------------------------- MODULE MeRestoreApp ----------------------------
(***************************************************************************)
(* The restoration flow of ShellAppMain in MeRestoreApp.c: discovery,    *)
(* write protection, the write pass of WriteMeFirmware, the read-back     *)
(* pass of VerifyMeFirmware and the verify/restore do-while loop, with    *)
(* RestoreSpiClockSpeed and ShellCloseFile on every exit after the clock   *)
(* was set.                                                                *)
(*                                                                         *)
(* Data is abstracted to blocks: a block is what one WriteSpiChunk or     *)
(* ReadSpiChunk call moves (16 bytes), and its contents are one bit of    *)
(* NOR flash, 1 erased and 0 programmed.  A chunk of the transfer engine  *)
(* (256 bytes) is ChunkLen blocks.  Flash holds the ME region, blocks     *)
(* 1..Region, and the block that follows it.  Each SPI transaction is     *)
(* atomic, as the SpiTxn contract describes it: it fails, or it moves its *)
(* data.  Programming a NOR cell can only clear bits; a program cycle may *)
(* also fail to take (a worn or marginal cell), when Flaky.               *)
(***************************************************************************)
EXTENDS Naturals, Sequences, MeRegion

CONSTANTS
  Region,              \* blocks in the ME region
  ChunkLen,            \* blocks per ME_CHUNK_SIZE chunk
  MaxRestoreAttempts,  \* MaxRestoreAttempts of ShellAppMain (3)
  FregVals,            \* FREG2 values the platform may report
  Flaky                \* a program cycle may leave a cell unchanged

ASSUME AppAssumption ==
  /\ Region \in Nat \ {0}
  /\ ChunkLen \in Nat \ {0}
  /\ MaxRestoreAttempts \in Nat
  /\ FregVals \subseteq Nat
  /\ Flaky \in BOOLEAN

Bit == {0, 1}
Blocks == 1 .. Region + 1
Files == UNION {[1 .. n -> Bit] : n \in 0 .. Region + 1}

VARIABLES
  flash,       \* flash contents, blocks 1..Region+1
  flash0,      \* flash contents when the application started (history)
  file,        \* the dump file, a sequence of blocks (never changes)
  platform,    \* what the hardware reports: device found, FREG2, FLOCKDN,
               \* protection enforced by the ME (never changes)
  wp,          \* FRAP bit 2: the ME region is write-protected
  pc,          \* where ShellAppMain is
  off,         \* Offset of the current chunk, in blocks from the region start
  sub,         \* SubOffset within the chunk, in blocks
  csize,       \* ChunkSize of the current chunk, in blocks
  mism,        \* MismatchCount of VerifyMeFirmware, in blocks
  restores,    \* RestoreAttempts
  code,        \* the value ShellAppMain returns
  clock,       \* SPI clock: "Orig", "Set" by SetSpiClockSpeed, "Restored"
  fileOpen,    \* the dump file is open
  faults       \* some call has failed or a cell did not take (history)

vars == <<flash, flash0, file, platform, wp, pc, off, sub, csize, mism,
          restores, code, clock, fileOpen, faults>>

Pcs == {"Map", "Region", "Protect", "Open", "Clock",
        "WStart", "WChunk", "WSub", "VStart", "VChunk", "VSub",
        "Verdict", "SeekBefore", "SeekAfter", "Cleanup", "Exit"}

Platforms == [found : BOOLEAN, freg2 : FregVals, flockdn : BOOLEAN,
              enforced : BOOLEAN]

TypeOK ==
  /\ flash \in [Blocks -> Bit] /\ flash0 \in [Blocks -> Bit]
  /\ file \in Files
  /\ platform \in Platforms
  /\ wp \in BOOLEAN
  /\ pc \in Pcs
  /\ off \in 0 .. Region + ChunkLen
  /\ sub \in 0 .. ChunkLen
  /\ csize \in 0 .. ChunkLen
  /\ mism \in 0 .. Region
  /\ restores \in 0 .. MaxRestoreAttempts + 1
  /\ code \in {0, 1}
  /\ clock \in {"Orig", "Set", "Restored"}
  /\ fileOpen \in BOOLEAN
  /\ faults \in BOOLEAN

Init ==
  /\ flash \in [Blocks -> Bit] /\ flash0 = flash
  /\ file \in Files
  /\ platform \in Platforms
  /\ wp \in BOOLEAN
  /\ pc = "Map"
  /\ off = 0 /\ sub = 0 /\ csize = 0 /\ mism = 0 /\ restores = 0
  /\ code = 0
  /\ clock = "Orig" /\ fileOpen = FALSE /\ faults = FALSE

-----------------------------------------------------------------------------
MinOf(a, b) == IF a < b THEN a ELSE b

(* Mutant: the chunk loops only take whole chunks.                        *)
MoreChunksFullOnly(o) == o + ChunkLen <= Region /\ o < Len(file)

(* The loop bound of both passes: Offset < ME_FIRMWARE_SIZE && Offset <   *)
(* FileSize.                                                               *)
MoreChunks(o) == o < Region /\ o < Len(file)

(* Mutant: ChunkSize not clipped to the end of the region.                 *)
ChunkSizeNoRegionClip(o) == MinOf(ChunkLen, Len(file) - o)

(* ChunkSize, clipped to the region and then to the file.                  *)
ChunkSize(o) == MinOf(MinOf(ChunkLen, Region - o), Len(file) - o)

(* The blocks a pass transfers.                                            *)
Span == 1 .. MinOf(Region, Len(file))

(* A program cycle of new over a NOR cell holding old: bits only clear.   *)
Programmed(old, new) == old * new

(* The values a cell can hold after a program cycle.                       *)
ProgramResults(old, new) ==
  IF Flaky THEN {Programmed(old, new), old} ELSE {Programmed(old, new)}

(* An error return on the way: ShellAppMain cleans up and returns 1.      *)
FailTo(next) ==
  /\ pc' = next /\ code' = 1 /\ faults' = TRUE

app == <<off, sub, csize, mism, restores>>
fixed == <<flash0, file, platform>>

-----------------------------------------------------------------------------
(* Step 1: MapSpiController checks the PCI vendor and device ID.          *)
MapSpiController ==
  /\ pc = "Map"
  /\ IF platform.found THEN pc' = "Region" /\ UNCHANGED <<code, faults>>
                       ELSE FailTo("Exit")
  /\ UNCHANGED <<flash, fixed, wp, app, clock, fileOpen>>

(* Step 2: VerifyMeRegion decodes FREG2.                                   *)
VerifyMeRegion ==
  /\ pc = "Region"
  /\ IF MeRegionMatches(platform.freg2)
       THEN pc' = "Protect" /\ UNCHANGED <<code, faults>>
       ELSE FailTo("Exit")
  /\ UNCHANGED <<flash, fixed, wp, app, clock, fileOpen>>

(* Steps 2.5 and 3: UnlockMeProtection (its result is ignored), then     *)
(* DisableWriteProtection.  A set FRAP bit 2 is cleared by the direct     *)
(* write unless FLOCKDN or the ME holds it; after the VSEC writes the     *)
(* second FRAP write may succeed where the ME gave way.  EFI_ACCESS_DENIED *)
(* only prints a warning.                                                  *)
DisableWriteProtection ==
  /\ pc = "Protect"
  /\ pc' = "Open"
  /\ \/ /\ ~wp \/ (~platform.flockdn /\ ~platform.enforced)
        /\ wp' = FALSE
        /\ UNCHANGED faults
     \/ /\ wp /\ platform.enforced /\ ~platform.flockdn
        /\ wp' = FALSE
        /\ UNCHANGED faults
     \/ /\ wp /\ (platform.flockdn \/ platform.enforced)
        /\ wp' = TRUE
        /\ faults' = TRUE
  /\ UNCHANGED <<flash, fixed, app, code, clock, fileOpen>>

(* Step 4: ShellOpenFileByName.                                            *)
OpenFile ==
  /\ pc = "Open"
  /\ \/ pc' = "Clock" /\ fileOpen' = TRUE /\ UNCHANGED <<code, faults>>
     \/ FailTo("Exit") /\ UNCHANGED fileOpen
  /\ UNCHANGED <<flash, fixed, wp, app, clock>>

(* Step 5: SetSpiClockSpeed; a failure only prints a warning.             *)
SetSpiClockSpeed ==
  /\ pc = "Clock"
  /\ pc' = "WStart"
  /\ clock' \in {"Set", "Orig"}
  /\ UNCHANGED <<flash, fixed, wp, app, code, fileOpen, faults>>

-----------------------------------------------------------------------------
(* WriteMeFirmware, called at step 6 and by RestoreMeFirmware.  Entry:    *)
(* ShellGetFileSize, AllocatePool and ShellSetFilePosition may each fail. *)
WriteStart ==
  /\ pc = "WStart"
  /\ \/ pc' = "WChunk" /\ off' = 0 /\ UNCHANGED <<code, faults>>
     \/ FailTo("Cleanup") /\ UNCHANGED off
  /\ UNCHANGED <<flash, fixed, wp, sub, csize, mism, restores, clock,
                 fileOpen>>

(* One iteration of the chunk loop: ShellReadFile of ChunkSize bytes (an  *)
(* error or a short read fails the pass), or the loop ends and the pass   *)
(* returns EFI_SUCCESS to ShellAppMain: the first write goes on to verify, *)
(* a restore to the second seek.                                           *)
WriteChunk ==
  /\ pc = "WChunk"
  /\ \/ /\ MoreChunks(off)
        /\ \/ /\ pc' = "WSub" /\ sub' = 0 /\ csize' = ChunkSize(off)
              /\ UNCHANGED <<code, faults>>
           \/ FailTo("Cleanup") /\ UNCHANGED <<sub, csize>>
     \/ /\ ~MoreChunks(off)
        /\ pc' = IF restores = 0 THEN "VStart" ELSE "SeekAfter"
        /\ UNCHANGED <<sub, csize, code, faults>>
  /\ UNCHANGED <<flash, fixed, wp, off, mism, restores, clock, fileOpen>>

(* One iteration of the sub-chunk loop: WriteSpiChunk of block            *)
(* off + sub + 1.  A protected region fails the cycle with FCERR; any     *)
(* cycle may fail or time out, and a timed-out one may still program.     *)
(* After the last sub-chunk, Offset += ME_CHUNK_SIZE.                      *)
WriteSub ==
  /\ pc = "WSub"
  /\ \/ /\ sub < csize
        /\ LET b == off + sub + 1
               done == ProgramResults(flash[b], file[b])
           IN  \/ /\ ~wp
                  /\ \E v \in done :
                       /\ flash' = [flash EXCEPT ![b] = v]
                       /\ faults' = (faults \/ v # Programmed(flash[b], file[b]))
                  /\ sub' = sub + 1
                  /\ UNCHANGED <<pc, code>>
               \/ /\ \E v \in IF wp THEN {flash[b]} ELSE {flash[b]} \cup done :
                       flash' = [flash EXCEPT ![b] = v]
                  /\ FailTo("Cleanup") /\ UNCHANGED sub
        /\ UNCHANGED off
     \/ /\ sub >= csize
        /\ pc' = "WChunk" /\ off' = off + ChunkLen
        /\ UNCHANGED <<flash, sub, code, faults>>
  /\ UNCHANGED <<fixed, wp, csize, mism, restores, clock, fileOpen>>

-----------------------------------------------------------------------------
(* Mutant: MismatchCount is not reset at the start of a pass.             *)
VerifyStartKeepsCount ==
  /\ pc = "VStart"
  /\ \/ pc' = "VChunk" /\ off' = 0 /\ UNCHANGED <<mism, code, faults>>
     \/ FailTo("Cleanup") /\ UNCHANGED <<off, mism>>
  /\ UNCHANGED <<flash, fixed, wp, sub, csize, restores, clock, fileOpen>>

(* VerifyMeFirmware.  Entry: *Matches = FALSE, then ShellGetFileSize,     *)
(* the two AllocatePools and ShellSetFilePosition may each fail.           *)
VerifyStart ==
  /\ pc = "VStart"
  /\ \/ pc' = "VChunk" /\ off' = 0 /\ mism' = 0 /\ UNCHANGED <<code, faults>>
     \/ FailTo("Cleanup") /\ UNCHANGED <<off, mism>>
  /\ UNCHANGED <<flash, fixed, wp, sub, csize, restores, clock, fileOpen>>

(* One iteration of the compare loop: ShellReadFile of the chunk, or the  *)
(* loop ends and the pass returns EFI_SUCCESS with Matches set from       *)
(* MismatchCount.                                                          *)
VerifyChunk ==
  /\ pc = "VChunk"
  /\ \/ /\ MoreChunks(off)
        /\ \/ /\ pc' = "VSub" /\ sub' = 0 /\ csize' = ChunkSize(off)
              /\ UNCHANGED <<code, faults>>
           \/ FailTo("Cleanup") /\ UNCHANGED <<sub, csize>>
     \/ /\ ~MoreChunks(off)
        /\ pc' = "Verdict"
        /\ UNCHANGED <<sub, csize, code, faults>>
  /\ UNCHANGED <<flash, fixed, wp, off, mism, restores, clock, fileOpen>>

(* One iteration of the sub-chunk loop: ReadSpiChunk of block             *)
(* off + sub + 1, or the loop is over and the chunk is compared with the  *)
(* file, one mismatch per differing block.  A failed read fails the pass. *)
(* Counting each block when it is read counts the same blocks as the      *)
(* CompareMem after the loop: a read error discards the count anyway.     *)
(* The read is SpiTxn's atomic transfer: it returns the block it          *)
(* addresses, as ReadSpiChunk does when FGO clears FDONE (SpiHwSeq).       *)
VerifySub ==
  /\ pc = "VSub"
  /\ \/ /\ sub < csize
        /\ LET b == off + sub + 1 IN
           \/ /\ sub' = sub + 1
              /\ mism' = mism + (IF flash[b] = file[b] THEN 0 ELSE 1)
              /\ UNCHANGED <<pc, code, faults>>
           \/ FailTo("Cleanup") /\ UNCHANGED <<sub, mism>>
        /\ UNCHANGED off
     \/ /\ sub >= csize
        /\ pc' = "VChunk" /\ off' = off + ChunkLen
        /\ UNCHANGED <<sub, mism, code, faults>>
  /\ UNCHANGED <<flash, fixed, wp, csize, restores, clock, fileOpen>>

-----------------------------------------------------------------------------
(* Mutant: the limit is checked before RestoreAttempts++.                  *)
VerdictCheckBeforeIncrement ==
  /\ pc = "Verdict"
  /\ \/ /\ mism = 0
        /\ pc' = "Cleanup" /\ UNCHANGED <<restores, code>>
     \/ /\ mism > 0
        /\ restores' = restores + 1
        /\ IF restores <= MaxRestoreAttempts
             THEN pc' = "SeekBefore" /\ UNCHANGED code
             ELSE pc' = "Cleanup" /\ code' = 1
  /\ UNCHANGED faults
  /\ UNCHANGED <<flash, fixed, wp, off, sub, csize, mism, clock, fileOpen>>

(* Mutant: RestoreAttempts is never incremented.                           *)
VerdictNoIncrement ==
  /\ pc = "Verdict"
  /\ \/ /\ mism = 0
        /\ pc' = "Cleanup" /\ UNCHANGED <<restores, code>>
     \/ /\ mism > 0
        /\ UNCHANGED restores
        /\ IF restores + 1 <= MaxRestoreAttempts
             THEN pc' = "SeekBefore" /\ UNCHANGED code
             ELSE pc' = "Cleanup" /\ code' = 1
  /\ UNCHANGED faults
  /\ UNCHANGED <<flash, fixed, wp, off, sub, csize, mism, clock, fileOpen>>

(* Mutant: the exhausted branch returns without RestoreSpiClockSpeed and  *)
(* ShellCloseFile.                                                         *)
VerdictExhaustedReturns ==
  /\ pc = "Verdict"
  /\ \/ /\ mism = 0
        /\ pc' = "Cleanup" /\ UNCHANGED <<restores, code>>
     \/ /\ mism > 0
        /\ restores' = restores + 1
        /\ IF restores + 1 <= MaxRestoreAttempts
             THEN pc' = "SeekBefore" /\ UNCHANGED code
             ELSE pc' = "Exit" /\ code' = 1
  /\ UNCHANGED faults
  /\ UNCHANGED <<flash, fixed, wp, off, sub, csize, mism, clock, fileOpen>>

(* The body of the do-while loop after VerifyMeFirmware returned: a match *)
(* leaves the loop; otherwise RestoreAttempts++, and while it is within   *)
(* MaxRestoreAttempts a restore follows, else Status = EFI_DEVICE_ERROR.   *)
Verdict ==
  /\ pc = "Verdict"
  /\ \/ /\ mism = 0
        /\ pc' = "Cleanup" /\ UNCHANGED <<restores, code>>
     \/ /\ mism > 0
        /\ restores' = restores + 1
        /\ IF restores + 1 <= MaxRestoreAttempts
             THEN pc' = "SeekBefore" /\ UNCHANGED code
             ELSE pc' = "Cleanup" /\ code' = 1
  /\ UNCHANGED faults
  /\ UNCHANGED <<flash, fixed, wp, off, sub, csize, mism, clock, fileOpen>>

(* ShellSetFilePosition before RestoreMeFirmware, which is WriteMeFirmware. *)
SeekBefore ==
  /\ pc = "SeekBefore"
  /\ \/ pc' = "WStart" /\ UNCHANGED <<code, faults>>
     \/ FailTo("Cleanup")
  /\ UNCHANGED <<flash, fixed, wp, app, clock, fileOpen>>

(* ShellSetFilePosition after the restore; then the loop condition        *)
(* !Matches && RestoreAttempts <= MaxRestoreAttempts holds (Matches is    *)
(* FALSE and RestoreAttempts was checked), so the loop verifies again.     *)
SeekAfter ==
  /\ pc = "SeekAfter"
  /\ \/ pc' = "VStart" /\ UNCHANGED <<code, faults>>
     \/ FailTo("Cleanup")
  /\ UNCHANGED <<flash, fixed, wp, app, clock, fileOpen>>

(* Every exit after the file was opened: RestoreSpiClockSpeed, then      *)
(* ShellCloseFile and return.  RestoreSpiClockSpeed may leave the divider  *)
(* it should put back: it returns at once when the saved value is 0, and  *)
(* without a write when the controller stays busy; which of these happens *)
(* is SpiClock's business.  A clock that was never set stays as it is.    *)
Cleanup ==
  /\ pc = "Cleanup"
  /\ pc' = "Exit"
  /\ clock' \in IF clock = "Set" THEN {"Restored", "Set"} ELSE {clock}
  /\ fileOpen' = FALSE
  /\ UNCHANGED <<flash, fixed, wp, app, code, faults>>

AppStep ==
  \/ MapSpiController \/ VerifyMeRegion \/ DisableWriteProtection
  \/ OpenFile \/ SetSpiClockSpeed
  \/ WriteStart \/ WriteChunk \/ WriteSub
  \/ VerifyStart \/ VerifyChunk \/ VerifySub
  \/ Verdict \/ SeekBefore \/ SeekAfter \/ Cleanup

(* ShellAppMain has returned.                                              *)
Done == pc = "Exit" /\ UNCHANGED vars

Next == AppStep \/ Done

Spec == Init /\ [][Next]_vars

(* The application runs alone and never blocks: every step it can take,   *)
(* it takes.                                                               *)
FairSpec == Spec /\ WF_vars(AppStep)

-----------------------------------------------------------------------------
(* ShellAppMain returns 0 only when the flash holds the file over the     *)
(* whole span it transferred, the shorter of the file and the ME region:  *)
(* the verify pass that decided success read every block of it back after *)
(* the last write pass, and no block was written after that.  This holds  *)
(* of a flow whose chunk transfers keep the SpiTxn contract (each         *)
(* ReadSpiChunk returns the flash it addressed), which WriteSpiChunk and  *)
(* ReadSpiChunk keep only on a controller whose FGO write clears FDONE:   *)
(* with a stale FDONE every read returns the previous cycle's FDATA, and  *)
(* a file 1,1,1 over flash 0,1,0 verifies with its last block still 0.    *)
AppSuccessMeansImage ==
  pc = "Exit" /\ code = 0 => \A b \in Span : flash[b] = file[b]

(* Neither pass touches flash outside the span: the chunk loop stops at   *)
(* the end of the region and of the file, and ChunkSize clips the last    *)
(* chunk to both, so the block after the region and the blocks past the   *)
(* end of a short file keep what they held at start.                      *)
TransferClipped == \A b \in Blocks \ Span : flash[b] = flash0[b]

(* The do-while loop runs at most MaxRestoreAttempts restore passes: a    *)
(* write pass never starts with RestoreAttempts past the limit, though    *)
(* the counter itself goes one beyond it on the final mismatch.            *)
RestoreBound ==
  /\ restores <= MaxRestoreAttempts + 1
  /\ pc \in {"WStart", "WChunk", "WSub"} => restores <= MaxRestoreAttempts

(* Every return of ShellAppMain has closed the firmware file: each of the *)
(* failure returns after ShellOpenFileByName, in the write pass, the      *)
(* verify/restore loop and its exhausted-attempts branch, goes through    *)
(* ShellCloseFile, and so does the success return.                        *)
ExitCleansUp == pc = "Exit" => ~fileOpen

(* ShellAppMain returns, whatever the flash, the file and the platform:    *)
(* every loop is bounded, the restore loop by RestoreAttempts.              *)
AppTerminates == <>(pc = "Exit")

(* The end-to-end promise of the tool: when no call fails, restoring a    *)
(* dump succeeds (returns 0), whatever the flash held before.              *)
CleanRunSucceeds == pc = "Exit" /\ ~faults => code = 0

=============================================================================
