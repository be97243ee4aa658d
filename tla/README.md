# TLA+ models of the ME firmware restoration tool and its companions

This directory holds TLA+ specifications of three programs of the
repository:

* the SPI flash driver and the firmware transfer protocol in
  `src/edk2_shell_pkg/Application/MeRestoreApp/MeRestoreApp.c`;
* the `dsmil-unlock` shell command in
  `src/edk2_shell_pkg/DynamicCommand/DsmilUnlockCommand/`;
* the `/dev/mem` access tool `src/devmem2/devmem2.c`.

It also holds the TLC configurations that model-check them and TLAPS proofs
of their main invariants.

## The system

`MeRestoreApp.c` is a UEFI shell application. It writes an ME firmware dump
file back into the ME region of the SPI flash. It drives the flash controller
of the PCH directly, through its hardware-sequencing registers. Its parts,
leaf first:

* **Transaction driver.** `WriteSpiChunk` and `ReadSpiChunk` (lines
  775–935) each run one hardware-sequencing cycle of at most 16 bytes:
  1. poll `HSFSTS_CTL` until `SCIP` is clear (at most 1000 polls);
  2. clear a stale `FCERR`;
  3. program `FADDR`, and for a write the data registers `FDATA0..3`;
  4. write the cycle with `FGO`;
  5. poll for `FDONE` or `FCERR` (at most 10000 polls);
  6. for a read, copy `FDATA` to the caller.

  The controller runs the cycle concurrently with the driver.
* **Clock handling.**
  * `ProbeSpiClockControl` (253–391) looks for the register that holds the
    SPI clock divider (bits 8–10). It tries three candidates in turn. For
    each one it writes `DIV_8`, reads the register back and writes the
    original value back.
  * `SetSpiClockSpeed` (402–473) saves the original divider in
    `mOriginalSpiClock` and sets `DIV_8`.
  * `RestoreSpiClockSpeed` (483–550) probes again and writes the saved value
    back. A saved value of 0 means "nothing saved".
* **Transfer engine.** `WriteMeFirmware` and `VerifyMeFirmware`
  (948–1185) walk the region in 256-byte chunks read from the file. Each
  chunk is split into 16-byte transactions. The transfer is clipped to the
  shorter of the file and the region.
* **Verify/restore loop.** In `ShellAppMain` (1336–1420), a mismatch leads
  to a rewrite, for at most three restore attempts. Every exit after the
  clock was set calls `RestoreSpiClockSpeed`.
* **Discovery and protection.**
  * `MapSpiController` (140–188) locates the controller.
  * `VerifyMeRegion` (197–250) checks `FREG2` against the fixed ME range.
  * `DisableWriteProtection` (686–764) checks `FLOCKDN` and tries to clear
    the ME bit of `FRAP`.

Two further programs stand beside it:

* **`dsmil-unlock`** (`DsmilUnlock.c`, registered by
  `DsmilUnlockDynamicCommand.c`). A shell command with one sub-command per
  unlock tier, `msr-read`/`msr-write`, and `full`. `DsmilFullUnlock`
  (610–772) runs the tiers in order; the microcode, I2C and additional
  tiers only when its mode is `aggressive` or `complete`. It ends by
  writing the marker "UEFIUNLK" to MSR 0x1B0, the register
  `DsmilCoordinateMsrs` earlier filled with all ones.
* **`devmem2`**. A Linux tool that reads or writes one to eight bytes of
  physical memory through `/dev/mem`: one address, a range (`-r START END`,
  every 4 bytes) or a list (`-b`). Each address goes through
  `access_memory` (69–189): open, map one page, access at the page
  offset, unmap, close.

The driver runs single-threaded and polls. The only concurrency is between
the driver and the flash controller. The controller finishes, fails or keeps
running a cycle independently of the polls. A cycle left behind by firmware,
or by a call that timed out, may still be running when the next call starts.

## Modules

| module | models | state | actions |
|---|---|---|---|
| `SpiHwSeq` | `WriteSpiChunk`, `ReadSpiChunk` and the controller | `SCIP`, `FDONE`, `FCERR`, cycle kind, `FADDR`, `FDATA`, the flash contents; driver pc, arguments, remaining polls, the status value read while waiting for idle, result, read buffer | `CallInvalid`, `CallValid`, `WaitReady` (`ReadyIdle`/`ReadyBusy`/`ReadyExpired`), `StartCycle`, `WaitDone` (`DoneSeen`/`ErrorSeen`/`DonePoll`/`DoneExpired`), `DrainData`; the controller's `HwCycleDone` and `HwCycleError` |
| `SpiTxn` | what one transaction promises its caller | flash, busy, arguments, whether the transfer happened, result, read buffer | `CallInvalid`, `Call`, `Transfer`, `ReturnSuccess`, `ReturnError`, `Stray` |
| `SpiClock` | probe, set and restore of the clock divider, in `ShellAppMain`'s order | divider field of the three candidate registers, which of them are writable, `SCIP`, `mOriginalSpiClock`, the probe's locals and results | `P0`, `M1Wait`, `M1Test`, `M1Check`, `M2`, `M2Check`, `M3`, `M3Check`, `SetCall`, `SetRead`, `SetWait`, `SetWrite`, `Transfer`, `TransfersEnd`, `RestoreCall`, `RestoreWait`, `RestoreWrite`, `CycleEnds` |
| `SpiHwSeqProofs` | TLAPS proofs about `SpiHwSeq`, for every controller | | |
| `SpiClockProofs` | TLAPS proofs about `SpiClock` | | |
| `MeRegion` | the ME range constants (116–119) and `VerifyMeRegion`'s `FREG2` decode (229–242) as arithmetic | | |
| `MeRestoreApp` | `ShellAppMain` from `MapSpiController` to its return, with `WriteMeFirmware`, `VerifyMeFirmware` and `RestoreMeFirmware` | flash blocks and their initial contents, the dump file, the platform (device found, `FREG2`, `FLOCKDN`, ME enforcement), `FRAP` bit 2, pc, `Offset`, `SubOffset`, `ChunkSize`, `MismatchCount`, `RestoreAttempts`, return code, clock state, file open | `MapSpiController`, `VerifyMeRegion`, `DisableWriteProtection`, `OpenFile`, `SetSpiClockSpeed`, `WriteStart`, `WriteChunk`, `WriteSub`, `VerifyStart`, `VerifyChunk`, `VerifySub`, `Verdict`, `SeekBefore`, `SeekAfter`, `Cleanup` |
| `MeRestoreAppProofs` | TLAPS proofs about `MeRegion` and `MeRestoreApp` | | |
| `DsmilUnlock` | `DsmilUnlockCommandHandler` over a shell session, and `DsmilFullUnlock` one tier per step | the six coordination MSRs (values `Boot`, `Ones`, `Marker`, `User`), the HAP bit, pc (0 at the prompt, else the tier index), mode, `Aggressive`, the tiers run and the last sub-command | `Command` (the shell's call of `Handle`, the handler on one argument list), `FullStep`; one operator per tier function |
| `DsmilUnlockProofs` | TLAPS proofs about `DsmilUnlock` | | |
| `DevMem2` | `main`'s three modes and `access_memory` | mode and arguments (tokens: a number, or a letter that `strtoul` reads as 0), pc, `target`, access type, `addr`/`end`/`i` of the loops, descriptor open, page mapped, bytes of the last access, the calls made, exit code | `MainRange`, `MainBatch`, `MainStd`, `RangeLoop`, `BatchLoop`, `Open`, `Mmap`, `Access`, `Unmap` |
| `DevMem2Proofs` | TLAPS proofs about `DevMem2` | | |

Modelling choices:

* **Status bits.** `FDONE` and `FCERR` are write-1-to-clear bits. The code
  itself relies on this in its "clear any previous errors" write.
* **`GoClearsDone`.** The code does not establish whether writing `FGO`
  also clears a stale `FDONE`. That is the constant `GoClearsDone`, and the
  runs check both values.
* **Registers in `SpiClock`.** A register is abstracted to its divider field
  (0 is `DIV_1`, 3 is `DIV_8`).
* **Idle waits in `SpiClock`.** The clock routines' idle waits are reduced
  to their two exits: idle seen, or busy throughout. `CycleEnds` may clear
  `SCIP` between any two steps, so every interleaving of the poll loop with
  the cycle's end is covered.
* **Transfers in `SpiClock`.** Between set and restore, transfers are an
  environment action. Each transfer writes the first data register (offset
  `0x0010`), and a transfer that times out leaves a cycle running.

* **Blocks in `MeRestoreApp`.** A block is what one transaction moves (16
  bytes), and its contents are one NOR bit: 1 erased, 0 programmed. A
  program cycle stores `old * new`, since it can only clear bits. Each
  transaction is atomic, as `SpiTxn` describes it: it fails or moves its
  data. The constant `Flaky` lets a program cycle leave a cell unchanged
  (a worn cell). The flash holds the region and one block past it, so a
  write outside the region is visible.
* **Failures in `MeRestoreApp`.** Every call that can fail (file size,
  allocation, seek, file read, short read, transaction) is a disjunct that
  takes the code's error return. The history flag `faults` records that one
  was taken, or that a cell did not take. The clock is the `Orig`/`Set`/
  `Restored` state only; `SpiClock` models how it is set and restored.
  `Cleanup` may leave a `Set` clock `Set`: `RestoreSpiClockSpeed` returns
  at once when the saved divider is 0, and without writing when the
  controller stays busy.
* **Unlock.** `UnlockMeProtection` is not modelled. Its result is ignored,
  and its effect on protection is left open: `DisableWriteProtection` may
  or may not clear an ME-enforced `FRAP` bit.

* **MSRs in `DsmilUnlock`.** The tier functions other than
  `DsmilCoordinateMsrs`, `DsmilActivateHap` and the marker write are fixed
  MMIO/PCI write lists whose read-backs are only printed; each is an
  operator that changes nothing modelled. `DsmilActivateHap`'s six ME
  commands may or may not set HFSTS1 bit 12 (`hap`), the platform's choice.
  `msr-write`'s `(UINT32)` cast is `% 2^MsrAddrBits`.
* **Addresses in `DevMem2`.** `off_t` is `AddrBits` wide and the page
  `2^PageBits` bytes. `strtoul`'s result is converted to `off_t` as two's
  complement (`ToOff`); `target & MAP_MASK` is `target % MAP_SIZE`. The
  overflow of `addr += 4` is undefined behaviour: the model lets it wrap or
  end the loop. `munmap` of the exact mapping just made cannot fail, so its
  error branch (181–183) is not modelled. Option letters are reduced to the
  mode they select; output is left out.

## Runs

| run | result | what it shows |
|---|---|---|
| `spihwseq` | pass | See below. |
| `spihwseq_staledone` | violation | With write-1-to-clear `FDONE`, the second transaction after a completed one returns `EFI_SUCCESS` while its cycle is still running (finding 1). |
| `spiclock` | pass | See below. |
| `spiclock_busywrite` | violation | Method 3 of the probe writes `HSFCTL` during a flash cycle (finding 2). |
| `spiclock_sentinel` | violation | An original divider of `DIV_1` is never restored (finding 3). |
| `spiclock_fdata0` | violation | The divider "set" at `0x0010` is `FDATA0`, and the first transfer overwrites it (finding 4). |
| `meapp` | pass | See below. |
| `meapp_noerase` | violation | With every call succeeding and every cell taking its program, `ShellAppMain` still returns 1: a dump with 1 bits over flash with 0 bits never verifies (finding 5). |
| `dsmil` | pass | See below. |
| `devmem2` | pass | See below. |
| `devmem2_pageedge` | violation | A word read a few bytes before a page boundary runs past the mapped page (finding 6). |
| `devmem2_batch` | violation | Batch mode takes its access type from the second address (finding 7). |

The run `spihwseq` uses `GoClearsDone = TRUE`. It checks four things:

* `SuccessAfterFreshGo`: a transaction reports success only after its own
  cycle has completed and moved its data, provided its `FGO` found `FDONE`
  clear, `FCERR` set or a controller that clears `FDONE` (with
  `GoClearsDone = TRUE` this is every transaction);
* `FGO` is never written while `SCIP` is set;
* every call returns, whatever the controller does;
* driver and controller together implement `SpiTxn`.

The run `spiclock` covers every platform (any subset of writable candidate
fields), every starting field among `DIV_1`, `DIV_2` and `DIV_8`, and a busy
or idle controller. On all of them the probe leaves every candidate
register as it found it.

The run `meapp` (1.2 million distinct states, under a minute) covers every
flash content, every file from empty to one block longer than the region,
both a matching and a one-page-short `FREG2`, every lock combination and
every failing call. It checks:

* `AppSuccessMeansImage`: a return of 0 means the flash holds the file over
  the whole transferred span. The model's chunk transfers are atomic
  `SpiTxn` calls, so this holds of the code only where the transactions
  keep that contract, that is when `FGO` clears `FDONE`. With a stale
  `FDONE` a read returns the previous `FDATA`, and a file that does not
  match the flash can verify;
* `TransferClipped`: no block outside that span ever changes;
* `RestoreBound`: at most `MaxRestoreAttempts` restores are written;
* `ExitCleansUp`: every return after the file was opened closes it;
* `AppTerminates`: `ShellAppMain` always returns.

The run `dsmil` explores every sequence of commands with 1 to 4 arguments,
every sub-command, the addresses 0x1B0, 0x5B0 (which truncates to 0x1B0
with `MsrAddrBits = 10`) and 0x3A, and the modes `safe`, `aggressive`,
`complete` and a misspelt one. It checks:

* `MarkerAtFullEnd`: after every full unlock MSR 0x1B0 holds the marker,
  though `DsmilCoordinateMsrs` wrote all ones there;
* `FullRunsItsTiers`: exactly the tiers of the mode ran;
* `MarkerErasedOnlyByMsrWriters`: a step that erases the marker is a
  `coordinate`, a new `full` or an `msr-write` (0x5B0 included, through
  the `UINT32` cast).

The run `devmem2` explores every command line of at most three tokens in
each mode, over addresses that include one negative as `off_t`, one at a
page edge and one within 4 of the top, and every open and mmap failure.
It checks `ReleasedBetweenCalls` (between two `access_memory` calls and at
exit, no descriptor is open and no page mapped) and `TerminatesBelowTop`
(devmem2 ends whenever a range's END is below the top of `off_t` minus 4).
`AddrBits = 5` and `PageBits = 3` scale 64-bit `off_t` and 4096-byte pages
down: what matters is the page offset plus the width against the page
size, and `END` against the top of `off_t`, which both keep.

Bounds:

* `Region = 3` and `ChunkLen = 2` make the last chunk partial, and files of
  length 0 to 4 end before, inside, at and past the region: every case of
  the clipping at lines 988–994.
* `MaxRestoreAttempts = 3` is the code's value; with flaky cells, all
  three restores happen and the exhausted branch is reached.

* Two addresses and two values are enough to tell a transfer to the right
  address apart from one to the wrong address, and new data from old.
* With two polls per loop, each loop can exit in all three ways: the
  condition seen on the first poll, seen after a retry, or never seen.

Fairness: `FairSpec` assumes weak fairness of the driver's steps only. The
driver busy-polls and never blocks, so each of its steps is taken while it
is enabled. `DevMem2`'s `FairSpec` assumes weak fairness of `Step`:
devmem2 is one sequential process, and its system calls return.
`DsmilUnlock` has no liveness property: the shell may wait for a command
forever. The controller gets no fairness, since a cycle may hang. For
`MeRestoreApp`, `FairSpec` assumes weak fairness of `AppStep`. The
application runs alone in the shell, and every transaction is a call that
returns (proved of `SpiHwSeq`), so a step that is enabled is taken.

`ShellAppMain`'s final `if (!Matches)` branch (1408–1413) is dead code:
the do-while only ends with `Matches` false after a `break` that set an
error status, and that case is handled first (1402–1406). The model has
no state for it.

## Findings

1. **Stale `FDONE`** (`MeRestoreApp.c:808`). `FDONE` is cleared only
   together with a stale `FCERR`. After a completed cycle, the next call's
   completion poll sees the old `FDONE` at once.
2. **Method 3 writes without an idle check** (`MeRestoreApp.c:364`). When
   the controller stayed busy through Method 1, the probe still writes
   `HSFCTL`.
3. **The 0 sentinel** (`MeRestoreApp.c:498`). `mOriginalSpiClock == 0`
   means "nothing saved", so an original `DIV_1` is never restored.
4. **`SPI_CLOCK_CTL` is `SPI_FDATA0`** (`MeRestoreApp.c:92`, 68). Both are
   offset `0x0010`, so every transfer rewrites the "clock divider".

5. **No erase before programming** (`MeRestoreApp.c:826`).
   `WriteSpiChunk` issues only `FCYCLE_WRITE` program cycles, and no erase
   cycle is defined or issued anywhere. NOR programming can only clear
   bits. Over flash that holds 0x00, a dump of 0xFF reads back unchanged.
   The restore loop repeats the same program three times and the tool
   returns 1. `spec.md` describes the opposite outcome for that scenario:
   `mismatchCount` 0 after Write and Verify, and one Restore fixing an
   externally corrupted flash.

6. **Access past the mapped page** (`devmem2.c:101`). One page is mapped
   and 1 to 8 bytes are accessed at `target & MAP_MASK` with no check that
   they end inside it.
7. **Batch access type** (`devmem2.c:288`). The type is the first
   character of the second positional argument, an address. The usage's
   own example `-b 0x10000000 0x10000004 0x10000008` gets type `0`: every
   call fails with "Illegal data type", and devmem2 still exits 0.

Found while modelling, with no run of their own:

* **Marker without HAP** (`DsmilUnlock.c:756`). `DsmilFullUnlock` ignores
  `DsmilActivateHap`'s `EFI_NOT_READY` (650) and writes the completion
  marker anyway, though its comments say the kernel modules take the
  marker as "prerequisites complete". `DsmilUnlock` reaches states with
  the marker written and `hap` false.
* **Marker overwritten** (`DsmilUnlock.c:840`, 834). `spec.md` calls the
  marker a one-way flag read after reboot. In the same session,
  `coordinate` writes all ones to MSR 0x1B0, and `msr-write` with an
  address above 4 GiB truncated to 0x1B0 overwrites it too.
  `MarkerErasedOnlyByMsrWriters` pins down that these are the only ways.
* **Range overflow** (`devmem2.c:265`). `addr += 4` on a signed `off_t`
  overflows when END is within 4 of its maximum; the model's wrapping
  branch then loops forever. `TerminatesBelowTop` shows every range
  below that ends.

* `DsmilCoordinateMsrs` writes all ones to MSR 0x1A0, which
  `DsmilUnlock.h` also names `MSR_IA32_MISC_ENABLE`; a WRMSR setting
  reserved bits raises #GP. Which bits are reserved is not in the
  repository, so the model lets every MSR write take effect.
* `DsmilActivateHap` and `DsmilStageMicrocode` test a `Status` that nothing
  assigns; those error branches are dead.
* `DsmilHostBridgeUnlock` returns a `PciWrite32` value as its status, and
  nobody checks it; `DsmilVsecUnlock`'s `Aggressive` parameter is unused.

## Proofs

`SpiHwSeqProofs` proves three theorems for every value of the constants:

* `TypeCorrect`.
* `NoCycleWhileBusyHolds`, from the invariant `IdleInv`: between the idle
  poll and `FGO` the controller stays idle, and the status value read is
  the live one.
* `SuccessAfterFreshGoHolds`, for both values of `GoClearsDone`, from the
  inductive invariant `FInv`. `FInv` tracks the call through its steps:
  * once `FGO` is written, the controller's cycle registers hold the
    call's own cycle (`CallShape`);
  * if that `FGO` found `FDONE` clear or `FCERR` set (`FreshGo`), a running
    cycle has `FDONE` and `FCERR` clear, and `FDONE` seen while waiting, or
    reaching `DrainData`, means the cycle's transfer has happened
    (`FreshCycle`);
  * `IdleInv` now also says that the status value read is the live `FDONE`.

`SuccessAfterFreshGo` alone is not inductive. It says nothing about the
states inside a call, and those states decide what the call returns.
The theorem needs no assumption on the controller: with
`GoClearsDone = TRUE`, `FreshGo` always holds and it gives
`SuccessIsCompletion`. With a stale `FDONE` it says nothing, and the
`spihwseq_staledone` run shows the premature success that then occurs.

`SpiClockProofs` proves `ClockTypeCorrect` and `ProbeRestoresHolds` from
`IInv == TypeOK /\ ProbeInv`. `ProbeInv` follows the probe through its
methods. Outside a method's test, the fields are `orig`, the values found.
After a method's test write, the fields are `Tested(r)`: `orig`, with the
tested register holding `DIV_8` if it is writable. `WriteBack` shows that
the method's restore write of `orig[r]` then gives back `orig`.
`ProbeRestores` alone is not inductive: it says nothing of the states
between a test write and its restore.

`DevMem2Proofs` proves `ReleasedBetweenCallsHolds` from `IInv`. `Holds`
ties the descriptor and the mapping to `pc`:
* both are released at the loop heads, at `Main`, at `Open` and at `Exit`;
* only the descriptor is held at `Mmap`;
* both are held at `Access` and `Unmap`.
`ReleasedBetweenCalls` alone is not inductive. Every error path from
`Open`, `Mmap` and `Access` returns through `Return`, and only the
states inside `access_memory` show what that path releases.

`DevMem2Proofs` also proves `DevMemTypeCorrect`, `Spec => []TypeOK`, for
every width and page size, from `TInv == TypeOK /\ BatchIndex`.
`BatchIndex` says two things:
* a batch-mode call of `access_memory` is for an argument that is there,
  because `i` advances only when the call returns;
* only range mode is in the range loop.
Without it, the `Return` of a batch call could push `i` past
`MaxArgs + 1`. The lemmas cover the model's operators:
* `ToOffType`: the conversion of an unsigned long to `off_t` stays in
  range;
* `ReturnType`: the wrap of `addr += 4` at the top of `off_t` stays in
  range;
* `SpanType`: the bytes an access touches lie within `0 .. MAP_SIZE + 6`;
* `ArgsSeq`, `CallType`, `TypeCharType` and `StrToULType` give the types
  of the arguments and of each call.

The provers have no rule for `2^n` with `n` a variable. `DevMem2`
therefore states the three facts the proof needs as the named assumption
`PowerFacts`:
* `2^(AddrBits-1)` is a natural of at least 2;
* `2^AddrBits = 2 * 2^(AddrBits-1)`;
* `2^PageBits` is positive.

These are facts of arithmetic for every width that `DevMemAssumption`
allows (`3 <= PageBits < AddrBits`). They restrict nothing, and every
`devmem2` run evaluates them.

`MeRestoreAppProofs` proves, for every value of the constants:

* `RegionFields`: `VerifyMeRegion` accepts a `FREG2` value exactly when its
  base field is 0x126 and its limit field 0xEC7.
* `LimitNeverEnd`: the `Limit == ME_FIRMWARE_END` alternative never holds,
  because a decoded limit is page aligned.
* `AcceptedRegionIsMeRange`: an accepted value describes exactly the
  range the engine writes, a whole number of 256-byte chunks.
* `AppTypeCorrect`, `AppSuccessMeansImageHolds`, `TransferClippedHolds`
  and `RestoreBoundHolds`, from the inductive invariant `IInv`.

`IInv` is `TypeOK`, `TransferClipped` and the loop invariant `LoopInv`:

* inside a sub-chunk loop, the chunk starts inside the span, its size is
  `ChunkSize(off)` and `SubOffset` is within it;
* while verifying, `MismatchCount` is at most the number of blocks read, and
  when it is 0 every block read so far matched (`Seen`);
* at the verdict with no mismatch, and past the loop with code 0, the whole
  span matched;
* before cleanup, `RestoreAttempts` is within `MaxRestoreAttempts`.

`AppSuccessMeansImage` alone is not inductive. A return of 0 follows a
verify pass with no mismatch, and only the loop invariant ties that count
to the flash contents. A verify pass reads the flash it compares, and no
write happens between the last read and the verdict.

`DsmilUnlockProofs` proves, for every address set, mode set and address
width:

* `DsmilTypeCorrect`, `MarkerAtFullEndHolds` and `FullRunsItsTiersHolds`,
  from `IInvHolds`. The inductive invariant `IInv` is `TypeOK` and
  `FullInv`: inside `DsmilFullUnlock` the command is `full`, `Aggressive`
  is `IsAggressive(mode)`, and the tiers run are those before `pc` that
  the mode does not skip (`RanBefore`, by each tier's position `Idx`);
  back at the prompt after `full`, the marker is in MSR 0x1B0 and the
  mode's tiers have run. The two properties alone say nothing of the
  states inside the sequence, where `DsmilCoordinateMsrs` has just put
  all ones in the marker's MSR.
* `MarkerErasedOnlyByMsrWritersHolds`, the action property, from `IInv`:
  inside the sequence the command is `full`, and a tier other than
  `coordinate` writes no coordination MSR (`RunTierKeepsMsrs`).

`MeRestoreAppProofs` also proves `ExitCleansUpHolds` from `CleanInv`.
Before `OpenFile`, the file is closed; at `Exit` it is closed again.
`CleanInv` needs no
loop invariant, because every path to `Exit` goes through `Cleanup` or
leaves before `OpenFile`.

Only TLC checks these:

* Liveness: `AppTerminates`, `TransactionReturns` and
  `TerminatesBelowTop`. These need fairness and ENABLED, and TLAPS does
  not prove either.
* The properties of the violation runs, each of which TLC refutes.
* The refinement `TxnSpec`, and `SuccessIsCompletion`. Both hold only when
  `GoClearsDone` is TRUE (the `spihwseq` run), and the proofs do not
  assume anything about the controller. When `GoClearsDone` is FALSE both
  fail: see the `spihwseq_staledone` run.

## Not modelled

* `UnlockMeProtection` in `MeRestoreApp.c`: a flat sequence of register
  writes whose result `ShellAppMain` ignores; its effect is left open in
  `DisableWriteProtection`.
* The contents of the `dsmil-unlock` tiers' MMIO and PCI writes, and the
  data values devmem2 reads and writes: nothing in the code depends on
  them beyond printing.
* Print output, the help text, and option parsing beyond the mode it
  selects.
