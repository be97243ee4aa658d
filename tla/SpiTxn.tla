------------------------------- MODULE SpiTxn -------------------------------
(***************************************************************************)
(* What one call of WriteSpiChunk or ReadSpiChunk promises its caller, as *)
(* an atomic contract: a call with a bad size returns InvalidParameter at  *)
(* once; a valid call may end in an error at any point, but returns       *)
(* Success only after its transfer has happened, and a successful read    *)
(* returns the flash contents.  Flash may also change while no transfer   *)
(* of the caller runs: a cycle left behind by firmware or by an earlier   *)
(* call that timed out completes on its own.                              *)
(***************************************************************************)
EXTENDS Naturals

CONSTANTS Addr, Val, TxMax

VARIABLES
  flash,   \* the flash contents
  busy,    \* a call is in progress
  op,      \* the call's arguments
  xfer,    \* the call's transfer has happened
  ret,     \* the call's result
  rdata    \* the caller's read buffer

vars == <<flash, busy, op, xfer, ret, rdata>>

Ops == [kind : {"Read", "Write"}, addr : Addr, data : Val, size : 0..TxMax + 1]

Init ==
  /\ flash \in [Addr -> Val]
  /\ busy = FALSE
  /\ op \in Ops
  /\ xfer = FALSE
  /\ ret = "None"
  /\ rdata \in Val

CallInvalid ==
  /\ ~busy
  /\ \E o \in Ops : o.size \notin 1..TxMax /\ op' = o
  /\ ret' = "InvalidParameter"
  /\ UNCHANGED <<flash, busy, xfer, rdata>>

Call ==
  /\ ~busy
  /\ \E o \in Ops : o.size \in 1..TxMax /\ op' = o
  /\ busy' = TRUE
  /\ ret' = "Pending"
  /\ UNCHANGED <<flash, xfer, rdata>>

Transfer ==
  /\ busy /\ ~xfer
  /\ xfer' = TRUE
  /\ flash' = IF op.kind = "Write" THEN [flash EXCEPT ![op.addr] = op.data]
                                   ELSE flash
  /\ UNCHANGED <<busy, op, ret, rdata>>

ReturnSuccess ==
  /\ busy /\ xfer
  /\ rdata' = IF op.kind = "Read" THEN flash[op.addr] ELSE rdata
  /\ busy' = FALSE /\ xfer' = FALSE
  /\ ret' = "Success"
  /\ UNCHANGED <<flash, op>>

ReturnError ==
  /\ busy /\ ~xfer
  /\ busy' = FALSE
  /\ ret' \in {"DeviceError", "Timeout"}
  /\ UNCHANGED <<flash, op, xfer, rdata>>

(* A cycle the caller did not start completes and writes flash.           *)
Stray ==
  /\ ~(busy /\ xfer)
  /\ \E a \in Addr, v \in Val : flash' = [flash EXCEPT ![a] = v]
  /\ UNCHANGED <<busy, op, xfer, ret, rdata>>

Next ==
  \/ CallInvalid \/ Call \/ Transfer \/ ReturnSuccess \/ ReturnError
  \/ Stray

Spec == Init /\ [][Next]_vars

=============================================================================
