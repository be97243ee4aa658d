------------------------------ MODULE DevMem2 ------------------------------
(***************************************************************************)
(* devmem2.c: main's three modes (range, batch, standard) and             *)
(* access_memory, which opens /dev/mem, maps the page of the target,       *)
(* accesses 1, 2, 4 or 8 bytes at the target's offset in that page and    *)
(* releases the page and the descriptor.                                   *)
(*                                                                         *)
(* Option parsing is reduced to its outcome: the mode, and for range mode *)
(* the START operand.  The positional arguments are the sequence args of  *)
(* tokens: a number (first character a digit) or a word that starts with *)
(* a letter.  off_t                                                       *)
(* and unsigned long are AddrBits wide (64 in the build) and the page is  *)
(* 2^PageBits bytes (MAP_SIZE, 4096); the model runs them narrower.       *)
(* Output formatting is left out.                                          *)
(***************************************************************************)
EXTENDS Integers, Sequences

CONSTANTS
  AddrBits,    \* width of off_t and unsigned long
  PageBits,    \* log2 of MAP_SIZE
  Nums,        \* numeric arguments, as strtoul parses them
  Letters,     \* arguments that start with a letter
  MaxArgs      \* most positional arguments on a command line

ASSUME DevMemAssumption ==
  /\ AddrBits \in Nat /\ PageBits \in Nat /\ 3 <= PageBits /\ PageBits < AddrBits
  /\ Nums \subseteq 0 .. 2^AddrBits - 1
  /\ Letters \subseteq STRING
  /\ MaxArgs \in Nat

(* What the widths make of 2^n: the halves of the unsigned range are the  *)
(* two signs of off_t, and a page has bytes.  These hold for every width  *)
(* DevMemAssumption allows; the provers have no rule for 2^n with n a     *)
(* variable, so the proofs take them from here, and TLC evaluates them.   *)
ASSUME PowerFacts ==
  /\ 2^(AddrBits - 1) \in Nat \ {0, 1}
  /\ 2^AddrBits = 2 * 2^(AddrBits - 1)
  /\ 2^PageBits \in Nat \ {0}

MAP_SIZE == 2^PageBits
OffMax == 2^(AddrBits - 1) - 1        \* largest off_t

(* The access types of the two switches and the bytes each one moves.     *)
Width == [b |-> 1, h |-> 2, w |-> 4, d |-> 8]

(* A positional argument, as far as devmem2 looks at it: its first       *)
(* character and the value strtoul(t, NULL, 0) parses from it (0 when it *)
(* does not start with a digit).                                           *)
Tokens == {[lead |-> "digit", val |-> n] : n \in Nums}
            \cup {[lead |-> l, val |-> 0] : l \in Letters}

(* tolower(argv[i][0]).                                                    *)
TypeChar(t) == CASE t.lead = "B" -> "b" [] t.lead = "H" -> "h"
                 [] t.lead = "W" -> "w" [] t.lead = "D" -> "d"
                 [] OTHER -> t.lead

(* strtoul(t, NULL, 0).                                                    *)
StrToUL(t) == t.val

(* The implicit conversion of unsigned long to off_t (two's complement).   *)
ToOff(u) == IF u <= OffMax THEN u ELSE u - 2^AddrBits

PageOffsetNoMask(target) == target

(* target & MAP_MASK: the offset in the page, for negative targets too.    *)
PageOffset(target) == target % MAP_SIZE

Args == UNION {[1 .. n -> Tokens] : n \in 0 .. MaxArgs}
Modes == {"range", "batch", "std"}

VARIABLES
  mode,       \* range_mode, else batch_mode, else standard
  rstart,     \* range mode: strtoul of the -r operand
  args,       \* the positional arguments (never change)
  pc,         \* where the program is
  target,     \* access_memory's target (off_t)
  atype,      \* access_type
  doWrite,    \* do_write
  addr,       \* range mode: the loop's addr
  rend,       \* range mode: range_end
  i,          \* batch mode: index of the current argument
  fdOpen,     \* /dev/mem is open in access_memory
  mapped,     \* the page is mapped in access_memory
  span,       \* offsets in the mapping the last access touched
  calls,      \* <<target, type>> of every access_memory call (history)
  code        \* exit status

vars == <<mode, rstart, args, pc, target, atype, doWrite, addr, rend, i,
          fdOpen, mapped, span, calls, code>>
call == <<target, atype, doWrite>>
loop == <<addr, rend, i>>
inputs == <<mode, rstart, args>>

Pcs == {"Main", "RangeLoop", "BatchLoop", "Open", "Mmap", "Access", "Unmap",
        "Exit"}
Off == -(OffMax + 1) .. OffMax

TypeOK ==
  /\ mode \in Modes /\ rstart \in Nums /\ args \in Args
  /\ pc \in Pcs
  /\ target \in Off /\ atype \in {"b", "h", "w", "d", "digit"} \cup Letters
  /\ doWrite \in BOOLEAN
  /\ addr \in Off /\ rend \in Off /\ i \in 1 .. MaxArgs + 1
  /\ fdOpen \in BOOLEAN /\ mapped \in BOOLEAN
  /\ span \subseteq 0 .. MAP_SIZE + 6
  /\ calls \subseteq Off \X ({"b", "h", "w", "d", "digit"} \cup Letters)
  /\ code \in {0, 1}

Init ==
  /\ mode \in Modes /\ rstart \in Nums /\ args \in Args
  /\ pc = "Main"
  /\ target = 0 /\ atype = "w" /\ doWrite = FALSE
  /\ addr = 0 /\ rend = 0 /\ i = 1
  /\ fdOpen = FALSE /\ mapped = FALSE
  /\ span = {} /\ calls = {}
  /\ code = 0

-----------------------------------------------------------------------------
(* exit(c) or return c from main.                                          *)
ExitWith(c) == pc' = "Exit" /\ code' = c

(* access_memory(t, ty, -, w) is called.                                   *)
CallAccess(t, ty, w) ==
  /\ pc' = "Open" /\ target' = t /\ atype' = ty /\ doWrite' = w
  /\ calls' = calls \cup {<<t, ty>>}

(* The caller's continuation once access_memory returns r.  Standard mode *)
(* exits 1 on a negative result; range and batch mode only report it and *)
(* go on.  addr += step overflows off_t when addr > OffMax - 4: undefined *)
(* behaviour, which the build either wraps or compiles into a loop that   *)
(* ends (a trip count computed as if it could not overflow).              *)
ReturnBatchNoIncrement(r) ==
  CASE mode = "std" ->
         ExitWith(IF r < 0 THEN 1 ELSE 0) /\ UNCHANGED loop
    [] mode = "batch" ->
         pc' = "BatchLoop" /\ UNCHANGED <<addr, rend, i, code>>
    [] mode = "range" ->
         /\ UNCHANGED <<rend, i, code>>
         /\ IF addr + 4 <= OffMax
              THEN addr' = addr + 4 /\ pc' = "RangeLoop"
              ELSE \/ addr' = addr + 4 - 2^AddrBits /\ pc' = "RangeLoop"
                   \/ addr' = addr /\ pc' = "Exit"

Return(r) ==
  CASE mode = "std" ->
         ExitWith(IF r < 0 THEN 1 ELSE 0) /\ UNCHANGED loop
    [] mode = "batch" ->
         pc' = "BatchLoop" /\ i' = i + 1 /\ UNCHANGED <<addr, rend, code>>
    [] mode = "range" ->
         /\ UNCHANGED <<rend, i, code>>
         /\ IF addr + 4 <= OffMax
              THEN addr' = addr + 4 /\ pc' = "RangeLoop"
              ELSE \/ addr' = addr + 4 - 2^AddrBits /\ pc' = "RangeLoop"
                   \/ addr' = addr /\ pc' = "Exit"

-----------------------------------------------------------------------------
(* main, range mode (lines 226-236, 251-275): -r takes START from its     *)
(* operand and END from the next argument, or exits 1.                    *)
MainRange ==
  /\ pc = "Main" /\ mode = "range"
  /\ IF Len(args) = 0 \/ ToOff(rstart) > ToOff(StrToUL(args[1]))
       THEN ExitWith(1) /\ UNCHANGED loop
       ELSE /\ rend' = ToOff(StrToUL(args[1])) /\ addr' = ToOff(rstart)
            /\ pc' = "RangeLoop" /\ UNCHANGED <<i, code>>
  /\ UNCHANGED <<inputs, call, fdOpen, mapped, span, calls>>

(* main, batch mode (lines 279-289): the access type is taken from the    *)
(* second positional argument.                                             *)
MainBatch ==
  /\ pc = "Main" /\ mode = "batch"
  /\ IF Len(args) = 0
       THEN ExitWith(1) /\ UNCHANGED atype
       ELSE /\ atype' = IF Len(args) >= 2 THEN TypeChar(args[2]) ELSE "w"
            /\ pc' = "BatchLoop" /\ UNCHANGED code
  /\ UNCHANGED <<inputs, target, doWrite, loop, fdOpen, mapped, span,
                 calls>>

(* main, standard mode (lines 306-327): address, optional type, optional *)
(* value to write.                                                         *)
MainStd ==
  /\ pc = "Main" /\ mode = "std"
  /\ IF Len(args) = 0
       THEN ExitWith(1) /\ UNCHANGED <<call, calls>>
       ELSE /\ CallAccess(ToOff(StrToUL(args[1])),
                          IF Len(args) >= 2 THEN TypeChar(args[2]) ELSE "w",
                          Len(args) >= 3)
            /\ UNCHANGED code
  /\ UNCHANGED <<inputs, loop, fdOpen, mapped, span>>

(* for (addr = range_start; addr <= range_end; addr += step)               *)
RangeLoop ==
  /\ pc = "RangeLoop"
  /\ IF addr <= rend
       THEN CallAccess(addr, "w", FALSE) /\ UNCHANGED code
       ELSE ExitWith(0) /\ UNCHANGED <<call, calls>>
  /\ UNCHANGED <<inputs, loop, fdOpen, mapped, span>>

(* for (i = optind; i < argc; i++) target = strtoul(argv[i], NULL, 0);    *)
BatchLoop ==
  /\ pc = "BatchLoop"
  /\ IF i <= Len(args)
       THEN CallAccess(ToOff(StrToUL(args[i])), atype, FALSE)
            /\ UNCHANGED code
       ELSE ExitWith(0) /\ UNCHANGED <<call, calls>>
  /\ UNCHANGED <<inputs, loop, fdOpen, mapped, span>>

-----------------------------------------------------------------------------
(* open("/dev/mem"): fails without root or without the device.           *)
Open ==
  /\ pc = "Open"
  /\ \/ fdOpen' = TRUE /\ pc' = "Mmap" /\ UNCHANGED <<loop, code>>
     \/ Return(-1) /\ UNCHANGED fdOpen
  /\ UNCHANGED <<inputs, call, mapped, span, calls>>

(* mmap of the page at target & ~MAP_MASK: a negative offset is EINVAL;   *)
(* any other may be refused (no such range, CONFIG_STRICT_DEVMEM).        *)
Mmap ==
  /\ pc = "Mmap"
  /\ \/ /\ target >= 0
        /\ mapped' = TRUE /\ pc' = "Access"
        /\ UNCHANGED <<fdOpen, loop, code>>
     \/ fdOpen' = FALSE /\ Return(-1) /\ UNCHANGED mapped
  /\ UNCHANGED <<inputs, call, span, calls>>

(* The read switch, then the write switch when do_write: both touch      *)
(* Width[type] bytes at offset target & MAP_MASK of the mapping.  An     *)
(* unknown type unmaps, closes and returns -1.                            *)
AccessIllegalKeepsFd ==
  /\ pc = "Access"
  /\ IF atype \in DOMAIN Width
       THEN /\ span' = PageOffset(target) .. PageOffset(target) + Width[atype] - 1
            /\ pc' = "Unmap"
            /\ UNCHANGED <<fdOpen, mapped, loop, code>>
       ELSE /\ mapped' = FALSE /\ Return(-1)
            /\ UNCHANGED <<span, fdOpen>>
  /\ UNCHANGED <<inputs, call, calls>>

Access ==
  /\ pc = "Access"
  /\ IF atype \in DOMAIN Width
       THEN /\ span' = PageOffset(target) .. PageOffset(target) + Width[atype] - 1
            /\ pc' = "Unmap"
            /\ UNCHANGED <<fdOpen, mapped, loop, code>>
       ELSE /\ mapped' = FALSE /\ fdOpen' = FALSE /\ Return(-1)
            /\ UNCHANGED span
  /\ UNCHANGED <<inputs, call, calls>>

(* munmap of the whole mapping mmap returned: it cannot fail (EINVAL is  *)
(* for an address or length mmap did not give), so its error branch,      *)
(* ret = -1, is never taken.  Then close(fd); return ret (0).              *)
Unmap ==
  /\ pc = "Unmap"
  /\ mapped' = FALSE /\ fdOpen' = FALSE /\ Return(0)
  /\ UNCHANGED <<inputs, call, span, calls>>

Step ==
  \/ MainRange \/ MainBatch \/ MainStd \/ RangeLoop \/ BatchLoop
  \/ Open \/ Mmap \/ Access \/ Unmap

Done == pc = "Exit" /\ UNCHANGED vars

Next == Step \/ Done

Spec == Init /\ [][Next]_vars

(* The program runs alone and every system call returns.                   *)
FairSpec == Spec /\ WF_vars(Step)

-----------------------------------------------------------------------------
(* Between two calls of access_memory, and at exit, /dev/mem is closed    *)
(* and the page unmapped: each of the four ways out of access_memory      *)
(* releases what it took.  In range and batch mode a leak would pile up   *)
(* over the loop.                                                          *)
ReleasedBetweenCalls ==
  pc \in {"Main", "RangeLoop", "BatchLoop", "Exit"} => ~fdOpen /\ ~mapped

(* An access stays inside the one page access_memory maps ("Map one       *)
(* page"): the Width[type] bytes at target & MAP_MASK end before MAP_SIZE. *)
AccessWithinMap == span \subseteq 0 .. MAP_SIZE - 1

(* Batch mode reads every address on its command line ("-b ADDR ADDR ...", *)
(* the usage's example): when every positional argument is a number, each *)
(* one is passed to access_memory with a valid access type.                *)
BatchReadsListed ==
  (pc = "Exit" /\ mode = "batch" /\ \A k \in DOMAIN args : args[k].lead = "digit")
    => \A k \in DOMAIN args :
         \E ty \in DOMAIN Width : <<ToOff(StrToUL(args[k])), ty>> \in calls

(* The range END lies at least one step below the largest off_t, so      *)
(* addr += step cannot overflow.                                           *)
EndBelowTop ==
  mode = "range" /\ Len(args) > 0 => ToOff(StrToUL(args[1])) <= OffMax - 4

(* devmem2 ends whenever its range, if any, ends below the top of off_t.  *)
TerminatesBelowTop == EndBelowTop => <>(pc = "Exit")

=============================================================================
