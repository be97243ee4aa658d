--------------------------- MODULE DevMem2Proofs ---------------------------
(***************************************************************************)
(* Proofs about devmem2 for every off_t width, page size and command line: *)
(* access_memory releases /dev/mem and its page on every way out.          *)
(***************************************************************************)
EXTENDS DevMem2, TLAPS

USE DevMemAssumption, PowerFacts

(* What access_memory holds at each of its steps: nothing on entry and    *)
(* outside it, the descriptor from open on, and the page from mmap until  *)
(* munmap.  ReleasedBetweenCalls alone is not inductive: it says nothing  *)
(* of Open .. Unmap, and the step out of each of them decides whether the *)
(* caller gets a descriptor or a page back.                                *)
Holds ==
  /\ pc \in {"Main", "RangeLoop", "BatchLoop", "Exit", "Open"}
       => ~fdOpen /\ ~mapped
  /\ pc = "Mmap" => fdOpen /\ ~mapped
  /\ pc \in {"Access", "Unmap"} => fdOpen /\ mapped

IInv == mode \in Modes /\ pc \in Pcs /\ Holds

(* Whatever access_memory returned, its caller's continuation goes back   *)
(* to a loop or exits.                                                     *)
LEMMA ReturnPc ==
  ASSUME mode \in Modes, NEW r, Return(r)
  PROVE  pc' \in {"RangeLoop", "BatchLoop", "Exit"}
BY DEF Return, ExitWith, Modes

LEMMA InitIInv == Init => IInv
BY DEF Init, IInv, Holds, Pcs

LEMMA NextIInv == IInv /\ [Next]_vars => IInv'
<1> SUFFICES ASSUME IInv, [Next]_vars PROVE IInv'
  OBVIOUS
<1>0. mode \in Modes
  BY DEF IInv
<1>1. CASE MainRange
  BY <1>1 DEF MainRange, ExitWith, IInv, Holds, Pcs, inputs
<1>2. CASE MainBatch
  BY <1>2 DEF MainBatch, ExitWith, IInv, Holds, Pcs, inputs
<1>3. CASE MainStd
  BY <1>3 DEF MainStd, ExitWith, CallAccess, IInv, Holds, Pcs, inputs
<1>4. CASE RangeLoop
  BY <1>4 DEF RangeLoop, ExitWith, CallAccess, IInv, Holds, Pcs, inputs
<1>5. CASE BatchLoop
  BY <1>5 DEF BatchLoop, ExitWith, CallAccess, IInv, Holds, Pcs, inputs
<1>6. CASE Open
  <2>1. CASE fdOpen' = TRUE /\ pc' = "Mmap"
    BY <1>6, <2>1 DEF Open, IInv, Holds, Pcs, inputs
  <2>2. CASE Return(-1) /\ UNCHANGED fdOpen
    BY <1>0, <1>6, <2>2, ReturnPc DEF Open, IInv, Holds, Pcs, inputs
  <2>. QED  BY <1>6, <2>1, <2>2 DEF Open
<1>7. CASE Mmap
  <2>1. CASE mapped' = TRUE /\ pc' = "Access" /\ UNCHANGED fdOpen
    BY <1>7, <2>1 DEF Mmap, IInv, Holds, Pcs, inputs
  <2>2. CASE fdOpen' = FALSE /\ Return(-1) /\ UNCHANGED mapped
    BY <1>0, <1>7, <2>2, ReturnPc DEF Mmap, IInv, Holds, Pcs, inputs
  <2>. QED  BY <1>7, <2>1, <2>2 DEF Mmap
<1>8. CASE Access
  <2>1. CASE atype \in DOMAIN Width
    BY <1>8, <2>1 DEF Access, IInv, Holds, Pcs, inputs
  <2>2. CASE atype \notin DOMAIN Width
    <3>1. mapped' = FALSE /\ fdOpen' = FALSE /\ Return(-1)
      BY <1>8, <2>2 DEF Access
    <3>. QED  BY <1>0, <1>8, <3>1, ReturnPc DEF Access, IInv, Holds, Pcs, inputs
  <2>. QED  BY <2>1, <2>2
<1>9. CASE Unmap
  BY <1>0, <1>9, ReturnPc DEF Unmap, IInv, Holds, Pcs, inputs
<1>10. CASE Done \/ UNCHANGED vars
  BY <1>10 DEF Done, IInv, Holds, Pcs, vars
<1>. QED  BY <1>1, <1>2, <1>3, <1>4, <1>5, <1>6, <1>7, <1>8, <1>9, <1>10
          DEF Next, Step

-----------------------------------------------------------------------------
(* Between two calls of access_memory and at exit, /dev/mem is closed and *)
(* no page is mapped: none of the four returns of access_memory leaks     *)
(* the descriptor or the mapping into the range or batch loop.             *)
THEOREM ReleasedBetweenCallsHolds == Spec => []ReleasedBetweenCalls
<1>1. IInv => ReleasedBetweenCalls
  BY DEF IInv, Holds, ReleasedBetweenCalls
<1>. QED  BY <1>1, InitIInv, NextIInv, PTL DEF Spec

-----------------------------------------------------------------------------
(* A batch-mode call of access_memory is for an argument on the command    *)
(* line: the loop's i is advanced only when that call returns, so it stays *)
(* within argc.  TypeOK alone is not inductive: the Return of a batch call *)
(* increments i.  Only range mode enters the range loop, whose calls     *)
(* leave i alone.                                                          *)
BatchIndex ==
  /\ mode = "batch" /\ pc \in {"Open", "Mmap", "Access", "Unmap"}
       => i <= Len(args)
  /\ pc = "RangeLoop" => mode = "range"

TInv == TypeOK /\ BatchIndex

(* The positional arguments form a sequence of at most MaxArgs tokens.   *)
LEMMA ArgsSeq ==
  ASSUME NEW a \in Args
  PROVE  a \in Seq(Tokens) /\ Len(a) \in 0 .. MaxArgs
<1>1. PICK n \in 0 .. MaxArgs : a \in [1 .. n -> Tokens]
  BY DEF Args
<1>2. QED
  BY <1>1

(* strtoul of a token is an unsigned long of AddrBits bits.                *)
LEMMA StrToULType ==
  ASSUME NEW t \in Tokens
  PROVE  StrToUL(t) \in 0 .. 2^AddrBits - 1
BY DEF Tokens, StrToUL

(* Converting an unsigned long to off_t lands in off_t's range.            *)
LEMMA ToOffType ==
  ASSUME NEW u \in 0 .. 2^AddrBits - 1
  PROVE  ToOff(u) \in Off
BY DEF ToOff, Off, OffMax

(* The access type main passes on is a known letter or the argument's.    *)
LEMMA TypeCharType ==
  ASSUME NEW t \in Tokens
  PROVE  TypeChar(t) \in {"b", "h", "w", "d", "digit"} \cup Letters
BY DEF TypeChar, Tokens

(* The bytes an access touches lie within the page and the seven after.   *)
LEMMA SpanType ==
  ASSUME NEW t \in Off, NEW ty \in DOMAIN Width
  PROVE  PageOffset(t) .. PageOffset(t) + Width[ty] - 1 \subseteq 0 .. MAP_SIZE + 6
BY DEF PageOffset, MAP_SIZE, Width, Off, OffMax

(* The caller's continuation keeps the loop variables and the exit code   *)
(* in their types, the wrap of addr += 4 included; in batch mode it only   *)
(* advances i past an argument that was there.                            *)
LEMMA ReturnType ==
  ASSUME mode \in Modes, addr \in Off, rend \in Off, i \in 1 .. MaxArgs + 1,
         code \in {0, 1}, Len(args) \in 0 .. MaxArgs,
         mode = "batch" => i <= Len(args),
         NEW r \in {-1, 0}, Return(r)
  PROVE  /\ addr' \in Off /\ rend' \in Off /\ i' \in 1 .. MaxArgs + 1
         /\ code' \in {0, 1} /\ pc' \in {"RangeLoop", "BatchLoop", "Exit"}
         /\ pc' = "RangeLoop" => mode = "range"
<1>1. CASE mode = "std"
  <2>1. ExitWith(IF r < 0 THEN 1 ELSE 0) /\ UNCHANGED loop
    BY <1>1 DEF Return
  <2>2. QED
    BY <2>1 DEF ExitWith, loop, Pcs
<1>2. CASE mode = "batch"
  <2>1. pc' = "BatchLoop" /\ i' = i + 1 /\ UNCHANGED <<addr, rend, code>>
    BY <1>2 DEF Return
  <2>2. QED
    BY <1>2, <2>1 DEF Pcs
<1>3. CASE mode = "range"
  <2>1. /\ UNCHANGED <<rend, i, code>>
        /\ IF addr + 4 <= OffMax
             THEN addr' = addr + 4 /\ pc' = "RangeLoop"
             ELSE \/ addr' = addr + 4 - 2^AddrBits /\ pc' = "RangeLoop"
                  \/ addr' = addr /\ pc' = "Exit"
    BY <1>3 DEF Return
  <2> DEFINE H == 2^(AddrBits - 1)
  <2>2. H \in Nat \ {0, 1} /\ 2^AddrBits = 2 * H /\ OffMax = H - 1
        /\ Off = -H .. H - 1
    BY PowerFacts DEF OffMax, Off
  <2>3. QED
    BY <1>3, <2>1, <2>2
<1>4. QED
  BY <1>1, <1>2, <1>3 DEF Modes

(* A call of access_memory records a well-typed target and access type.   *)
LEMMA CallType ==
  ASSUME TypeOK, NEW t \in Off,
         NEW ty \in {"b", "h", "w", "d", "digit"} \cup Letters,
         NEW w \in BOOLEAN, CallAccess(t, ty, w)
  PROVE  /\ target' \in Off /\ doWrite' \in BOOLEAN
         /\ atype' \in {"b", "h", "w", "d", "digit"} \cup Letters
         /\ calls' \subseteq Off \X ({"b", "h", "w", "d", "digit"} \cup Letters)
         /\ pc' = "Open"
BY DEF CallAccess, TypeOK

LEMMA InitTInv == Init => TInv
<1> SUFFICES ASSUME Init PROVE TInv
  OBVIOUS
<1>1. 0 \in Off
  BY PowerFacts DEF Off, OffMax
<1>a. 1 \in 1 .. MaxArgs + 1 /\ {} \subseteq 0 .. MAP_SIZE + 6
  BY DevMemAssumption
<1>2. TypeOK
  BY <1>1, <1>a, Zenon DEF Init, TypeOK, Pcs
<1>3. BatchIndex
  BY DEF Init, BatchIndex
<1>4. QED
  BY <1>2, <1>3 DEF TInv

(* Every step keeps TInv.                                                   *)
LEMMA NextTInv == TInv /\ [Next]_vars => TInv'
<1> SUFFICES ASSUME TypeOK, BatchIndex, [Next]_vars PROVE TypeOK' /\ BatchIndex'
  BY DEF TInv
<1> DEFINE Types == {"b", "h", "w", "d", "digit"} \cup Letters
<1>0. /\ args \in Seq(Tokens) /\ Len(args) \in 0 .. MaxArgs
      /\ \A k \in 1 .. Len(args) :
            ToOff(StrToUL(args[k])) \in Off /\ TypeChar(args[k]) \in Types
  <2>1. args \in Seq(Tokens) /\ Len(args) \in 0 .. MaxArgs
    BY ArgsSeq DEF TypeOK
  <2>2. QED
    BY <2>1, StrToULType, ToOffType, TypeCharType
<1>r. ASSUME pc \in {"Open", "Mmap", "Access", "Unmap"},
             NEW r \in {-1, 0}, Return(r)
      PROVE  /\ addr' \in Off /\ rend' \in Off /\ i' \in 1 .. MaxArgs + 1
             /\ code' \in {0, 1} /\ pc' \in {"RangeLoop", "BatchLoop", "Exit"}
             /\ pc' = "RangeLoop" => mode = "range"
  <2>1. mode = "batch" => i <= Len(args)
    BY <1>r DEF BatchIndex
  <2>2. QED
    BY <1>0, <1>r, <2>1, ReturnType DEF TypeOK
<1>1. CASE MainRange
  <2>1. ToOff(rstart) \in Off
    BY StrToULType, ToOffType DEF TypeOK, Tokens, StrToUL
  <2>2. QED
    BY <1>0, <1>1, <2>1 DEF MainRange, ExitWith, TypeOK, BatchIndex, Pcs,
                          inputs, call, loop
<1>2. CASE MainBatch
  BY <1>0, <1>2 DEF MainBatch, ExitWith, TypeOK, BatchIndex, Pcs, inputs,
                    loop
<1>3. CASE MainStd
  <2>1. CASE Len(args) = 0
    BY <1>3, <2>1 DEF MainStd, ExitWith, TypeOK, BatchIndex, Pcs, inputs,
                      call, loop
  <2>2. CASE Len(args) # 0
    <3> DEFINE ty == IF Len(args) >= 2 THEN TypeChar(args[2]) ELSE "w"
    <3>1. /\ CallAccess(ToOff(StrToUL(args[1])), ty, Len(args) >= 3)
          /\ UNCHANGED <<inputs, loop, fdOpen, mapped, span, code>>
      BY <1>3, <2>2 DEF MainStd
    <3>2. /\ ToOff(StrToUL(args[1])) \in Off /\ ty \in Types
          /\ (Len(args) >= 3) \in BOOLEAN
      BY <1>0, <2>2
    <3>3. /\ target' \in Off /\ doWrite' \in BOOLEAN /\ atype' \in Types
            /\ calls' \subseteq Off \X Types /\ pc' = "Open"
      BY <3>1, <3>2, CallType
    <3>4. mode = "std"
      BY <1>3 DEF MainStd
    <3>5. QED
      BY <3>1, <3>3, <3>4 DEF TypeOK, BatchIndex, Pcs, inputs, loop
  <2>3. QED
    BY <2>1, <2>2
<1>4. CASE RangeLoop
  <2>1. CASE addr <= rend
    <3>1. /\ CallAccess(addr, "w", FALSE)
          /\ UNCHANGED <<inputs, loop, fdOpen, mapped, span, code>>
      BY <1>4, <2>1 DEF RangeLoop
    <3>2. /\ target' \in Off /\ doWrite' \in BOOLEAN /\ atype' \in Types
            /\ calls' \subseteq Off \X Types /\ pc' = "Open"
      BY <3>1, CallType DEF TypeOK
    <3>3. mode = "range"
      BY <1>4 DEF RangeLoop, BatchIndex
    <3>4. QED
      BY <3>1, <3>2, <3>3 DEF TypeOK, BatchIndex, Pcs, inputs, loop
  <2>2. CASE ~(addr <= rend)
    BY <1>4, <2>2 DEF RangeLoop, ExitWith, TypeOK, BatchIndex, Pcs, inputs,
                      call, loop
  <2>3. QED
    BY <2>1, <2>2
<1>5. CASE BatchLoop
  <2>1. CASE i <= Len(args)
    <3>1. /\ CallAccess(ToOff(StrToUL(args[i])), atype, FALSE)
          /\ UNCHANGED <<inputs, loop, fdOpen, mapped, span, code>>
      BY <1>5, <2>1 DEF BatchLoop
    <3>2. ToOff(StrToUL(args[i])) \in Off
      BY <1>0, <2>1 DEF TypeOK
    <3>3. /\ target' \in Off /\ doWrite' \in BOOLEAN /\ atype' \in Types
            /\ calls' \subseteq Off \X Types /\ pc' = "Open"
      BY <3>1, <3>2, CallType DEF TypeOK
    <3>4. QED
      BY <2>1, <3>1, <3>3 DEF TypeOK, BatchIndex, Pcs, inputs, loop
  <2>2. CASE ~(i <= Len(args))
    BY <1>5, <2>2 DEF BatchLoop, ExitWith, TypeOK, BatchIndex, Pcs, inputs,
                      call, loop
  <2>3. QED
    BY <2>1, <2>2
<1>6. CASE Open
  <2>1. CASE fdOpen' = TRUE /\ pc' = "Mmap" /\ UNCHANGED <<loop, code>>
    BY <1>6, <2>1 DEF Open, TypeOK, BatchIndex, Pcs, inputs, call, loop
  <2>2. CASE Return(-1) /\ UNCHANGED fdOpen
    BY <1>6, <2>2, <1>r DEF Open, TypeOK, BatchIndex, Pcs, inputs, call
  <2>3. QED
    BY <1>6, <2>1, <2>2 DEF Open
<1>7. CASE Mmap
  <2>1. CASE mapped' = TRUE /\ pc' = "Access" /\ UNCHANGED <<fdOpen, loop, code>>
    BY <1>7, <2>1 DEF Mmap, TypeOK, BatchIndex, Pcs, inputs, call, loop
  <2>2. CASE fdOpen' = FALSE /\ Return(-1) /\ UNCHANGED mapped
    BY <1>7, <2>2, <1>r DEF Mmap, TypeOK, BatchIndex, Pcs, inputs, call
  <2>3. QED
    BY <1>7, <2>1, <2>2 DEF Mmap
<1>8. CASE Access
  <2>1. CASE atype \in DOMAIN Width
    BY <1>8, <2>1, SpanType DEF Access, TypeOK, BatchIndex, Pcs, inputs,
                               call, loop
  <2>2. CASE atype \notin DOMAIN Width
    BY <1>8, <2>2, <1>r DEF Access, TypeOK, BatchIndex, Pcs, inputs, call
  <2>3. QED
    BY <2>1, <2>2
<1>9. CASE Unmap
  BY <1>9, <1>r DEF Unmap, TypeOK, BatchIndex, Pcs, inputs, call
<1>10. CASE Done \/ UNCHANGED vars
  BY <1>10 DEF Done, TypeOK, BatchIndex, vars
<1>11. QED
  BY <1>1, <1>2, <1>3, <1>4, <1>5, <1>6, <1>7, <1>8, <1>9, <1>10
     DEF Next, Step

(* Every state devmem2 reaches is well typed, for every off_t width and   *)
(* page size: strtoul's value converted to off_t, the range loop's addr   *)
(* wrapped at the top of off_t, the bytes an access touches and the batch *)
(* index all stay within their ranges.                                     *)
THEOREM DevMemTypeCorrect == Spec => []TypeOK
<1>1. TInv => TypeOK
  BY DEF TInv
<1>2. QED
  BY <1>1, InitTInv, NextTInv, PTL DEF Spec

=============================================================================
