-------------------------- MODULE RigelArgPassing --------------------------
(***************************************************************************)
(* One call, from the caller's LowerCall to the callee reading its last    *)
(* argument.  The caller places every actual argument in A0..A7 or in a    *)
(* fixed object of its frame (RigelISelLowering.cpp LowerCall); the callee *)
(* independently decides where it will look for each one                  *)
(* (LowerFormalArguments), records placeholder offsets in                  *)
(* RigelFunctionInfo, and only after its frame is sized                    *)
(* (calculateFrameObjectOffsets, then adjustRigelStackFrame from           *)
(* emitPrologue) turns frame indices into offsets from SP or FP            *)
(* (eliminateFrameIndex, RigelRegisterInfo.cpp).  The two sides agree only *)
(* if all of these compute the same addresses; then the program runs: the  *)
(* caller stores and jumps, the callee's prologue moves SP, spills the     *)
(* unnamed argument registers of a variadic function, writes its locals   *)
(* and reads its arguments (named ones directly, unnamed ones by va_arg    *)
(* from the VASTART pointer).  It returns through one of its return        *)
(* blocks, each lowered by LowerReturn (values into V0/V1, an sret pointer *)
(* into V0), and the caller copies the results out (LowerCallResult).      *)
(*                                                                         *)
(* Memory is modelled as words (every access here is a 4-byte aligned      *)
(* word); addresses are absolute, with the caller's SP = FP = StackTop     *)
(* after its prologue.  Every argument is an i32-sized location (i8/i16    *)
(* are promoted by CC_Rigel), so only ordinals matter.                     *)
(***************************************************************************)
EXTENDS Integers, Sequences, FiniteSetsExt, TLC

CONSTANTS
  MaxArgs,      \* most actual arguments at a call site
  NamedCounts,  \* named-parameter counts a variadic callee may declare
  MaxLocals,    \* fixed-size locals (static allocas) of the callee
  AllocaSizes,  \* bytes the caller allocates dynamically before the call
  AllocaCalls,  \* kinds of call a caller makes after an alloca
  MaxRets,      \* most i32 values the callee returns
  MaxReturns,   \* most return blocks (return statements) of the callee
  SRetKinds     \* whether the callee returns a struct through a hidden pointer

ASSUME MaxArgs \in 0..12 /\ NamedCounts \subseteq 0..MaxArgs
ASSUME MaxLocals \in 0..3 /\ AllocaSizes \subseteq {4 * i : i \in 0..4}
ASSUME AllocaCalls \subseteq {"regs", "stack", "variadic"}
ASSUME MaxRets \in 0..2 /\ MaxReturns \in 1..3 /\ SRetKinds \subseteq BOOLEAN

Num_CC_Regs == 8        \* A0..A7: GPR[] of LowerFormalArguments
RegSize     == 4
StackAlign  == 4        \* FrameInfo(StackGrowsUp, 4, 0, 4)
ArgRegs     == 0..(Num_CC_Regs - 1)
NoReg       == -1       \* the "0" of ArgRegEnd: no register

\* The caller's SP (= its FP) once its own prologue has run; large enough
\* for the biggest callee frame and alloca below it.
StackTop == 64
Words    == {4 * i : i \in 0..((StackTop + 32 + 4 * MaxArgs) \div 4)}

\* Values: an argument's value is its ordinal plus 100; the rest mark who
\* wrote a word.
ArgValue(i) == 100 + i
RetValue(i) == 200 + i
Garbage     == 0
AllocaFill  == 1
LocalFill   == 2
SavedFP     == 3
SavedRA     == 4

\* A call to a variadic callee, a fixed-arity call with arguments in
\* memory, or one with all arguments in A0..A7.
CallKind(s) ==
  IF s.varArg THEN "variadic" ELSE IF s.n > Num_CC_Regs THEN "stack" ELSE "regs"

\* A call: n actual arguments of which the callee names k; the callee's
\* locals and whether it has a frame pointer or makes calls; the caller's
\* alloca (which forces its frame pointer: hasFP = hasVarSizedObjects or
\* -disable-fp-elim).
CallShapes ==
  {s \in [n: 0..MaxArgs, k: 0..MaxArgs, varArg: BOOLEAN, locals: 0..MaxLocals,
          calleeFP: BOOLEAN, calleeCalls: BOOLEAN, alloca: AllocaSizes,
          callerFP: BOOLEAN, nRet: 0..MaxRets, rets: 1..MaxReturns,
          sret: SRetKinds] :
     /\ s.k <= s.n
     /\ IF s.varArg THEN s.k \in NamedCounts ELSE s.k = s.n
     /\ s.alloca > 0 => s.callerFP /\ CallKind(s) \in AllocaCalls
     \* an sret function returns void; its hidden pointer is argument 0
     /\ s.sret => s.nRet = 0 /\ s.k >= 1}

(***************************************************************************)
(* CC_Rigel (generated into RigelGenCallingConv.inc from the target        *)
(* description): ordinal i goes to A<i> while registers last, then to the  *)
(* next 4-byte stack slot.                                                 *)
(***************************************************************************)
CC_Rigel(i) ==
  IF i < Num_CC_Regs THEN [loc |-> "reg", reg |-> i]
  ELSE [loc |-> "mem", memOffset |-> RegSize * (i - Num_CC_Regs)]

(***************************************************************************)
(* RetCC_Rigel (generated from the target description): the i-th returned *)
(* i32 goes to V<i>; there are two of them, V0 and V1.                    *)
(***************************************************************************)
RetRegs == 0..1         \* V0, V1
RetCC_Rigel(i) == i

\* LowerCallResult: the result values of the call, in the order of Ins,
\* are copied out of the registers RetCC_Rigel assigns them.
LowerCallResult(nRet) == [i \in 0..(nRet - 1) |-> RetCC_Rigel(i)]

\* 32 bytes of argument-register home area for a variadic call.
FirstStackArgLoc(varArg) == IF varArg THEN 32 ELSE 0

(***************************************************************************)
(* eliminateFrameIndex: the offset from the frame register of a frame      *)
(* index with object offset spOffset, in a frame of stackSize bytes, for   *)
(* an instruction whose immediate is imm.  A negative offset is a          *)
(* placeholder for "so far above the frame".                               *)
(***************************************************************************)
\* Mutant: the "+4" of "-(spOffset+4)" dropped.
EliminateOffsetNoBias(spOffset, stackSize, imm) ==
  (IF spOffset < 0 THEN stackSize + (-spOffset) ELSE spOffset) + imm

\* Mutant: the placeholder's magnitude subtracted from the frame size.
EliminateOffsetSignSlip(spOffset, stackSize, imm) ==
  (IF spOffset < 0 THEN stackSize - (-(spOffset + 4)) ELSE spOffset) + imm

EliminateOffset(spOffset, stackSize, imm) ==
  (IF spOffset < 0 THEN stackSize + (-(spOffset + 4)) ELSE spOffset) + imm

\* getFrameRegister: FP if the function has one, else SP.
FrameBase(hasFP, fp, sp) == IF hasFP THEN fp ELSE sp

(***************************************************************************)
(* LowerFormalArguments, in closed form over the ordinals of its loop.     *)
(***************************************************************************)
\* The fixed object of the i-th named argument passed in memory: fixed
\* objects are numbered -1, -2, ... in creation order.
StackArgFI(i) == -(i - Num_CC_Regs + 1)

\* ArgRegEnd after the loop: the register of the last named argument, or
\* none if there is none or it was passed in memory.
ArgRegEnd(k) ==
  IF k > 0 /\ CC_Rigel(k - 1).loc = "reg" THEN CC_Rigel(k - 1).reg ELSE NoReg

\* The argument registers a variadic function spills at entry.
VarArgSaveRegs(s) ==
  IF s.varArg /\ ArgRegEnd(s.k) # NoReg
  THEN (ArgRegEnd(s.k) + 1)..(Num_CC_Regs - 1) ELSE {}

\* Fixed object of the spill of register r (no named argument is in
\* memory when this loop runs, so these are the first fixed objects).
SaveFI(s, r) == -(r - ArgRegEnd(s.k))

\* Mutant: StackLoc starts one past ArgLocs.size().
SaveStackLocOffByOne(s, r) == s.k + (r - ArgRegEnd(s.k))

\* StackLoc of the loop: ArgLocs.size() for the first spilled register.
SaveStackLoc(s, r) == s.k + (r - ArgRegEnd(s.k) - 1)

(***************************************************************************)
(* State.                                                                  *)
(***************************************************************************)
VARIABLES
  shape,     \* the call being compiled and run
  pc,        \* [caller |-> step, callee |-> step]
  outArgs,   \* caller: ordinal -> register or offset of its fixed object
  mfi,       \* callee MachineFrameInfo: [objs: FI -> offset, stackSize]
  rfi,       \* callee RigelFunctionInfo
  callee,    \* callee: named ordinal -> register or FI; the spill stores
  resolved,  \* callee: FI -> offset from its frame register
  regs,      \* A0..A7
  mem,       \* word address -> value
  sp,        \* SP
  received,  \* callee: ordinal -> value it got for that argument
  resultLocs,\* caller: result ordinal -> V register it is copied out of
  liveOuts,  \* callee MachineRegisterInfo live-out physical registers
  retCode,   \* callee: per lowered return, V register -> what is copied in
  sretVReg,  \* callee: run-time value of SRetReturnReg
  vRegs,     \* V0, V1
  results    \* caller: result ordinal -> value it got

vars == <<shape, pc, outArgs, mfi, rfi, callee, resolved, regs, mem, sp,
          received, resultLocs, liveOuts, retCode, sretVReg, vRegs, results>>

\* The variables of the return path, left alone by the argument path.
retVars == <<resultLocs, liveOuts, retCode, sretVReg, vRegs, results>>

NoVReg  == 0    \* SRetReturnReg before one is created
SRetReg == 1    \* the virtual register createVirtualRegister hands out

Init ==
  /\ shape \in CallShapes
  \* static allocas get frame objects 0, 1, ... before lowering starts
  /\ mfi = [objs |-> [fi \in 0..(shape.locals - 1) |-> 0], stackSize |-> 0]
  /\ rfi = [loadArgs |-> {}, storeVarArgs |-> {}, varArgsFI |-> 0,
            fpOff |-> 0, raOff |-> 0, sretReturnReg |-> NoVReg]
  /\ pc = [caller |-> "LowerCall", callee |-> "LowerFormalArguments"]
  /\ outArgs = <<>>
  /\ callee = [args |-> <<>>, saves |-> {}]
  /\ resolved = <<>>
  /\ regs = [r \in ArgRegs |-> Garbage]
  /\ mem = [a \in Words |-> Garbage]
  /\ sp = StackTop
  /\ received = <<>>
  /\ resultLocs = <<>>
  /\ liveOuts = {}
  /\ retCode = << >>
  /\ sretVReg = Garbage
  /\ vRegs = [r \in RetRegs |-> Garbage]
  /\ results = <<>>

AlignUp(x, a) == ((x + a - 1) \div a) * a

\* Memory m after the writes W (a set of [a, v]) done together.
WriteAll(m, W) ==
  [a \in DOMAIN m |-> IF \E w \in W : w.a = a
                      THEN (CHOOSE w \in W : w.a = a).v ELSE m[a]]

Read(m, a) == IF a \in DOMAIN m THEN m[a] ELSE Garbage

\* LowerVASTART: va_start stores the address of frame object
\* VarArgsFrameIndex (base plus its resolved offset) as the va_list.  A
\* frame index that names no object gives no address.
NoAddr == -1
LowerVASTART(base, resolvedOffsets, varArgsFI) ==
  IF varArgsFI \in DOMAIN resolvedOffsets THEN base + resolvedOffsets[varArgsFI] ELSE NoAddr

\* The offsets RigelFunctionInfo recorded, as a function FI -> SPOffset.
RecordedOffsets(recs) ==
  [fi \in {e.fi : e \in recs} |-> (CHOOSE e \in recs : e.fi = fi).spOffset]

(***************************************************************************)
(* Compilation of the caller.                                              *)
(***************************************************************************)
\* LowerCall: an argument CC_Rigel puts in a register joins RegsToPass; any
\* other is stored through a new fixed object at FirstStackArgLoc +
\* LocMemOffset of the caller's frame.  (A variadic call also creates the
\* fixed object at 28 that makes PEI keep 0..31 free for the home area.)
LowerCall ==
  /\ pc.caller = "LowerCall"
  /\ outArgs' =
       [i \in 0..(shape.n - 1) |->
          IF CC_Rigel(i).loc = "reg"
          THEN [loc |-> "reg", reg |-> CC_Rigel(i).reg]
          ELSE [loc |-> "fi",
                offset |-> FirstStackArgLoc(shape.varArg) + CC_Rigel(i).memOffset]]
  /\ resultLocs' = LowerCallResult(shape.nRet)
  /\ pc' = [pc EXCEPT !.caller = "Compiled"]
  /\ UNCHANGED <<shape, mfi, rfi, callee, resolved, regs, mem, sp, received,
                 liveOuts, retCode, sretVReg, vRegs, results>>

(***************************************************************************)
(* Compilation of the callee.                                              *)
(***************************************************************************)
\* LowerFormalArguments: a named argument in a register is a live-in; one
\* in memory gets a fixed object at dummy offset 0 and a recordLoadArgsFI
\* placeholder -(ArgSize + FirstStackArgLoc + LocMemOffset).  A variadic
\* function whose last named argument is in a register then spills each
\* later argument register to a new fixed object, recorded with
\* -(4 + StackLoc*4), and VarArgsFrameIndex becomes the first of these.
LowerFormalArguments ==
  /\ pc.callee = "LowerFormalArguments"
  /\ LET s      == shape
         named  == 0..(s.k - 1)
         inMem  == {i \in named : CC_Rigel(i).loc = "mem"}
         saves  == VarArgSaveRegs(s)
         newFIs == {StackArgFI(i) : i \in inMem} \cup {SaveFI(s, r) : r \in saves}
     IN /\ callee' =
             [args  |-> [i \in named |->
                          IF CC_Rigel(i).loc = "reg"
                          THEN [loc |-> "reg", reg |-> CC_Rigel(i).reg]
                          ELSE [loc |-> "fi", fi |-> StackArgFI(i)]],
              saves |-> {[reg |-> r, fi |-> SaveFI(s, r)] : r \in saves}]
        /\ mfi' = [mfi EXCEPT !.objs = mfi.objs @@ [fi \in newFIs |-> 0]]
        /\ rfi' = [rfi EXCEPT
                     !.loadArgs =
                        {[fi |-> StackArgFI(i),
                          spOffset |-> -(RegSize + FirstStackArgLoc(s.varArg)
                                         + CC_Rigel(i).memOffset)] : i \in inMem},
                     !.storeVarArgs =
                        {[fi |-> SaveFI(s, r),
                          spOffset |-> -(4 + SaveStackLoc(s, r) * 4)] : r \in saves},
                     !.varArgsFI =
                        IF saves = {} THEN 0 ELSE SaveFI(s, Min(saves)),
                     !.sretReturnReg =
                        IF s.sret /\ @ = NoVReg THEN SRetReg ELSE @]
  /\ pc' = [pc EXCEPT !.callee = "LowerReturn"]
  /\ UNCHANGED <<shape, outArgs, resolved, regs, mem, sp, received, retVars>>

\* LowerReturn, once per return block, in block order.  The values go to
\* the V registers RetCC_Rigel assigns; those registers become the
\* function's live-outs only if the live-out set is still empty.  An sret
\* function then also copies SRetReturnReg into V0 (asserting that the
\* entry block created it).  What is copied is recorded per return:
\* V register -> ordinal of the returned value, or SRetSrc.
SRetSrc == -1
RetCopies(s) ==
  [r \in {RetCC_Rigel(i) : i \in 0..(s.nRet - 1)} |-> r]
    @@ (IF s.sret THEN (0 :> SRetSrc) ELSE << >>)

\* Mutant: the sret copy emitted only with the first return lowered, as if
\* it sat inside the liveout_empty() block.
LowerReturnFirstOnly ==
  /\ pc.callee = "LowerReturn"
  /\ shape.sret => rfi.sretReturnReg # NoVReg
  /\ LET RVLocs == {RetCC_Rigel(i) : i \in 0..(shape.nRet - 1)}
         copies == IF retCode = << >> THEN RetCopies(shape)
                   ELSE [r \in RVLocs |-> r]
     IN /\ liveOuts' = IF liveOuts = {} THEN RVLocs ELSE liveOuts
        /\ retCode' = Append(retCode, copies)
  /\ pc' = [pc EXCEPT !.callee = IF Len(retCode') = shape.rets
                                 THEN "CalculateFrameObjectOffsets" ELSE @]
  /\ UNCHANGED <<shape, outArgs, mfi, rfi, callee, resolved, regs, mem, sp,
                 received, resultLocs, sretVReg, vRegs, results>>

LowerReturn ==
  /\ pc.callee = "LowerReturn"
  /\ shape.sret => rfi.sretReturnReg # NoVReg
  /\ LET RVLocs == {RetCC_Rigel(i) : i \in 0..(shape.nRet - 1)}
     IN /\ liveOuts' = IF liveOuts = {} THEN RVLocs ELSE liveOuts
        /\ retCode' = Append(retCode, RetCopies(shape))
  /\ pc' = [pc EXCEPT !.callee = IF Len(retCode') = shape.rets
                                 THEN "CalculateFrameObjectOffsets" ELSE @]
  /\ UNCHANGED <<shape, outArgs, mfi, rfi, callee, resolved, regs, mem, sp,
                 received, resultLocs, sretVReg, vRegs, results>>

\* PEI::calculateFrameObjectOffsets (generic CodeGen) on a stack growing
\* up: the locals start past the highest end of any fixed object (4, from
\* the dummy offset 0 the callee's fixed objects were given) and follow
\* one another in index order; the frame ends with the last of them.
CalculateFrameObjectOffsets ==
  /\ pc.callee = "CalculateFrameObjectOffsets"
  /\ LET objs  == mfi.objs
         start == Max({0} \cup {objs[fi] + RegSize : fi \in {f \in DOMAIN objs : f < 0}})
     IN mfi' = [objs |-> [fi \in DOMAIN objs |->
                            IF fi < 0 THEN objs[fi] ELSE start + RegSize * fi],
                stackSize |-> AlignUp(start + RegSize * shape.locals, StackAlign)]
  /\ pc' = [pc EXCEPT !.callee = "EmitPrologue"]
  /\ UNCHANGED <<shape, outArgs, rfi, callee, resolved, regs, mem, sp, received, retVars>>

\* adjustRigelStackFrame, as emitPrologue calls it: the recorded negative
\* placeholders replace the dummy offsets, then an FP slot (if hasFP) and
\* an RA slot (if hasCalls) are added at the end of the frame, which is
\* aligned to StackAlign.
AdjustRigelStackFrame ==
  /\ pc.callee = "EmitPrologue"
  /\ LET s      == shape
         nextFI == shape.locals
         off0   == mfi.stackSize
         off1   == IF s.calleeFP THEN off0 + RegSize ELSE off0
         off2   == IF s.calleeCalls THEN off1 + RegSize ELSE off1
         fpObj  == IF s.calleeFP THEN (nextFI :> off0) ELSE <<>>
         raObj  == IF s.calleeCalls
                   THEN ((IF s.calleeFP THEN nextFI + 1 ELSE nextFI) :> off1)
                   ELSE <<>>
     IN /\ mfi' = [objs |-> RecordedOffsets(rfi.loadArgs \cup rfi.storeVarArgs)
                            @@ mfi.objs @@ fpObj @@ raObj,
                   stackSize |-> AlignUp(off2, StackAlign)]
        /\ rfi' = [rfi EXCEPT !.fpOff = IF s.calleeFP THEN off0 ELSE @,
                              !.raOff = IF s.calleeCalls THEN off1 ELSE @]
  /\ pc' = [pc EXCEPT !.callee = "ReplaceFrameIndices"]
  /\ UNCHANGED <<shape, outArgs, callee, resolved, regs, mem, sp, received, retVars>>

\* eliminateFrameIndex on every instruction naming a frame index (all of
\* them use it as an address with immediate 0; the offsets here fit the
\* 16-bit field, the other path is RigelFrame's).
ReplaceFrameIndices ==
  /\ pc.callee = "ReplaceFrameIndices"
  /\ resolved' = [fi \in DOMAIN mfi.objs |->
                    EliminateOffset(mfi.objs[fi], mfi.stackSize, 0)]
  /\ pc' = [pc EXCEPT !.callee = "Compiled"]
  /\ UNCHANGED <<shape, outArgs, mfi, rfi, callee, regs, mem, sp, received, retVars>>

(***************************************************************************)
(* Execution.                                                              *)
(***************************************************************************)
\* The caller's alloca before the call: DYNAMIC_STACKALLOC is expanded to
\* SP := SP - size, the new SP being the buffer, which the caller fills.
CallerAllocates ==
  /\ pc.caller = "Compiled"
  /\ shape.alloca > 0
  /\ sp' = sp - shape.alloca
  /\ mem' = WriteAll(mem, {[a |-> x, v |-> AllocaFill] : x \in {w \in Words : sp' <= w /\ w < sp}})
  /\ pc' = [pc EXCEPT !.caller = "Allocated"]
  /\ UNCHANGED <<shape, outArgs, mfi, rfi, callee, resolved, regs, received, retVars>>

\* The lowered call site: the argument stores (through the caller's frame
\* register: a non-negative object offset is used as is), the copies to
\* A0..A7, and JmpLink.
CallSite ==
  /\ pc.caller = IF shape.alloca > 0 THEN "Allocated" ELSE "Compiled"
  /\ pc.callee = "Compiled"
  /\ LET base == FrameBase(shape.callerFP, StackTop, sp)
         dom  == DOMAIN outArgs
     IN /\ mem' = WriteAll(mem, {[a |-> base + outArgs[i].offset, v |-> ArgValue(i)] :
                                   i \in {j \in dom : outArgs[j].loc = "fi"}})
        /\ regs' = [r \in ArgRegs |->
                      IF \E i \in dom : outArgs[i].loc = "reg" /\ outArgs[i].reg = r
                      THEN ArgValue(CHOOSE i \in dom : outArgs[i].loc = "reg"
                                                       /\ outArgs[i].reg = r)
                      ELSE regs[r]]
  /\ pc' = [pc EXCEPT !.caller = "Called"]
  /\ UNCHANGED <<shape, outArgs, mfi, rfi, callee, resolved, sp, received, retVars>>

\* The callee runs: prologue (SP -= StackSize, sw RA, sw FP, FP := SP), the
\* spills of the unnamed argument registers, the stores to its locals,
\* then it reads every argument: named ones from their live-in register or
\* frame index, unnamed ones by va_arg from the VASTART pointer (the
\* address of VarArgsFrameIndex) in steps of 4.  A VarArgsFrameIndex that
\* is no object of the frame gives an undefined pointer.
CalleeRuns ==
  /\ pc.caller = "Called"
  /\ pc.callee = "Compiled"
  /\ LET s     == shape
         newSP == sp - mfi.stackSize
         at(fi) == newSP + resolved[fi]
         m1 == IF s.calleeCalls
               THEN WriteAll(mem, {[a |-> newSP + rfi.raOff, v |-> SavedRA]}) ELSE mem
         m2 == IF s.calleeFP
               THEN WriteAll(m1, {[a |-> newSP + rfi.fpOff, v |-> SavedFP]}) ELSE m1
         m3 == WriteAll(m2, {[a |-> at(e.fi), v |-> regs[e.reg]] : e \in callee.saves})
         m4 == WriteAll(m3, {[a |-> at(fi), v |-> LocalFill] : fi \in 0..(s.locals - 1)})
         arg(i) == IF callee.args[i].loc = "reg" THEN regs[callee.args[i].reg]
                   ELSE Read(m4, at(callee.args[i].fi))
         vaList == LowerVASTART(newSP, resolved, rfi.varArgsFI)
         vaArg(j) == IF vaList = NoAddr THEN Garbage
                     ELSE Read(m4, vaList + 4 * (j - s.k))
     IN /\ mem' = m4
        /\ sp' = newSP
        /\ received' = [i \in 0..(s.n - 1) |-> IF i < s.k THEN arg(i) ELSE vaArg(i)]
        \* the entry block's CopyToReg(SRetReturnReg, InVals[0])
        /\ sretVReg' = IF rfi.sretReturnReg # NoVReg THEN arg(0) ELSE sretVReg
  /\ pc' = [pc EXCEPT !.callee = "Ran"]
  /\ UNCHANGED <<shape, outArgs, mfi, rfi, callee, resolved, regs,
                 resultLocs, liveOuts, retCode, vRegs, results>>

\* The callee leaves through one of its returns: the copies lowered for
\* that return fill the V registers (the returned values, or the sret
\* pointer from SRetReturnReg), the epilogue gives the caller its SP back,
\* and jmpr $ra.
CalleeReturns(b) ==
  /\ pc.callee = "Ran"
  /\ vRegs' = [r \in RetRegs |->
                 IF r \notin DOMAIN retCode[b] THEN vRegs[r]
                 ELSE IF retCode[b][r] = SRetSrc THEN sretVReg
                 ELSE RetValue(retCode[b][r])]
  /\ sp' = sp + mfi.stackSize
  /\ pc' = [pc EXCEPT !.callee = "Returned"]
  /\ UNCHANGED <<shape, outArgs, mfi, rfi, callee, resolved, regs, mem,
                 received, resultLocs, liveOuts, retCode, sretVReg, results>>

\* After the call the caller runs LowerCallResult's copies out of the V
\* registers.
CallerReadsResults ==
  /\ pc.caller = "Called"
  /\ pc.callee = "Returned"
  /\ results' = [i \in DOMAIN resultLocs |-> vRegs[resultLocs[i]]]
  /\ pc' = [pc EXCEPT !.caller = "Returned"]
  /\ UNCHANGED <<shape, outArgs, mfi, rfi, callee, resolved, regs, mem, sp,
                 received, resultLocs, liveOuts, retCode, sretVReg, vRegs>>

Next ==
  \/ LowerCall
  \/ LowerFormalArguments
  \/ LowerReturn
  \/ CalculateFrameObjectOffsets
  \/ AdjustRigelStackFrame
  \/ ReplaceFrameIndices
  \/ CallerAllocates
  \/ CallSite
  \/ CalleeRuns
  \/ \E b \in 1..Len(retCode) : CalleeReturns(b)
  \/ CallerReadsResults

Spec == Init /\ [][Next]_vars

(***************************************************************************)
(* Properties.                                                             *)
(***************************************************************************)
\* The frame indices the callee's instructions name (stack arguments,
\* spill slots, VASTART's VarArgsFrameIndex) are objects of its frame.
FrameIndicesValid ==
  pc.callee \notin {"LowerFormalArguments"} =>
    /\ {callee.args[i].fi : i \in {j \in DOMAIN callee.args : callee.args[j].loc = "fi"}}
         \subseteq DOMAIN mfi.objs
    /\ {e.fi : e \in callee.saves} \subseteq DOMAIN mfi.objs
    /\ (callee.saves # {} \/ (shape.varArg /\ shape.k < shape.n))
         => rfi.varArgsFI \in DOMAIN mfi.objs

\* The state's types; every frame index names an object, and every
\* resolved offset is non-negative.
TypeOK ==
  /\ shape \in CallShapes
  /\ pc.caller \in {"LowerCall", "Compiled", "Allocated", "Called", "Returned"}
  /\ pc.callee \in {"LowerFormalArguments", "LowerReturn",
                    "CalculateFrameObjectOffsets", "EmitPrologue",
                    "ReplaceFrameIndices", "Compiled", "Ran", "Returned"}
  /\ liveOuts \subseteq RetRegs /\ vRegs \in [RetRegs -> Int]
  /\ mem \in [Words -> Int]
  /\ sp \in Int
  /\ FrameIndicesValid
  \* eliminateFrameIndex yields a true non-negative offset from the frame
  \* register (spec 4.4), never one below SP
  /\ \A fi \in DOMAIN resolved : resolved[fi] >= 0

\* Whatever the number of arguments, named or not, and whatever the
\* callee's frame, the callee gets every argument the caller passed: the
\* caller's LowerCall, the callee's LowerFormalArguments, its frame sizing
\* and eliminateFrameIndex agree on every location.
ArgsReceivedAsPassed ==
  pc.callee \in {"Ran", "Returned"} =>
    \A i \in 0..(shape.n - 1) : received[i] = ArgValue(i)

\* The callee writes only inside its own frame (below the SP it was
\* called with) and, if variadic, the 32-byte home area the caller
\* reserved at its frame register for the argument registers.
CalleeWritesOnlyItsFrame ==
  [][pc.callee = "Compiled" /\ pc'.callee = "Ran" =>
       LET callerBase == FrameBase(shape.callerFP, StackTop, sp)
           home == IF shape.varArg THEN {a \in Words : callerBase <= a /\ a < callerBase + 32}
                   ELSE {}
       IN \A a \in Words : mem'[a] # mem[a] => (sp' <= a /\ a < sp) \/ a \in home]_vars
\* Whichever return the callee leaves by, the caller gets back every value
\* it returned, from the V register LowerCallResult reads it from, and an
\* sret function hands back in V0 the struct pointer the caller passed as
\* argument 0: SRetReturnReg is created once at entry and copied into V0
\* before every return (spec 4.2, struct-by-value return).
ResultsReceivedAsReturned ==
  /\ pc.caller = "Returned" =>
       \A i \in 0..(shape.nRet - 1) : results[i] = RetValue(i)
  /\ pc.callee = "Returned" /\ shape.sret => vRegs[0] = ArgValue(0)

\* Every physical register a lowered return writes is a live-out of the
\* function, so liveness after instruction selection keeps the copy up to
\* the return ("add the regs to the liveout set for the function").
ReturnRegsLiveOut ==
  \A b \in 1..Len(retCode) : DOMAIN retCode[b] \subseteq liveOuts

====
