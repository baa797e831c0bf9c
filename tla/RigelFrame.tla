----------------------------- MODULE RigelFrame -----------------------------
(***************************************************************************)
(* Frame finalisation and the code that depends on it, from               *)
(* RigelRegisterInfo.cpp: adjustRigelStackFrame, emitPrologue,            *)
(* emitEpilogue and eliminateFrameIndex.  The spill and reload            *)
(* instructions, and the hooks that generic passes use to recognise and   *)
(* forward them, come from RigelInstrInfo.cpp.  The printing of           *)
(* immediates comes from RigelAsmPrinter.cpp.                             *)
(*                                                                         *)
(* One function is rewritten by the spill clients, compiled in PEI's      *)
(* order and then run on a machine with                                    *)
(* the registers ZERO, AT, SP, FP and RA.  The function stores a value to *)
(* each of its locals.  It may do an alloca and fill the buffer, and it   *)
(* may call a function, and it may use callee-saved registers, which     *)
(* PEI saves on entry and restores before the return.  It then reloads    *)
(* everything and returns.                                                 *)
(*                                                                         *)
(* The immediate field is ImmBits wide and the word is 2*ImmBits wide.    *)
(* The code has 16 and 32.  With the smaller field, frames whose offsets  *)
(* do not fit it are small enough to enumerate.                           *)
(***************************************************************************)
EXTENDS Integers, SequencesExt, Bitwise

CONSTANTS
  ImmBits,      \* width of the immediate field (16 in the code)
  MaxLocals,    \* most 4-byte locals a function has
  MaxLocalsFP,  \* most words below the FP slot of a function with a frame pointer
  AllocaSizes,  \* byte sizes of the function's one alloca (0: none)
  CalleeFrame,  \* bytes a called function uses below its caller's SP
  PairKinds,    \* whether the function has a two-word local object
  CSRCounts     \* how many of S0, S1, ... the function's body uses

ASSUME ImmBits \in 4..5 /\ MaxLocals \in 0..3 /\ MaxLocalsFP \in 0..MaxLocals
ASSUME AllocaSizes \subseteq {0, 4, 8} /\ CalleeFrame \in {0, 4, 8}
ASSUME PairKinds \subseteq BOOLEAN /\ CSRCounts \subseteq 0..2

WordMod == 2^(2 * ImmBits)
RegSize == 4
StackAlign == 4
NoReg == -1
NoFI == -1

\* Register numbers.  V(i) holds the value stored to local i.  L(i)
\* receives local i when it is reloaded.  AV holds the value stored into
\* the alloca buffer, and AL(j) receives word j of the buffer.  TMP is a
\* scratch register, and PW receives word 0 of the two-word object.
\* S(i) is the callee-saved register Si.
ZERO == 0
AT == 1
SP == 2
FP == 3
RA == 4
AV == 5
TMP == 6
PW == 7
V(i) == 10 + i
L(i) == 20 + i
AL(j) == 30 + j
S(i) == 40 + i
Regs == {ZERO, AT, SP, FP, RA, AV, TMP, PW} \cup {V(i) : i \in 0..2} \cup {L(i) : i \in 0..2}
          \cup {AL(j) : j \in 0..1} \cup {S(i) : i \in 0..1}

\* getRegisterNumbering: the hardware number of each register the frame
\* code names.
RegisterNumbering(r) ==
  CASE r = ZERO -> 0 [] r = AT -> 1 [] r = SP -> 29 [] r = FP -> 30 [] r = RA -> 31
    [] r \in {S(i) : i \in 0..1} -> 18 + (r - S(0))
Addrs == {4 * k : k \in 0..(WordMod \div 4 - 1)}

\* The values the run uses, all different so a wrong word is seen.
SP0 == WordMod \div 2
CallerFP == 200
CallerRA == 44
ReturnInBody == 48
CalleeJunk == 77
AllocaVal == 99
LocalVal(i) == 100 + i
CSRVal(i) == 60 + i
CSRClobber == 5

(***************************************************************************)
(* The function being compiled.  hasFP is NoFramePointerElim or a         *)
(* variable-sized object (RigelRegisterInfo::hasFP).  A function with     *)
(* calls adjusts the stack.  A function with a pair has one more local   *)
(* object, of two words, after the 4-byte locals.                         *)
(***************************************************************************)
FrameWords(s) == s.locals + (IF s.pair THEN 2 ELSE 0)

Shapes ==
  { s \in [locals : 0..MaxLocals, noFPElim : BOOLEAN, calls : BOOLEAN,
           alloca : AllocaSizes, pair : PairKinds, csr : CSRCounts] :
      /\ FrameWords(s) <= MaxLocals
      /\ (s.noFPElim \/ s.alloca > 0) => FrameWords(s) + s.csr <= MaxLocalsFP }

\* The frame index of the two-word object, and the number of local objects.
PairObj(s) == s.locals
NumLocalObjs(s) == s.locals + (IF s.pair THEN 1 ELSE 0)

\* calculateCalleeSavedRegisters (generic PEI) walks getCalleeSavedRegs,
\* S0..S7 in that order, and keeps those the function uses.  It creates a
\* stack object for each, after the local objects.
CalleeSavedInfo(s) == [i \in 1..s.csr |-> S(i - 1)]
CSFI(s, i) == NumLocalObjs(s) + i

HasFP(s) == s.noFPElim \/ s.alloca > 0

\* getFrameRegister: FP if the function has one, else SP.
FrameRegister(s) == IF HasFP(s) THEN FP ELSE SP

(***************************************************************************)
(* Immediates.  isInt<16> is IsIntImm.  RigelAsmPrinter::printOperand      *)
(* prints the immediate of ORi, ANDi, XORi and MVUi as (unsigned short)   *)
(* and every other one as (short).  A value that does not fit is silently *)
(* truncated to the field, and the assembler receives the truncated one.  *)
(***************************************************************************)
\* Mutant: isInt<16> taken as x <= 2^15, one too many.
IsIntImmOffByOne(x) == -(2^(ImmBits - 1)) <= x /\ x <= 2^(ImmBits - 1)
IsIntImm(x) == -(2^(ImmBits - 1)) <= x /\ x < 2^(ImmBits - 1)
UnsignedField(x) == x % 2^ImmBits
SignedField(x) ==
  LET t == x % 2^ImmBits IN IF t >= 2^(ImmBits - 1) THEN t - 2^ImmBits ELSE t
PrintedImm(op, x) ==
  IF op \in {"ORi", "ANDi", "XORi", "MVUi"} THEN UnsignedField(x) ELSE SignedField(x)

(***************************************************************************)
(* The .mask and .fmask directives RigelAsmPrinter prints at the start of *)
(* the function body.  A bitmask is the set of its bit numbers (|= is     *)
(* union), so 1 << 31 for RA needs no 32-bit arithmetic.  Every register *)
(* of CSI is in CPURegs, so the FPU mask is empty.                         *)
(***************************************************************************)
\* printSavedRegsBitmask: the CPU mask holds every CSI register, the frame
\* register if hasFP and RA if the function has calls; the offsets are
\* CPUTopSavedRegOff and FPUTopSavedRegOff.
PrintSavedRegsBitmask(s, f) ==
  LET CSI == CalleeSavedInfo(s)
  IN [cpu |-> {RegisterNumbering(CSI[i]) : i \in DOMAIN CSI}
                \cup (IF HasFP(s) THEN {RegisterNumbering(FrameRegister(s))} ELSE {})
                \cup (IF s.calls THEN {RegisterNumbering(RA)} ELSE {}),
      cpuOff |-> f.cpuTopOff,
      fpu |-> {},
      fpuOff |-> f.fpuTopOff]

\* printHex32: the eight hex digits of the mask, the most significant
\* first; digit i is (Value & (0xF << i*4)) >> (i*4).
PrintHex32(bits) ==
  LET Bit(b) == IF b \in bits THEN 1 ELSE 0
  IN [d \in 1..8 |-> LET i == 8 - d
                    IN Bit(4 * i) + 2 * Bit(4 * i + 1) + 4 * Bit(4 * i + 2) + 8 * Bit(4 * i + 3)]

\* Machine instructions.  SW rt, imm(rs) and LW rd, imm(rs).  A frame-index
\* operand has rs = NoReg and fi the index.
Op(op, rd, rs, rt, imm) ==
  [op |-> op, rd |-> rd, rs |-> rs, rt |-> rt, imm |-> imm, fi |-> NoFI]
ADDi(rd, rs, imm) == Op("ADDi", rd, rs, NoReg, imm)
ADD(rd, rs, rt)   == Op("ADD", rd, rs, rt, 0)
SUB(rd, rs, rt)   == Op("SUB", rd, rs, rt, 0)
OR(rd, rs, rt)    == Op("OR", rd, rs, rt, 0)
MVUi(rd, imm)     == Op("MVUi", rd, NoReg, NoReg, imm)
ORi(rd, rs, imm)  == Op("ORi", rd, rs, NoReg, imm)
SW(rt, imm, base) == Op("SW", NoReg, base, rt, imm)
LW(rd, imm, base) == Op("LW", rd, base, NoReg, imm)

\* An access imm(FI): the frame index in place of the base register.
AtFI(mi, fi) == [mi EXCEPT !.fi = fi]

\* RigelInstrInfo::storeRegToStackSlot and loadRegFromStackSlot:
\* SW SrcReg, 0(FI) and LW DestReg, 0(FI).
StoreRegToStackSlot(src, fi) == AtFI(SW(src, 0, NoReg), fi)
LoadRegFromStackSlot(dst, fi) == AtFI(LW(dst, 0, NoReg), fi)

\* RigelInstrInfo::copyPhysReg: OR DestReg, ZERO, SrcReg.
CopyPhysReg(dst, src) == OR(dst, ZERO, src)

\* What isLoadFromStackSlot and isStoreToStackSlot return: the register
\* and the frame index, or NoSlot (the code's 0) for any other instruction.
NoSlot == [reg |-> NoReg, fi |-> NoFI]

IsZeroImm(mi) == mi.imm = 0

\* isLoadFromStackSlot: an LW or LWFP from 0(FI) loads slot FI into its
\* destination.
IsLoadFromStackSlot(mi) ==
  IF mi.op \in {"LW", "LWFP"} /\ mi.fi # NoFI /\ IsZeroImm(mi)
  THEN [reg |-> mi.rd, fi |-> mi.fi] ELSE NoSlot

\* isStoreToStackSlot: an SW or SWFP to 0(FI) stores its source register
\* to slot FI.
IsStoreToStackSlot(mi) ==
  IF mi.op \in {"SW", "SWFP"} /\ mi.fi # NoFI /\ IsZeroImm(mi)
  THEN [reg |-> mi.rt, fi |-> mi.fi] ELSE NoSlot

\* The MVUi/ORi pair that puts a value too large for the field into a
\* register: MVUi r, x >> 16 then ORi r, r, x & 0xFFFF.
Materialize(r, x) == << MVUi(r, x \div 2^ImmBits), ORi(r, r, x % 2^ImmBits) >>

(***************************************************************************)
(* The body of the function before frame indices are eliminated.  It does *)
(* the alloca (DYNAMIC_STACKALLOC, expanded to SP -= size) and fills the  *)
(* buffer.  It spills each value to its local, calls, overwrites the     *)
(* callee-saved registers it uses, and reloads every local and every      *)
(* buffer word.                                                            *)
(***************************************************************************)
BodyCode(s) ==
  LET words == s.alloca \div 4
      allocate == IF s.alloca > 0 THEN << Op("ALLOCA", SP, SP, NoReg, s.alloca) >>
                  ELSE << >>
      fill == [j \in 1..words |-> SW(AV, 4 * (j - 1), SP)]
      P == PairObj(s)
      copy == IF s.pair
              THEN << AtFI(SW(AV, 4, NoReg), P), AtFI(LW(TMP, 4, NoReg), P),
                      AtFI(SW(TMP, 0, NoReg), P) >>
              ELSE << >>
      spills == [i \in 1..s.locals |-> StoreRegToStackSlot(V(i - 1), i - 1)]
      call == IF s.calls THEN << Op("JAL", RA, NoReg, NoReg, 0) >> ELSE << >>
      clobber == [i \in 1..s.csr |-> ADDi(S(i - 1), ZERO, CSRClobber)]
      reloads == FlattenSeq([i \in 1..s.locals |->
                   << LoadRegFromStackSlot(L(i - 1), i - 1),
                      StoreRegToStackSlot(L(i - 1), i - 1) >>])
      pairReread == IF s.pair THEN << AtFI(LW(PW, 0, NoReg), P) >> ELSE << >>
      reread == [j \in 1..words |-> LW(AL(j - 1), 4 * (j - 1), SP)]
  IN allocate \o fill \o copy \o spills \o call \o clobber \o reloads \o pairReread \o reread

\* The registers an instruction reads, and those the run observes at the
\* end of the body.
Reads(mi) == {mi.rs, mi.rt} \ {NoReg}
ObservedRegs == {L(i) : i \in 0..2} \cup {AL(j) : j \in 0..1} \cup {PW, SP, FP, RA}

\* The kill flag of a use of r at position k: no later instruction reads r
\* and the value is not live out of the body.
KillsAt(code, k, r) ==
  r \notin ObservedRegs /\ \A j \in (k + 1)..Len(code) : r \notin Reads(code[j])

(***************************************************************************)
(* The generic clients of the hooks above, which run after register       *)
(* allocation and before PEI.                                              *)
(***************************************************************************)
\* The spill rewriter reuses a value that is still in a register: a reload
\* right after a store to the same slot becomes copyPhysReg from the
\* stored register.
ForwardStoredReloads(code) ==
  [k \in 1..Len(code) |->
     IF k = 1 THEN code[k]
     ELSE LET st == IsStoreToStackSlot(code[k - 1])
              ld == IsLoadFromStackSlot(code[k])
          IN IF st # NoSlot /\ ld # NoSlot /\ st.fi = ld.fi
             THEN CopyPhysReg(ld.reg, st.reg) ELSE code[k]]

\* StackSlotColoring::RemoveDeadStores: a store of the register just loaded
\* from the same slot is deleted, and so is the load if the store kills
\* the register.
RemoveDeadStores(code) ==
  LET DeadStore(k) ==
        /\ k > 1
        /\ LET ld == IsLoadFromStackSlot(code[k - 1])
               st == IsStoreToStackSlot(code[k])
           IN ld # NoSlot /\ st # NoSlot /\ ld.fi = st.fi /\ ld.reg = st.reg
      DeadLoad(k) ==
        /\ k < Len(code)
        /\ DeadStore(k + 1)
        /\ KillsAt(code, k + 1, code[k].rd)
  IN FlattenSeq([k \in 1..Len(code) |->
                   IF DeadStore(k) \/ DeadLoad(k) THEN << >> ELSE << code[k] >>])

\* The RigelFunctionInfo constructor: FPStackOffset, RAStackOffset,
\* CPUTopSavedRegOff and FPUTopSavedRegOff start at 0.
RigelFunctionInfoInit == [fpOff |-> 0, raOff |-> 0, cpuTopOff |-> 0, fpuTopOff |-> 0]

\* PEI's calculateFrameObjectOffsets (generic code) for StackGrowsUp: the
\* callee-saved objects first, from the highest frame index down, from
\* offset 0; then the locals and the two-word object after them, and a
\* stack size that covers them all.  The outgoing call frame is empty
\* because the callee takes no stack arguments.
GenericLayout(s) ==
  [objs |-> [i \in 0..(NumLocalObjs(s) + s.csr - 1) |->
               IF i < NumLocalObjs(s) THEN 4 * (s.csr + i)
               ELSE 4 * (NumLocalObjs(s) + s.csr - 1 - i)],
   stackSize |-> 4 * (FrameWords(s) + s.csr)]
    @@ RigelFunctionInfoInit

\* PEI's insertCSRSpillsAndRestores with the target's default hooks:
\* storeRegToStackSlot of each CSI register at the start of the entry
\* block, and loadRegFromStackSlot of each before the return.
InsertCSRSpillsAndRestores(s, code) ==
  LET CSI == CalleeSavedInfo(s)
  IN [i \in DOMAIN CSI |-> StoreRegToStackSlot(CSI[i], CSFI(s, i - 1))]
     \o code
     \o [i \in DOMAIN CSI |-> LoadRegFromStackSlot(CSI[i], CSFI(s, i - 1))]

AlignUp(x, a) == ((x + a - 1) \div a) * a

\* Mutant: StackOffset not advanced past the FP slot.
AdjustRigelStackFrameSharedSlot(s, f) ==
  LET fpOff == f.stackSize
      top   == fpOff + (IF s.calls \/ HasFP(s) THEN RegSize ELSE 0)
      size  == AlignUp(top, StackAlign)
  IN [f EXCEPT !.stackSize = size,
               !.fpOff = IF HasFP(s) THEN fpOff ELSE @,
               !.raOff = IF s.calls THEN fpOff ELSE @,
               !.cpuTopOff = IF s.calls \/ HasFP(s) THEN fpOff - size ELSE @]

\* Mutant: TopCPUSavedRegOff set for the FP slot only, not for the RA slot.
AdjustRigelStackFrameTopFP(s, f) ==
  LET fpOff == f.stackSize
      raOff == fpOff + (IF HasFP(s) THEN RegSize ELSE 0)
      top   == raOff + (IF s.calls THEN RegSize ELSE 0)
      size  == AlignUp(top, StackAlign)
  IN [f EXCEPT !.stackSize = size,
               !.fpOff = IF HasFP(s) THEN fpOff ELSE @,
               !.raOff = IF s.calls THEN raOff ELSE @,
               !.cpuTopOff = IF HasFP(s) THEN fpOff - size ELSE @]

\* adjustRigelStackFrame: the FP slot (if hasFP) and then the RA slot (if
\* the function calls) go on top of the laid-out frame, and the size is
\* aligned.  TopCPUSavedRegOff is the last of the two slots, and
\* CPUTopSavedRegOff becomes its offset from the aligned size.
AdjustRigelStackFrame(s, f) ==
  LET fpOff == f.stackSize
      raOff == fpOff + (IF HasFP(s) THEN RegSize ELSE 0)
      top   == raOff + (IF s.calls THEN RegSize ELSE 0)
      size  == AlignUp(top, StackAlign)
      topSaved == IF s.calls THEN raOff ELSE fpOff
  IN [f EXCEPT !.stackSize = size,
               !.fpOff = IF HasFP(s) THEN fpOff ELSE @,
               !.raOff = IF s.calls THEN raOff ELSE @,
               !.cpuTopOff = IF HasFP(s) \/ s.calls THEN topSaved - size ELSE @]

\* The RA save or restore of emitPrologue and emitEpilogue: in the field if
\* RAOffset fits, or through AT = SP + RAOffset.
RASlotAccess(save, f) ==
  LET Mem(imm, base) == IF save THEN SW(RA, imm, base) ELSE LW(RA, imm, base)
  IN IF IsIntImm(f.raOff) THEN << Mem(f.raOff, SP) >>
     ELSE Materialize(AT, f.raOff) \o << ADD(AT, SP, AT), Mem(0, AT) >>

\* emitPrologue after adjustRigelStackFrame.  It is skipped if there is no
\* frame and no call.  Then it does SP -= StackSize, saves RA, and saves FP
\* at FPOffset(SP) with no check that FPOffset fits, and sets FP = SP.
PrologueCode(s, f) ==
  IF f.stackSize = 0 /\ ~s.calls THEN << >>
  ELSE (IF IsIntImm(f.stackSize) THEN << ADDi(SP, SP, -f.stackSize) >>
        ELSE Materialize(AT, f.stackSize) \o << SUB(SP, SP, AT) >>)
       \o (IF s.calls THEN RASlotAccess(TRUE, f) ELSE << >>)
       \o (IF HasFP(s) THEN << SW(FP, f.fpOff, SP), OR(FP, SP, ZERO) >> ELSE << >>)

\* Mutant: FP reloaded from FPOffset(SP) before SP is reset from FP.
EpilogueCodeFPFirst(s, f) ==
  (IF HasFP(s) THEN << LW(FP, f.fpOff, SP), OR(SP, FP, ZERO) >> ELSE << >>)
  \o (IF f.stackSize = 0 THEN << >>
      ELSE (IF s.calls THEN RASlotAccess(FALSE, f) ELSE << >>)
           \o (IF IsIntImm(f.stackSize) THEN << ADDi(SP, SP, f.stackSize) >>
               ELSE Materialize(AT, f.stackSize) \o << ADD(SP, SP, AT) >>))

\* emitEpilogue: SP = FP and reload FP (if hasFP).  Then, unless the stack
\* size is 0, reload RA (if the function calls) and SP += StackSize.
EpilogueCode(s, f) ==
  (IF HasFP(s) THEN << OR(SP, FP, ZERO), LW(FP, f.fpOff, SP) >> ELSE << >>)
  \o (IF f.stackSize = 0 THEN << >>
      ELSE (IF s.calls THEN RASlotAccess(FALSE, f) ELSE << >>)
           \o (IF IsIntImm(f.stackSize) THEN << ADDi(SP, SP, f.stackSize) >>
               ELSE Materialize(AT, f.stackSize) \o << ADD(SP, SP, AT) >>))

\* eliminateFrameIndex for one instruction with a frame-index operand.  The
\* offset is spOffset (or stackSize - spOffset - 4 for a negative one)
\* plus the instruction's immediate.  The base becomes the frame register,
\* and the immediate the offset if it fits.  Otherwise the offset goes to
\* AT via MVUi/ORi, then AT += SP (SP even when the frame register is FP),
\* and the instruction uses 0(AT).
EliminateFrameIndex(mi, s, f) ==
  LET spOffset == f.objs[mi.fi]
      offset == (IF spOffset < 0 THEN f.stackSize + (-(spOffset + 4)) ELSE spOffset)
                + mi.imm
  IN IF IsIntImm(offset)
     THEN << [mi EXCEPT !.rs = FrameRegister(s), !.imm = offset, !.fi = NoFI] >>
     ELSE Materialize(AT, offset)
          \o << ADD(AT, SP, AT), [mi EXCEPT !.rs = AT, !.imm = 0, !.fi = NoFI] >>

\* PEI's replaceFrameIndices: each frame-index instruction is expanded in
\* place.
ReplaceFrameIndicesIn(code, s, f) ==
  FlattenSeq([k \in 1..Len(code) |->
                IF code[k].fi = NoFI THEN << code[k] >>
                ELSE EliminateFrameIndex(code[k], s, f)])

(***************************************************************************)
(* The machine.  A register or memory word holds 0..WordMod-1.  An        *)
(* immediate is what the printer emitted.  A call (JAL) sets RA.  The     *)
(* callee, which follows the convention, leaves SP and FP as they were.   *)
(* It overwrites AT and the CalleeFrame bytes below SP.                    *)
(***************************************************************************)
Word(x) == x % WordMod
Slot(a) == Word(a) - (Word(a) % 4)

Step(st, mi) ==
  LET r == st.regs
      imm == PrintedImm(mi.op, mi.imm)
      Set(v) == [st EXCEPT !.regs[mi.rd] = v]
  IN CASE mi.op = "ADDi"   -> Set(Word(r[mi.rs] + imm))
       [] mi.op = "ADD"    -> Set(Word(r[mi.rs] + r[mi.rt]))
       [] mi.op = "SUB"    -> Set(Word(r[mi.rs] - r[mi.rt]))
       [] mi.op = "OR"     -> Set(r[mi.rs] | r[mi.rt])
       [] mi.op = "MVUi"   -> Set(Word(imm * 2^ImmBits))
       [] mi.op = "ORi"    -> Set(r[mi.rs] | imm)
       [] mi.op = "LW"     -> Set(st.mem[Slot(r[mi.rs] + imm)])
       [] mi.op = "SW"     -> [st EXCEPT !.mem[Slot(r[mi.rs] + imm)] = r[mi.rt]]
       [] mi.op = "ALLOCA" -> Set(Word(r[SP] - mi.imm))
       [] mi.op = "JAL"    ->
            [regs |-> [r EXCEPT ![RA] = ReturnInBody, ![AT] = CalleeJunk],
             mem |-> [a \in Addrs |->
                        IF a \in {Slot(r[SP] - 4 * k) : k \in 1..CalleeFrame \div 4}
                        THEN CalleeJunk ELSE st.mem[a]]]

Exec(code, st) == FoldLeft(Step, st, code)

-----------------------------------------------------------------------------
VARIABLES
  shape,     \* the function being compiled
  pc,        \* how far compilation and the run have got
  frame,     \* MachineFrameInfo and RigelFunctionInfo: objs, stackSize, fpOff, raOff
  prologue,  \* the code emitPrologue inserted
  epilogue,  \* the code emitEpilogue inserted
  body,      \* the function body, with frame indices until they are replaced
  asm,       \* the .mask and .fmask directives, once printed
  regs,      \* the machine's registers
  mem        \* the machine's memory, one value per word

vars == << shape, pc, frame, prologue, epilogue, body, asm, regs, mem >>

Machine == [regs |-> regs, mem |-> mem]

InitRegs(s) ==
  [r \in Regs |->
     CASE r = SP -> SP0
       [] r = FP -> CallerFP
       [] r = RA -> CallerRA
       [] r = AV -> AllocaVal
       [] r \in {V(i) : i \in 0..2} -> LocalVal(r - V(0))
       [] r \in {S(i) : i \in 0..1} -> CSRVal(r - S(0))
       [] OTHER -> 0]

\* The state after register allocation has inserted the spill code, with
\* the machine at the call of the function.
Init ==
  /\ shape \in Shapes
  /\ pc = "Allocated"
  /\ frame = [objs |-> << >>, stackSize |-> 0] @@ RigelFunctionInfoInit
  /\ prologue = << >>
  /\ epilogue = << >>
  /\ body = BodyCode(shape)
  /\ asm = << >>
  /\ regs = InitRegs(shape)
  /\ mem = [a \in Addrs |-> 0]

\* The spill rewriter's reuse of stored values.
RewriteSpills ==
  /\ pc = "Allocated"
  /\ body' = ForwardStoredReloads(body)
  /\ pc' = "Rewritten"
  /\ UNCHANGED << shape, frame, prologue, epilogue, asm, regs, mem >>

\* StackSlotColoring's dead-store removal.
ColorStackSlots ==
  /\ pc = "Rewritten"
  /\ body' = RemoveDeadStores(body)
  /\ pc' = "Colored"
  /\ UNCHANGED << shape, frame, prologue, epilogue, asm, regs, mem >>

\* PEI's first steps: calculateCalleeSavedRegisters,
\* insertCSRSpillsAndRestores and calculateFrameObjectOffsets.
LayOutFrame ==
  /\ pc = "Colored"
  /\ body' = InsertCSRSpillsAndRestores(shape, body)
  /\ frame' = GenericLayout(shape)
  /\ pc' = "Laid"
  /\ UNCHANGED << shape, prologue, epilogue, asm, regs, mem >>

\* emitPrologue, which starts with adjustRigelStackFrame.
EmitPrologue ==
  /\ pc = "Laid"
  /\ LET f == AdjustRigelStackFrame(shape, frame)
     IN /\ frame' = f
        /\ prologue' = PrologueCode(shape, f)
  /\ pc' = "PrologueEmitted"
  /\ UNCHANGED << shape, epilogue, body, asm, regs, mem >>

\* emitEpilogue, for the one return block.
EmitEpilogue ==
  /\ pc = "PrologueEmitted"
  /\ epilogue' = EpilogueCode(shape, frame)
  /\ pc' = "EpilogueEmitted"
  /\ UNCHANGED << shape, frame, prologue, body, asm, regs, mem >>

\* replaceFrameIndices calls eliminateFrameIndex on every instruction that
\* has a frame-index operand.
ReplaceFrameIndices ==
  /\ pc = "EpilogueEmitted"
  /\ body' = ReplaceFrameIndicesIn(body, shape, frame)
  /\ pc' = "Compiled"
  /\ UNCHANGED << shape, frame, prologue, epilogue, asm, regs, mem >>

RunCode(code, from, to) ==
  /\ pc = from
  /\ LET st == Exec(code, Machine) IN regs' = st.regs /\ mem' = st.mem
  /\ pc' = to
  /\ UNCHANGED << shape, frame, prologue, epilogue, body, asm >>

\* EmitFunctionBodyStart: the AsmPrinter prints the bitmask directives.
EmitFunctionBodyStart ==
  /\ pc = "Compiled"
  /\ LET m == PrintSavedRegsBitmask(shape, frame)
     IN asm' = [mask |-> PrintHex32(m.cpu), maskOff |-> m.cpuOff,
                fmask |-> PrintHex32(m.fpu), fmaskOff |-> m.fpuOff]
  /\ pc' = "Printed"
  /\ UNCHANGED << shape, frame, prologue, epilogue, body, regs, mem >>

RunPrologue == RunCode(prologue, "Printed", "Entered")
RunBody == RunCode(body, "Entered", "BodyRan")
RunEpilogue == RunCode(epilogue, "BodyRan", "Returned")

Next ==
  \/ RewriteSpills
  \/ ColorStackSlots
  \/ LayOutFrame
  \/ EmitPrologue
  \/ EmitEpilogue
  \/ ReplaceFrameIndices
  \/ EmitFunctionBodyStart
  \/ RunPrologue
  \/ RunBody
  \/ RunEpilogue

Spec == Init /\ [][Next]_vars

-----------------------------------------------------------------------------
(***************************************************************************)
(* Properties                                                              *)
(***************************************************************************)

\* The slots of the frame: the callee-saved and local objects, the FP slot
\* and the RA slot.  The two-word object has two.
FrameSlots ==
  {frame.objs[i] : i \in DOMAIN frame.objs}
    \cup (IF shape.pair THEN {frame.objs[PairObj(shape)] + 4} ELSE {})
    \cup (IF HasFP(shape) THEN {frame.fpOff} ELSE {})
    \cup (IF shape.calls THEN {frame.raOff} ELSE {})

\* Types.  Once adjustRigelStackFrame has run, the callee-saved and local
\* objects, the FP slot and the RA slot are distinct aligned words inside an aligned frame.
TypeOK ==
  /\ shape \in Shapes
  /\ pc \in {"Allocated", "Rewritten", "Colored", "Laid", "PrologueEmitted", "EpilogueEmitted", "Compiled",
             "Printed", "Entered", "BodyRan", "Returned"}
  /\ asm \in {<< >>} \cup [mask : [1..8 -> 0..15], maskOff : Int,
                           fmask : [1..8 -> 0..15], fmaskOff : Int]
  /\ regs \in [Regs -> 0..WordMod - 1]
  /\ mem \in [Addrs -> 0..WordMod - 1]
  /\ pc \notin {"Allocated", "Rewritten", "Colored", "Laid"} =>
       /\ frame.stackSize % StackAlign = 0
       /\ \A o \in FrameSlots : o % RegSize = 0 /\ 0 <= o /\ o + RegSize <= frame.stackSize
       /\ Cardinality(FrameSlots) =
            FrameWords(shape) + shape.csr + (IF HasFP(shape) THEN 1 ELSE 0) + (IF shape.calls THEN 1 ELSE 0)

\* Every frame access of the body reaches its object.  Each local reloaded
\* after the spills (and after the call) holds the value spilled to it, and
\* each word of the alloca buffer holds what the body stored there.  Word 0
\* of the two-word object holds what the body copied into it from word 1.
\* This ties eliminateFrameIndex's base register and AT path to the
\* prologue's FP and RA slots and to the alloca, and the spill rewriter's
\* and StackSlotColoring's edits to isLoadFromStackSlot, isStoreToStackSlot
\* and copyPhysReg.
LocalsKeepTheirValues ==
  pc \in {"BodyRan", "Returned"} =>
    /\ \A i \in 0..shape.locals - 1 : regs[L(i)] = LocalVal(i)
    /\ shape.pair => regs[PW] = AllocaVal
    /\ \A j \in 0..shape.alloca \div 4 - 1 : regs[AL(j)] = AllocaVal

\* After the epilogue the caller's SP, FP, RA and callee-saved registers
\* are back, and no word of the caller's frame (at or above the SP it
\* called with) has changed.
RestoresCallerState ==
  pc = "Returned" =>
    /\ regs[SP] = SP0
    /\ regs[FP] = CallerFP
    /\ regs[RA] = CallerRA
    /\ \A i \in 0..shape.csr - 1 : regs[S(i)] = CSRVal(i)
    /\ \A a \in Addrs : a >= SP0 => mem[a] = 0

\* The registers a printed hex mask names: bit j of digit d.
MaskBits(digits) == {b \in 0..31 : (digits[8 - b \div 4] \div 2^(b % 4)) % 2 = 1}

\* The registers whose value at the call the prologue or the entry block
\* stores: FP and RA, and the callee-saved registers.
SavedRegs ==
  {r \in {FP, RA} \cup {S(i) : i \in 0..1} :
     \E mi \in Range(prologue \o body) : mi.op = "SW" /\ mi.rt = r}

\* Where the .mask directive says register r was saved: the one with the
\* k-th highest number at StackSize + offset - 4k above the SP the
\* prologue set, i.e. at offset - 4k from the SP of the call.
MaskSlot(r) ==
  LET k == Cardinality({b \in MaskBits(asm.mask) : b > RegisterNumbering(r)})
  IN Slot(SP0 + asm.maskOff - 4 * k)

\* The .mask directive names exactly the registers the function saves, and
\* once they are saved, FP and RA (the highest numbers) are where it says.
\* This ties printSavedRegsBitmask and printHex32 to PEI's CSI, to
\* adjustRigelStackFrame's CPUTopSavedRegOff and to the prologue's FP and
\* RA saves (also through AT for a large RAOffset).
MaskNamesSaves ==
  pc = "BodyRan" =>
    /\ MaskBits(asm.mask) = {RegisterNumbering(r) : r \in SavedRegs}
    /\ \A r \in SavedRegs \cap {FP, RA} : mem[MaskSlot(r)] = InitRegs(shape)[r]

\* The comment above printSavedRegsBitmask: the .mask offset locates the
\* first (highest-numbered) saved register, and the others follow it in
\* consecutive words down the frame, so every saved register, callee-saved
\* ones included, holds its value at the call where the directive says.
MaskDescribesSaves ==
  pc = "BodyRan" =>
    \A r \in SavedRegs : mem[MaskSlot(r)] = InitRegs(shape)[r]

====
