-------------------------- MODULE RigelExpandPseudo --------------------------
(***************************************************************************)
(* The pseudo-instruction expansion pass of RigelExpandPseudoInsts.cpp.   *)
(* runOnMachineFunction walks the blocks.  ExpandMBB walks each block     *)
(* with a saved next iterator, and replaces every                         *)
(* MOVi32imm Dst, Imm by MVUi Dst, Hi16 and ORi Dst, Dst, Lo16.           *)
(* TransferImpOps puts the pseudo's implicit uses on the first            *)
(* instruction and its implicit defs on the second.                       *)
(*                                                                         *)
(* The model runs the pass on every small block of MOVi32imm pseudos and  *)
(* register reads.  Each pseudo carries a dead flag and implicit          *)
(* operands.  Each read carries a kill flag.  The word is 2*ImmBits wide  *)
(* (32 in the code) and a half is ImmBits wide.                           *)
(***************************************************************************)
EXTENDS Integers, SequencesExt, Bitwise, FiniteSets

CONSTANTS
  ImmBits,     \* bits of one half of the word (16 in the code)
  Regs,        \* the registers
  Imms,        \* immediates of MOVi32imm (int64 values, may be negative)
  ImpChoices,  \* the sets of implicit operands a MOVi32imm may carry
  MaxLen,      \* most instructions in a block
  NumBlocks    \* blocks in the function

ASSUME ImmBits \in 2..8 /\ MaxLen \in 1..4 /\ NumBlocks \in 1..3 /\ Imms \subseteq Int

WordMod == 2^(2 * ImmBits)
HalfMod == 2^ImmBits
Clobbered == -1   \* the value an implicit def leaves (unknown)

\* An implicit operand: a register that is used (flag = kill) or defined
\* (flag = dead).
ImpOps == [reg : Regs, use : BOOLEAN, flag : BOOLEAN]
ASSUME \A c \in ImpChoices : c \subseteq ImpOps

\* One record type for every instruction.  src is the register a READ reads.
Instr(op, dst, src, imm, dead, kill, imp) ==
  [op |-> op, dst |-> dst, src |-> src, imm |-> imm, dead |-> dead,
   kill |-> kill, imp |-> imp]

MOVi32imm(dst, imm, dead, imp) == Instr("MOVi32imm", dst, dst, imm, dead, FALSE, imp)
READ(src, kill) == Instr("READ", src, src, 0, FALSE, kill, {})

\* Registers an instruction reads, reads for the last time, writes, and
\* writes with a value nobody reads.  ORi reads Dst.
Reads(mi) ==
  {o.reg : o \in {o \in mi.imp : o.use}}
    \cup (IF mi.op \in {"READ", "ORi"} THEN {mi.src} ELSE {})
Kills(mi) ==
  {o.reg : o \in {o \in mi.imp : o.use /\ o.flag}}
    \cup (IF mi.op = "READ" /\ mi.kill THEN {mi.src} ELSE {})
Defs(mi) ==
  {o.reg : o \in {o \in mi.imp : ~o.use}}
    \cup (IF mi.op = "READ" THEN {} ELSE {mi.dst})
DeadDefs(mi) ==
  {o.reg : o \in {o \in mi.imp : ~o.use /\ o.flag}}
    \cup (IF mi.op # "READ" /\ mi.dead THEN {mi.dst} ELSE {})

\* The flags agree with the code: no register is read after an instruction
\* that killed it or defined it dead, unless it is defined again in
\* between.  A kill by an instruction that also defines the register ends
\* the old value only.
FlagsConsistent(b) ==
  \A i, j \in 1..Len(b) :
    \A r \in (Kills(b[i]) \ Defs(b[i])) \cup DeadDefs(b[i]) :
      (i < j /\ r \in Reads(b[j])) => \E k \in (i + 1)..(j - 1) : r \in Defs(b[k])

Pseudos == {MOVi32imm(d, k, dd, c) : d \in Regs, k \in Imms, dd \in BOOLEAN, c \in ImpChoices}
Blocks ==
  {b \in BoundedSeq(Pseudos \cup {READ(r, kl) : r \in Regs, kl \in BOOLEAN}, MaxLen) :
     FlagsConsistent(b)}

(***************************************************************************)
(* The expansion.                                                          *)
(***************************************************************************)

\* unsigned Imm = MO.getImm(); Lo16 = Imm & 0xffff; Hi16 = (Imm >> 16) & 0xffff.
Halves(imm) ==
  LET u == imm % WordMod IN [hi |-> (u \div HalfMod) % HalfMod, lo |-> u % HalfMod]

\* TransferImpOps: the implicit operands of the pseudo (those beyond its
\* descriptor's operands) that go to UseMI (the uses) or to DefMI (the defs).
TransferImpOps(mi, toUseMI) == {o \in mi.imp : o.use = toUseMI}

\* Mutant: the ARM order, TransferImpOps(MI, LO16, HI16).
ExpandMOVi32immArmOrder(mi) ==
  LET h == Halves(mi.imm)
  IN << Instr("MVUi", mi.dst, mi.dst, h.hi, FALSE, FALSE, TransferImpOps(mi, FALSE)),
        Instr("ORi", mi.dst, mi.dst, h.lo, mi.dead, FALSE, TransferImpOps(mi, TRUE)) >>

\* Mutant: Dst's dead flag put on both halves.
ExpandMOVi32immDeadHi(mi) ==
  LET h == Halves(mi.imm)
  IN << Instr("MVUi", mi.dst, mi.dst, h.hi, mi.dead, FALSE, TransferImpOps(mi, TRUE)),
        Instr("ORi", mi.dst, mi.dst, h.lo, mi.dead, FALSE, TransferImpOps(mi, FALSE)) >>

\* The MOVi32imm case of ExpandMBB.  HI16 = MVUi Dst, Hi16.
\* LO16 = ORi Dst<def, dead if the pseudo's Dst was dead>, Dst, Lo16.
\* Then TransferImpOps(MI, HI16, LO16).
ExpandMOVi32imm(mi) ==
  LET h == Halves(mi.imm)
  IN << Instr("MVUi", mi.dst, mi.dst, h.hi, FALSE, FALSE, TransferImpOps(mi, TRUE)),
        Instr("ORi", mi.dst, mi.dst, h.lo, mi.dead, FALSE, TransferImpOps(mi, FALSE)) >>

(***************************************************************************)
(* The machine.  An instruction reads its uses, writes Dst, and leaves    *)
(* its implicit defs Clobbered.  The trace records what each instruction  *)
(* reads that the program can observe: a READ and the implicit uses.      *)
(* ORi's read of Dst is internal to the expansion.                        *)
(***************************************************************************)
InitVal(r) == WordMod + r   \* a value no immediate produces

Step(st, mi) ==
  LET r == st.regs
      seen == {<< o.reg, r[o.reg] >> : o \in {o \in mi.imp : o.use}}
                \cup (IF mi.op = "READ" THEN {<< mi.src, r[mi.src] >>} ELSE {})
      val == CASE mi.op = "MOVi32imm" -> mi.imm % WordMod
               [] mi.op = "MVUi" -> mi.imm * HalfMod
               [] mi.op = "ORi" -> r[mi.dst] | mi.imm
               [] OTHER -> 0
      written == IF mi.op = "READ" THEN r ELSE [r EXCEPT ![mi.dst] = val]
      clobbered == {o.reg : o \in {o \in mi.imp : ~o.use}}
  IN [regs |-> [x \in Regs |-> IF x \in clobbered THEN Clobbered ELSE written[x]],
      trace |-> IF seen = {} THEN st.trace ELSE Append(st.trace, seen)]

\* Runs the instructions seq from state st.  The next state and the rest
\* of seq are bound as values, so each is computed once and not once per
\* use.
RECURSIVE RunFrom(_, _)
RunFrom(st, seq) ==
  IF seq = << >> THEN st
  ELSE CHOOSE res \in {RunFrom(n, t) : n \in {Step(st, Head(seq))}, t \in {Tail(seq)}} : TRUE

\* The function runs its blocks in layout order.
Run(f) ==
  RunFrom([regs |-> [x \in Regs |-> InitVal(x)], trace |-> << >>], FlattenSeq(f))

-----------------------------------------------------------------------------
VARIABLES
  orig,      \* the function before the pass
  fn,        \* the function now
  blk,       \* runOnMachineFunction's block iterator
  pos,       \* ExpandMBB's iterator MBBI within block blk
  modified   \* the pass' return value so far

vars == << orig, fn, blk, pos, modified >>

Init ==
  /\ orig \in [1..NumBlocks -> Blocks]
  /\ fn = orig
  /\ blk = 1
  /\ pos = 1
  /\ modified = FALSE

\* Mutant: after an expansion, MBBI steps one past the saved next iterator.
ExpandStepSkip(b, i) ==
  IF b[i].op = "MOVi32imm"
  THEN [block |-> SubSeq(b, 1, i - 1) \o ExpandMOVi32imm(b[i]) \o SubSeq(b, i + 1, Len(b)),
        next |-> i + 3, modified |-> TRUE]
  ELSE [block |-> b, next |-> i + 1, modified |-> FALSE]

\* One iteration of ExpandMBB's loop at MBBI = i.  NMBBI is saved first.
\* A MOVi32imm is replaced by its two halves and erased, and the loop
\* continues at NMBBI, the instruction after the pseudo.
ExpandStep(b, i) ==
  IF b[i].op = "MOVi32imm"
  THEN [block |-> SubSeq(b, 1, i - 1) \o ExpandMOVi32imm(b[i]) \o SubSeq(b, i + 1, Len(b)),
        next |-> i + 2, modified |-> TRUE]
  ELSE [block |-> b, next |-> i + 1, modified |-> FALSE]

ExpandMBB ==
  /\ blk <= NumBlocks
  /\ pos <= Len(fn[blk])
  /\ LET r == ExpandStep(fn[blk], pos)
     IN /\ fn' = [fn EXCEPT ![blk] = r.block]
        /\ pos' = r.next
        /\ modified' = (modified \/ r.modified)
  /\ UNCHANGED << orig, blk >>

\* runOnMachineFunction moves to the next block when ExpandMBB reaches
\* the end of this one.
NextBlock ==
  /\ blk <= NumBlocks
  /\ pos > Len(fn[blk])
  /\ blk' = blk + 1
  /\ pos' = 1
  /\ UNCHANGED << orig, fn, modified >>

Next == ExpandMBB \/ NextBlock

Spec == Init /\ [][Next]_vars

Done == blk > NumBlocks

-----------------------------------------------------------------------------
(***************************************************************************)
(* Properties                                                              *)
(***************************************************************************)

HasPseudo(f) == \E b \in 1..NumBlocks : \E i \in 1..Len(f[b]) : f[b][i].op = "MOVi32imm"

\* Types.  When the pass is done no MOVi32imm is left, and it reports a
\* change exactly when there was one.
TypeOK ==
  /\ orig \in [1..NumBlocks -> Blocks]
  /\ blk \in 1..NumBlocks + 1
  /\ pos \in 1..2 * MaxLen + 1
  /\ modified \in BOOLEAN
  /\ Done => ~HasPseudo(fn) /\ modified = HasPseudo(orig)

\* After the pass the function computes the same registers and reads the
\* same values (including the pseudo's implicit uses) as before.
ExpansionPreservesBehaviour == Done => Run(fn) = Run(orig)

\* At every point of the pass, the kill and dead flags of every block are
\* still true: no register is read after it was killed or defined dead.
FlagsStayConsistent == \A b \in 1..NumBlocks : FlagsConsistent(fn[b])

====
