----------------------------- MODULE RigelSelect -----------------------------
(***************************************************************************)
(* The lowering of an integer select in RigelISelLowering.cpp.            *)
(* LowerSELECT turns ISD::SELECT(Cond, True, False) into                  *)
(* RigelISD::SelectCC(Cond, True, False), which is selected to the        *)
(* pseudo Select_CC_to_i Dst, Cond, TrueVal, FalseVal.                    *)
(* EmitInstrWithCustomInserter replaces the pseudo by a diamond:          *)
(*   thisMBB:  ... ; BNZ Cond, sinkMBB        (falls through to copy0MBB) *)
(*   copy0MBB: (empty)                        (falls through to sinkMBB)  *)
(*   sinkMBB:  Dst = PHI [FalseVal, copy0MBB], [TrueVal, thisMBB] ; rest  *)
(* moving the rest of the block, its successors and the PHIs that name it *)
(* to sinkMBB.                                                             *)
(*                                                                         *)
(* A machine function here is a record: code (block -> instructions),     *)
(* succs (block -> successor set) and layout (the order of the blocks).   *)
(* Registers are small integers; an input register holds 0 or 1 (the     *)
(* 0/1 result of a SETCC, ZeroOrOneBooleanContent) and every other        *)
(* register starts undefined.                                              *)
(***************************************************************************)
EXTENDS Integers, SequencesExt, FiniteSets

CONSTANTS
  NumIn,    \* input registers 1..NumIn
  MaxSel    \* most Select_CC pseudos in the first block

ASSUME NumIn \in 1..3 /\ MaxSel \in 0..3

InRegs == 1..NumIn
SelDst(k) == 10 + k          \* the register the k-th select defines
PhiP == 20                   \* the PHI of the join block
Regs == InRegs \cup {SelDst(k) : k \in 1..MaxSel} \cup {PhiP}
Undef == -1
NoReg == 0

Instr(op, dst, use, tgt, in) ==
  [op |-> op, dst |-> dst, use |-> use, tgt |-> tgt, in |-> in]
Select_CC_to_i(d, c, t, f) == Instr("Select_CC_to_i", d, << c, t, f >>, 0, {})
PHI(d, in) == Instr("PHI", d, << >>, 0, in)     \* in: {<<reg, pred>>}
BNZ(r, t) == Instr("BNZ", NoReg, << r >>, t, {})
J(t) == Instr("J", NoReg, << >>, t, {})
RET == Instr("RET", NoReg, << >>, 0, {})

NumBlocks(f) == Len(f.layout)
LayoutIndex(f, b) == CHOOSE k \in 1..NumBlocks(f) : f.layout[k] = b
\* The block b falls through to, 0 after the last one.
LayoutNext(f, b) ==
  LET k == LayoutIndex(f, b) IN IF k < NumBlocks(f) THEN f.layout[k + 1] ELSE 0

(***************************************************************************)
(* The control flow the instructions of a block give it.                   *)
(***************************************************************************)
FallsThrough(code) == code = << >> \/ Last(code).op \notin {"J", "RET"}
BranchTargets(code) ==
  {code[i].tgt : i \in {i \in 1..Len(code) : code[i].op \in {"BNZ", "J"}}}
ControlSuccs(f, b) ==
  BranchTargets(f.code[b])
    \cup (IF FallsThrough(f.code[b]) THEN {LayoutNext(f, b)} \ {0} ELSE {})
Preds(f, b) == {x \in DOMAIN f.code : b \in f.succs[x]}

(***************************************************************************)
(* The custom inserter.                                                    *)
(***************************************************************************)
RetargetPhi(mi, from, to) ==
  IF mi.op = "PHI"
  THEN [mi EXCEPT !.in = {<< e[1], IF e[2] = from THEN to ELSE e[2] >> : e \in mi.in}]
  ELSE mi

\* Mutant: MachineBasicBlock::transferSuccessors, which leaves the PHIs.
TransferSuccessorsNoPHIUpdate(code, succs, from, to) ==
  [code |-> code, succs |-> [succs EXCEPT ![to] = succs[from], ![from] = {}]]

\* sinkMBB->transferSuccessorsAndUpdatePHIs(BB): sinkMBB takes BB's
\* successors, and their PHIs that name BB name sinkMBB instead.
TransferSuccessorsAndUpdatePHIs(code, succs, from, to) ==
  [code |-> [x \in DOMAIN code |->
               IF x \in succs[from]
               THEN [i \in DOMAIN code[x] |-> RetargetPhi(code[x][i], from, to)]
               ELSE code[x]],
   succs |-> [succs EXCEPT ![to] = succs[from], ![from] = {}]]

\* Mutant: BB->addSuccessor(sinkMBB) forgotten.
DiamondSuccsNoSink(succs, this, copy0, sink) ==
  [succs EXCEPT ![this] = @ \cup {copy0}, ![copy0] = @ \cup {sink}]

\* BB->addSuccessor(copy0MBB); BB->addSuccessor(sinkMBB);
\* copy0MBB->addSuccessor(sinkMBB).
DiamondSuccs(succs, this, copy0, sink) ==
  [succs EXCEPT ![this] = @ \cup {copy0, sink}, ![copy0] = @ \cup {sink}]

\* Mutant: the PHI takes operand 2 (TrueVal) from copy0MBB.
SinkPhiSwapped(mi, copy0, this) ==
  PHI(mi.dst, {<< mi.use[2], copy0 >>, << mi.use[3], this >>})

\* %Result = phi [ %FalseValue (operand 3), copy0MBB ],
\*               [ %TrueValue (operand 2), thisMBB ]
SinkPhi(mi, copy0, this) ==
  PHI(mi.dst, {<< mi.use[3], copy0 >>, << mi.use[2], this >>})

\* Mutant: the block returned is copy0MBB.
ResumeBlockCopy0(copy0, sink) == copy0

\* BB = sinkMBB; ... return BB.
ResumeBlock(copy0, sink) == sink

\* EmitInstrWithCustomInserter for the pseudo at index i of block bb.
\* The new blocks get the next free numbers; both are inserted before
\* It, the block after BB, so the layout is BB, copy0MBB, sinkMBB, It.
\* Returns the new function and the block emission continues in.
EmitInstrWithCustomInserter(f, bb, i) ==
  LET mi == f.code[bb][i]
      n == NumBlocks(f)
      copy0 == n + 1
      sink == n + 2
      k == LayoutIndex(f, bb)
      spliced == [x \in 1..n + 2 |->
                    CASE x = bb -> SubSeq(f.code[bb], 1, i - 1)
                      [] x = sink -> SubSeq(f.code[bb], i + 1, Len(f.code[bb]))
                      [] x = copy0 -> << >>
                      [] OTHER -> f.code[x]]
      t == TransferSuccessorsAndUpdatePHIs(spliced,
             [x \in 1..n + 2 |-> IF x <= n THEN f.succs[x] ELSE {}], bb, sink)
  IN [fn |-> [code |-> [t.code EXCEPT ![bb] = Append(@, BNZ(mi.use[1], sink)),
                                      ![sink] = << SinkPhi(mi, copy0, bb) >> \o @],
              succs |-> DiamondSuccs(t.succs, bb, copy0, sink),
              layout |-> SubSeq(f.layout, 1, k) \o << copy0, sink >>
                           \o SubSeq(f.layout, k + 1, n)],
      bb |-> ResumeBlock(copy0, sink)]

(***************************************************************************)
(* The machine.  A PHI takes the operand of the block control came from   *)
(* (Undef when it names no such block); Select_CC_to_i, before it is      *)
(* expanded, is ISD::SELECT: TrueVal when Cond is not 0.  A run returns    *)
(* the registers at RET, or says it fell off the layout or ran too long.  *)
(***************************************************************************)
PhiValue(mi, prev, r) ==
  IF \E e \in mi.in : e[2] = prev
  THEN r[(CHOOSE e \in mi.in : e[2] = prev)[1]]
  ELSE Undef

\* The value an instruction that defines a register gives it.
DefValue(mi, prev, r) ==
  IF mi.op = "PHI" THEN PhiValue(mi, prev, r)
  ELSE IF r[mi.use[1]] # 0 THEN r[mi.use[2]] ELSE r[mi.use[3]]

\* One step of the machine in state s: at instruction s.i of block s.b,
\* entered from block s.prev, with registers s.r and s.fuel block
\* transfers left.  A step past the end of a block falls through to the
\* next block in the layout.
ExecStep(f, s) ==
  LET Goto(t) == [s EXCEPT !.b = t, !.i = 1, !.prev = s.b, !.fuel = @ - 1]
      Stop(why) == [s EXCEPT !.end = why]
  IN IF s.fuel = 0 THEN Stop("diverged")
     ELSE IF s.i > Len(f.code[s.b])
     THEN IF LayoutNext(f, s.b) = 0 THEN Stop("fell off")
          ELSE Goto(LayoutNext(f, s.b))
     ELSE LET mi == f.code[s.b][s.i] IN
       CASE mi.op = "RET" -> Stop("ret")
         [] mi.op = "J" -> Goto(mi.tgt)
         [] mi.op = "BNZ" /\ s.r[mi.use[1]] # 0 -> Goto(mi.tgt)
         [] mi.op = "BNZ" /\ s.r[mi.use[1]] = 0 -> [s EXCEPT !.i = @ + 1]
         [] mi.op \in {"PHI", "Select_CC_to_i"} ->
              [s EXCEPT !.i = @ + 1, !.r[mi.dst] = DefValue(mi, s.prev, s.r)]

\* Steps from s until the machine stops.  Each next state is bound as a
\* value ({ExecFrom(f, t) : t \in {n}}), so a state is computed once and
\* not once per use.
RECURSIVE ExecFrom(_, _)
ExecFrom(f, s) ==
  LET n == ExecStep(f, s)
  IN IF n.end # "running" THEN n
     ELSE CHOOSE res \in {ExecFrom(f, t) : t \in {n}} : TRUE

Inputs == [InRegs -> {0, 1}]

Run(f, v) ==
  LET last == ExecFrom(f, [b |-> 1, i |-> 1, prev |-> 0, end |-> "running",
                           r |-> [x \in Regs |-> IF x \in InRegs THEN v[x] ELSE Undef],
                           fuel |-> 2 * NumBlocks(f) + 2])
  IN [end |-> last.end, regs |-> last.r]

(***************************************************************************)
(* The functions the selector hands over: block 1 holds up to MaxSel      *)
(* selects (each reading inputs or earlier selects) and then one of the   *)
(* terminator shapes LLVM emits for a conditional or unconditional        *)
(* branch; block 2 jumps to, returns or falls into block 3; block 3 joins *)
(* with a PHI over its predecessors and returns.                           *)
(***************************************************************************)
SelSeqs ==
  UNION {{s \in [1..n -> [c : Regs, t : Regs, f : Regs]] :
            \A k \in 1..n : {s[k].c, s[k].t, s[k].f} \subseteq InRegs \cup {SelDst(j) : j \in 1..k - 1}}
         : n \in 0..MaxSel}

Terms(avail) ==
  {<< >>, << J(3) >>} \cup {<< BNZ(c, 3) >> : c \in avail} \cup {<< BNZ(c, 3), J(2) >> : c \in avail}

\* The selected function: s the selects, t1 block 1's terminators, b2
\* block 2, with successor sets derived from the code.
Selected(s, t1, b2) ==
  LET f == [code |-> << [k \in DOMAIN s |-> Select_CC_to_i(SelDst(k), s[k].c, s[k].t, s[k].f)] \o t1,
                        b2, << >> >>,
            succs |-> << {}, {}, {} >>, layout |-> << 1, 2, 3 >>]
  IN [f EXCEPT !.succs = [b \in 1..3 |-> ControlSuccs(f, b)]]

\* Block 3 joins with a PHI that takes, from each predecessor p, ch[p].
WithJoin(g, ch) ==
  [g EXCEPT !.code[3] = << PHI(PhiP, {<< ch[p], p >> : p \in DOMAIN ch}), RET >>]

-----------------------------------------------------------------------------
VARIABLES
  orig,   \* the function as selected
  fn,     \* the function now
  cur,    \* the block instructions are being emitted into
  pos,    \* the next instruction of cur
  llbb    \* the LLVM block being emitted (1..3)

vars == << orig, fn, cur, pos, llbb >>

Init ==
  /\ \E s \in SelSeqs, b2 \in {<< J(3) >>, << RET >>, << >>} :
       \E t1 \in Terms(InRegs \cup {SelDst(k) : k \in DOMAIN s}) :
         LET g == Selected(s, t1, b2)
         IN \E ch \in [Preds(g, 3) -> InRegs \cup {SelDst(k) : k \in 1..MaxSel}] :
              orig = WithJoin(g, ch)
  /\ fn = orig
  /\ cur = 1
  /\ pos = 1
  /\ llbb = 1

\* The emitter reaches a Select_CC pseudo and calls the custom inserter;
\* emission goes on after the PHI of the block it returns.
EmitSelect ==
  /\ pos <= Len(fn.code[cur])
  /\ fn.code[cur][pos].op = "Select_CC_to_i"
  /\ LET r == EmitInstrWithCustomInserter(fn, cur, pos)
     IN /\ fn' = r.fn
        /\ cur' = r.bb
        /\ pos' = 2
  /\ UNCHANGED << orig, llbb >>

EmitOther ==
  /\ pos <= Len(fn.code[cur])
  /\ fn.code[cur][pos].op # "Select_CC_to_i"
  /\ pos' = pos + 1
  /\ UNCHANGED << orig, fn, cur, llbb >>

NextLLVMBlock ==
  /\ pos > Len(fn.code[cur])
  /\ llbb < 3
  /\ llbb' = llbb + 1
  /\ cur' = llbb + 1
  /\ pos' = 1
  /\ UNCHANGED << orig, fn >>

Next == EmitSelect \/ EmitOther \/ NextLLVMBlock

Spec == Init /\ [][Next]_vars

Done == llbb = 3 /\ pos > Len(fn.code[cur])

-----------------------------------------------------------------------------
HasSelect(f) == \E b \in DOMAIN f.code : \E i \in 1..Len(f.code[b]) :
                  f.code[b][i].op = "Select_CC_to_i"

\* Types.  When emission is done no Select_CC pseudo is left: every
\* select was reached in the block the inserter handed back.
TypeOK ==
  /\ DOMAIN fn.code = 1..NumBlocks(fn) /\ DOMAIN fn.succs = 1..NumBlocks(fn)
  /\ IsInjective(fn.layout) /\ ToSet(fn.layout) = 1..NumBlocks(fn)
  /\ cur \in 1..NumBlocks(fn) /\ llbb \in 1..3
  /\ Done => ~HasSelect(fn)

\* The successor list of every block is exactly where its branches and its
\* fall-through lead, after the inserter moved BB's edges to sinkMBB and
\* added the diamond's.
SuccessorsMatchBranches == \A b \in DOMAIN fn.code : fn.succs[b] = ControlSuccs(fn, b)

\* Every PHI names each predecessor of its block once and nothing else:
\* the successors' PHIs followed BB's edges to sinkMBB.
PhisMatchPredecessors ==
  \A b \in DOMAIN fn.code : \A i \in 1..Len(fn.code[b]) :
    fn.code[b][i].op = "PHI" =>
      /\ {e[2] : e \in fn.code[b][i].in} = Preds(fn, b)
      /\ Cardinality(fn.code[b][i].in) = Cardinality(Preds(fn, b))

\* At every point of emission the function returns the same registers
\* as the selected one, for every input: each diamond computes
\* Cond ? TrueVal : FalseVal and the rest of the block runs after it.
SelectPreservesBehaviour == \A v \in Inputs : Run(fn, v) = Run(orig, v)

====
