----------------------------- MODULE RigelBranch -----------------------------
(***************************************************************************)
(* The branch analysis hooks of RigelInstrInfo.cpp: AnalyzeBranch,        *)
(* RemoveBranch, InsertBranch and ReverseBranchCondition, with            *)
(* GetAnalyzableBrOpc, GetOppositeBranchOpcode and AnalyzeCondBr.         *)
(*                                                                         *)
(* Generic passes such as branch folding and block placement edit a block *)
(* only through these hooks.  They analyse it, remove its branches,       *)
(* perhaps reverse the condition and swap the targets, and insert         *)
(* branches again.  The module runs that client on every well-formed      *)
(* block over a few targets.  It checks that the analysis describes the   *)
(* block and that the edit leaves the block's successor for every         *)
(* outcome of the comparison unchanged.                                   *)
(*                                                                         *)
(* A branch's register operands are abstracted.  Every conditional branch *)
(* tests the one relation Rel between its operands (or between its        *)
(* operand and zero), and Cond keeps only the opcode.  InsertBranch's     *)
(* choice between 2 and 3 operands rebuilds the same operands and is      *)
(* therefore one case.                                                    *)
(***************************************************************************)
EXTENDS Integers, SequencesExt

CONSTANTS
  Targets,     \* the blocks a branch may name
  LayoutNext,  \* the block that follows in the layout (the fall-through)
  MaxLen,      \* most instructions in a block
  CondOps      \* conditional branch opcodes in the run

ASSUME LayoutNext \in Targets /\ MaxLen \in 1..4
ASSUME CondOps \subseteq {"BEQ", "BNE", "BGE", "BGT", "BLE", "BLT", "BE", "BNZ"}

None == "none"        \* a null MachineBasicBlock pointer
Indirect == "indirect" \* the successor of an indirect jump (JR)

\* Instructions: a non-terminator ("other"), a DBG_VALUE ("dbg"), an
\* indirect jump JR, a JMP, or a conditional branch.  t is the target.
Instrs ==
  {[op |-> o, t |-> None] : o \in {"other", "dbg", "JR"}}
    \cup {[op |-> o, t |-> x] : o \in CondOps \cup {"JMP"}, x \in Targets}

\* isUnpredicatedTerminator: every branch and jump (Rigel has no predicated
\* instructions).
IsTerminator(mi) == mi.op \notin {"other", "dbg"}

NoOpc == "0"   \* the opcode 0 that GetAnalyzableBrOpc returns for "no"

\* GetAnalyzableBrOpc: the direct branches and JMP, not JR.
GetAnalyzableBrOpc(op) ==
  IF op \in {"BEQ", "BNE", "BGE", "BGT", "BLE", "BLT", "BE", "BNZ", "JMP"}
  THEN op ELSE NoOpc

Analyzable(mi) == GetAnalyzableBrOpc(mi.op) # NoOpc

\* Mutant: BGT and BLT taken as each other's opposites.
GetOppositeBranchOpcodeGtLt(op) ==
  CASE op = "BEQ" -> "BNE" [] op = "BNE" -> "BEQ"
    [] op = "BE"  -> "BNZ" [] op = "BNZ" -> "BE"
    [] op = "BGT" -> "BLT" [] op = "BGE" -> "BLE"
    [] op = "BLT" -> "BGT" [] op = "BLE" -> "BGE"

\* Rigel::GetOppositeBranchOpcode.
GetOppositeBranchOpcode(op) ==
  CASE op = "BEQ" -> "BNE" [] op = "BNE" -> "BEQ"
    [] op = "BE"  -> "BNZ" [] op = "BNZ" -> "BE"
    [] op = "BGT" -> "BLE" [] op = "BGE" -> "BLT"
    [] op = "BLT" -> "BGE" [] op = "BLE" -> "BGT"

(***************************************************************************)
(* What a block does.  Rel is the outcome of the comparison.  A branch    *)
(* tests its opcode's relation: BE and BNZ compare with zero, and the     *)
(* others compare two registers.  The successor is the target of the      *)
(* first branch taken, or the layout successor if none is taken.          *)
(***************************************************************************)
Rel == {"lt", "eq", "gt"}

Holds(op, e) ==
  CASE op \in {"BEQ", "BE"}  -> e = "eq"
    [] op \in {"BNE", "BNZ"} -> e # "eq"
    [] op = "BGT" -> e = "gt"
    [] op = "BGE" -> e # "lt"
    [] op = "BLT" -> e = "lt"
    [] op = "BLE" -> e # "gt"

AllCondOps == {"BEQ", "BNE", "BGE", "BGT", "BLE", "BLT", "BE", "BNZ"}

Taken(mi, e) ==
  \/ mi.op \in {"JMP", "JR"}
  \/ mi.op \in AllCondOps /\ Holds(mi.op, e)

BlockSucc(b, e) ==
  LET taken == {i \in 1..Len(b) : Taken(b[i], e)}
  IN IF taken = {} THEN LayoutNext
     ELSE LET mi == b[Min(taken)] IN IF mi.op = "JR" THEN Indirect ELSE mi.t

\* A block the verifier accepts: once a terminator appears, only
\* terminators follow, and then only DBG_VALUEs.
WellFormed(b) ==
  \A i, j \in 1..Len(b) :
    (i < j /\ IsTerminator(b[i]) /\ ~IsTerminator(b[j]))
      => /\ b[j].op = "dbg"
         /\ \A k \in j..Len(b) : ~IsTerminator(b[k])

Blocks == {b \in BoundedSeq(Instrs, MaxLen) : WellFormed(b)}

(***************************************************************************)
(* The hooks.                                                              *)
(***************************************************************************)

\* Mutant: the trailing DBG_VALUEs not skipped.
LastNonDebugNoSkip(b) == Len(b)

\* The reverse iterator after "skip all the debug instructions": the
\* position of the last instruction that is not a DBG_VALUE (0 at rend).
LastNonDebug(b) ==
  LET nd == {i \in 1..Len(b) : b[i].op # "dbg"} IN IF nd = {} THEN 0 ELSE Max(nd)

\* AnalyzeCondBr: the target is the last explicit operand, and Cond starts
\* with the opcode (the register operands are abstracted).
AnalyzeCondBr(mi) == [tbb |-> mi.t, cond |-> << GetAnalyzableBrOpc(mi.op) >>]

\* AnalyzeBranch.  fail is its return value.  block is the block afterwards,
\* which differs only when AllowModify lets it erase a branch after a JMP.
\* Note that "++I" steps to the previous instruction without skipping
\* debug values.
AnalyzeBranch(b, allowModify) ==
  LET n == LastNonDebug(b)
      last == b[n]
      second == b[n - 1]
      secondOpc == IF n > 1 THEN GetAnalyzableBrOpc(second.op) ELSE NoOpc
      Ok(tbb, fbb, cond, blk) ==
        [fail |-> FALSE, tbb |-> tbb, fbb |-> fbb, cond |-> cond, block |-> blk]
      Fail == [fail |-> TRUE, tbb |-> None, fbb |-> None, cond |-> << >>, block |-> b]
  IN CASE n = 0 \/ ~IsTerminator(last) -> Ok(None, None, << >>, b)
       [] ~Analyzable(last) -> Fail
       [] n > 1 /\ IsTerminator(second) /\ secondOpc = NoOpc -> Fail
       [] secondOpc = NoOpc /\ last.op = "JMP" -> Ok(last.t, None, << >>, b)
       [] secondOpc = NoOpc ->
            Ok(AnalyzeCondBr(last).tbb, None, AnalyzeCondBr(last).cond, b)
       [] n > 2 /\ IsTerminator(b[n - 2]) -> Fail
       [] secondOpc = "JMP" /\ ~allowModify -> Fail
       [] secondOpc = "JMP" -> Ok(second.t, None, << >>, RemoveAt(b, n))
       [] last.op # "JMP" -> Fail
       [] OTHER -> Ok(AnalyzeCondBr(second).tbb, last.t, AnalyzeCondBr(second).cond, b)

\* Mutant: at most one branch removed.
RemoveBranchOne(b) ==
  LET n == LastNonDebug(b)
      removed == IF n >= 1 /\ Analyzable(b[n]) THEN 1 ELSE 0
  IN SubSeq(b, 1, n - removed) \o SubSeq(b, n + 1, Len(b))

\* RemoveBranch: up to two analyzable branches before the trailing debug
\* values are erased; an indirect jump stops the loop.
RemoveBranch(b) ==
  LET n == LastNonDebug(b)
      removed == IF n >= 1 /\ Analyzable(b[n])
                 THEN IF n >= 2 /\ Analyzable(b[n - 1]) THEN 2 ELSE 1
                 ELSE 0
  IN SubSeq(b, 1, n - removed) \o SubSeq(b, n + 1, Len(b))

\* InsertBranch: a two-way branch is the conditional branch to TBB and a JMP
\* to FBB.  A one-way branch is a JMP, or the conditional branch, to TBB.
\* Both are appended at the end of the block.
InsertBranch(b, tbb, fbb, cond) ==
  b \o (IF fbb # None
        THEN << [op |-> cond[1], t |-> tbb], [op |-> "JMP", t |-> fbb] >>
        ELSE IF cond = << >> THEN << [op |-> "JMP", t |-> tbb] >>
        ELSE << [op |-> cond[1], t |-> tbb] >>)

\* ReverseBranchCondition: the opcode in Cond[0] is replaced by its
\* opposite.
ReverseBranchCondition(cond) == << GetOppositeBranchOpcode(cond[1]) >>

-----------------------------------------------------------------------------
(***************************************************************************)
(* The client, in the way branch folding uses the hooks.  It analyses the *)
(* block (with or without AllowModify) and gives up if that fails.  It    *)
(* removes the branches.  Then it either reinserts them as analysed,      *)
(* reverses the condition and swaps the targets, or leaves the block      *)
(* falling through when its only jump went to the layout successor.       *)
(***************************************************************************)
VARIABLES
  orig,   \* the block as it was
  block,  \* the block now
  res,    \* the analysis: TBB, FBB and Cond
  pc      \* the client's position

vars == << orig, block, res, pc >>

Init ==
  /\ orig \in Blocks
  /\ block = orig
  /\ res = [tbb |-> None, fbb |-> None, cond |-> << >>]
  /\ pc = "Start"

Analyze ==
  /\ pc = "Start"
  /\ \E allowModify \in BOOLEAN :
       LET r == AnalyzeBranch(block, allowModify)
       IN /\ res' = [tbb |-> r.tbb, fbb |-> r.fbb, cond |-> r.cond]
          /\ block' = r.block
          /\ pc' = IF r.fail THEN "Done" ELSE "Analyzed"
  /\ UNCHANGED orig

RemoveBranches ==
  /\ pc = "Analyzed"
  /\ block' = RemoveBranch(block)
  /\ pc' = "Removed"
  /\ UNCHANGED << orig, res >>

\* Branch to the other target on the opposite condition.  Without an FBB
\* the other target is the layout successor.
ReverseCondition ==
  /\ pc = "Removed"
  /\ res.cond # << >>
  /\ res' = [cond |-> ReverseBranchCondition(res.cond),
             tbb |-> IF res.fbb = None THEN LayoutNext ELSE res.fbb,
             fbb |-> res.tbb]
  /\ pc' = "Reversed"
  /\ UNCHANGED << orig, block >>

Insert ==
  /\ pc \in {"Removed", "Reversed"}
  /\ res.tbb # None
  /\ block' = InsertBranch(block, res.tbb, res.fbb, res.cond)
  /\ pc' = "Done"
  /\ UNCHANGED << orig, res >>

\* A block that falls through, or whose only jump goes to the layout
\* successor, is left without branches.
LeaveFallThrough ==
  /\ pc = "Removed"
  /\ res.cond = << >>
  /\ res.tbb \in {None, LayoutNext}
  /\ pc' = "Done"
  /\ UNCHANGED << orig, block, res >>

Next == Analyze \/ RemoveBranches \/ ReverseCondition \/ Insert \/ LeaveFallThrough

Spec == Init /\ [][Next]_vars

-----------------------------------------------------------------------------
(***************************************************************************)
(* Properties                                                              *)
(***************************************************************************)

\* The successor that TBB, FBB and Cond describe, with the analysis'
\* conventions: no TBB is a fall-through, an empty Cond is unconditional,
\* and no FBB falls through when the condition fails.
Described(r, e) ==
  IF r.tbb = None THEN LayoutNext
  ELSE IF r.cond = << >> \/ Holds(r.cond[1], e) THEN r.tbb
  ELSE IF r.fbb = None THEN LayoutNext ELSE r.fbb

\* Types.  Once RemoveBranch has run on an analysed block, the block falls
\* through whatever the comparison gives.
TypeOK ==
  /\ orig \in Blocks
  /\ block \in Seq(Instrs \cup {[op |-> o, t |-> x] : o \in AllCondOps, x \in Targets})
  /\ res.tbb \in Targets \cup {None} /\ res.fbb \in Targets \cup {None}
  /\ pc \in {"Start", "Analyzed", "Removed", "Reversed", "Done"}
  /\ pc = "Removed" => \A e \in Rel : BlockSucc(block, e) = LayoutNext

\* When AnalyzeBranch succeeds, TBB, FBB and Cond give the block's
\* successor for every outcome of the comparison, and the branch it may
\* erase after a JMP changes no successor.
AnalysisDescribesBlock ==
  pc = "Analyzed" =>
    \A e \in Rel : BlockSucc(block, e) = Described(res, e)
                   /\ BlockSucc(block, e) = BlockSucc(orig, e)

\* Analyse, remove, (reverse,) insert: at the end the block has the same
\* successor as before for every outcome, and the same other instructions.
EditsPreserveSuccessors ==
  pc = "Done" =>
    /\ \A e \in Rel : BlockSucc(block, e) = BlockSucc(orig, e)
    /\ SelectSeq(block, LAMBDA mi : ~IsTerminator(mi) /\ mi.op # "dbg")
         = SelectSeq(orig, LAMBDA mi : ~IsTerminator(mi) /\ mi.op # "dbg")

====
