# TLA+ models of the Rigel LLVM 2.8 backend

This directory holds the model-checking project for the Rigel code generator in
`src/llvm-2.8/lib/Target/Rigel`. Rigel is a 32-bit little-endian RISC target.
It has 16-bit immediates, word-only memory accesses and eight argument
registers, A0..A7. The modules are translated from the C++ source, and TLC
checks them.

## The system

The backend turns LLVM's selection DAG into Rigel machine code. It runs one
function at a time, in a fixed order of passes, in a single thread.

| Part | Source | State it keeps | Operations |
|---|---|---|---|
| Memory Access Lowering | `RigelISelLowering.cpp` `LowerLOAD`, `LowerSTORE`, `IsWordAlignedBasePlusConstantOffset` | none (it rewrites DAG nodes) | Lowers a load of i8/i16/i32 to word loads, shifts, masks and calls. Lowers a store to SW or to a runtime call. |
| Calling Convention Engine | `RigelISelLowering.cpp` `LowerCall`, `LowerFormalArguments`, `LowerVASTART`, `LowerReturn`, `LowerCallResult`; CC_Rigel and RetCC_Rigel (generated) | `RigelFunctionInfo`: FnLoadArgs, FnStoreVarArgs, VarArgsFrameIndex, SRetReturnReg; the fixed frame objects; the function's live-out registers | Places arguments on the caller side. Binds them on the callee side. Spills the variadic registers. Copies return values into V0/V1 and out again. |
| Frame Layout & Index Elimination | `RigelRegisterInfo.cpp` `adjustRigelStackFrame`, `eliminateFrameIndex`, `emitPrologue`, `emitEpilogue`; `RigelMachineFunction.h` | `MachineFrameInfo` object offsets and stack size; FP/RA slot offsets | Finalises the frame once. Rewrites frame indices to SP/FP + offset, using AT for large offsets. Emits the prologue and epilogue. |
| Address Materializer | `LowerGlobalAddress`, `LowerBlockAddress`, `LowerJumpTable`, `LowerConstantPool` | none | Builds a Hi/Lo pair for a symbol. |
| Pseudo-Instruction Expander | `RigelExpandPseudoInsts.cpp` | the block's instruction list | Expands MOVi32imm into MVUi + ORi and transfers its implicit operands. |
| Select Lowering | `RigelISelLowering.cpp` `LowerSELECT`, `EmitInstrWithCustomInserter` | the function's blocks, successors and PHIs | Turns a select into a diamond of blocks joined by a PHI. |
| Spill and reload | `RigelInstrInfo.cpp` `storeRegToStackSlot`, `loadRegFromStackSlot`, `isLoadFromStackSlot`, `isStoreToStackSlot`, `copyPhysReg` | none (it builds and recognises instructions) | Builds the spill SW and reload LW of a frame index. Tells generic passes which instructions move a whole stack slot. Emits a register copy. |
| Branch Analyzer/Editor | `RigelInstrInfo.cpp` | the block's terminators | `AnalyzeBranch`, `InsertBranch`, `RemoveBranch` and `ReverseBranchCondition`. |
| Assembly printer | `AsmPrinter/RigelAsmPrinter.cpp` | none | Prints operands, immediates and %hi/%lo, and the `.mask`/`.fmask` directives that tell the assembler which registers the prologue saved and where. |

**How the parts interact.**
- The calling convention creates frame objects with placeholder offsets.
- Frame layout rewrites those offsets only after the frame is sized, in `adjustRigelStackFrame`, which `emitPrologue` calls.
- `eliminateFrameIndex` then turns every frame index into a register + offset.
- A caller and a callee are compiled separately. They agree on where an argument lives only through these rules.
- Loads and stores that the calling convention creates go through Memory Access Lowering.

**What makes the code hard to get right.**
- Shift and mask arithmetic on sub-word data. The i8 path relies on the hardware shift amount being taken modulo 32.
- Offsets that are placeholders until a later pass.
- The choice of base register. FP and SP differ after an alloca.
- The variadic protocol: register spills, the home area, and VarArgsFrameIndex.
- Branch-editing sequences that must keep a block's successors.
- Two-instruction materialisation of 32-bit values.

## Modules

### `RigelMemLowering` (Memory Access Lowering)

**State.**
- `mem` is a little-endian byte memory.
- `last` is the last lowered operation and what it produced.

**Actions.**
- `Load(ld)` lowers one load with `LowerLOAD`, runs the DAG it builds (`Exec`) on `mem`, and records the value and the word addresses loaded.
- `Store(st, v)` lowers one store with `LowerSTORE` and applies it.

**Inputs.** Every load descriptor a selector can produce over the memory:
- width 8, 16 or 32;
- declared alignment 1 or 4 (the code only tests `>= 4`);
- extension sext, zext or any;
- address shape "frame index + constant" or "other";
- base address and offset −3..7.

**Word width is scaled.** A byte has `ByteBits` bits: 2 in the run, 8 in the code. Every bit-count constant of the code is written in these units, and shifts are taken modulo the word width. This is how the scaled model represents the 32-bit hardware.

**Properties.**
- `LoadReturnsMemoryValue`: the lowered load returns the extended little-endian value.
- `AccessesWithinDatumWords`: every word load is aligned and lies within the words of the datum.

Loads run on memories that lowered stores have written, so the properties check loads after every store sequence. Stores have no property of their own: each width is a single `SW` or one call to a runtime routine (`__unalignedsti32`, `__unalignedsti16`, `__sti8`), whose byte writes are the routine's, not the backend's.

### `RigelArgPassing` (Calling Convention + Frame Layout, composed)

This module follows one call from compilation to execution.

**Caller side.** `LowerCall` places each argument in a register or in a fixed object. Through `LowerCallResult` it also notes the V register each result is copied out of.

**Callee side, in the order instruction selection and PEI run:**
1. `LowerFormalArguments` creates fixed objects with dummy offset 0 and records placeholders in `RigelFunctionInfo`. For an sret function it creates `SRetReturnReg`.
2. `LowerReturn` runs once per return block (`shape.rets` of them). It records the copies each return makes in `retCode`: the returned values into V0/V1, and for sret, `SRetReturnReg` into V0. It fills `liveOuts` with the RetCC registers only while that set is empty.
3. `CalculateFrameObjectOffsets` is the generic PEI code. It is not in the repository and is modelled from the spec.
4. `AdjustRigelStackFrame` (from `emitPrologue`) installs the placeholders and adds the FP and RA slots.
5. `ReplaceFrameIndices` is `eliminateFrameIndex`.

**Execution.**
1. `CallerAllocates` is a DYNAMIC_STACKALLOC.
2. `CallSite` performs the stores, the A0..A7 copies and the jump.
3. `CalleeRuns` covers:
   - the prologue and the variadic spills;
   - the stores to locals;
   - reading every argument, the unnamed ones by va_arg from the pointer `LowerVASTART` stores: the address of frame object VarArgsFrameIndex;
   - the entry block's copy of argument 0 into `SRetReturnReg` (`sretVReg`).
4. `CalleeReturns(b)` leaves through return `b`, chosen freely: it runs that return's copies, gives back SP, and jumps to RA.
5. `CallerReadsResults` runs `LowerCallResult`'s copies out of V0/V1.

**Properties.**
- `ArgsReceivedAsPassed`: the callee gets every argument's value.
- `CalleeWritesOnlyItsFrame`, an action property: the callee writes only below the SP it was called with, or in the 32-byte home area the caller reserved.
- `TypeOK`: every frame index names an object, and every resolved offset is non-negative.
- `ResultsReceivedAsReturned`: whichever return the callee takes, the caller gets every returned value. An sret callee hands back in V0 the pointer it was passed. This needs `SRetReturnReg` to be created once at entry and copied at every return, not just at the first one lowered.
- `ReturnRegsLiveOut` (violation run `sret_liveout`): every register a lowered return writes is a live-out of the function. It fails for sret: V0 is copied after the live-out loop, and an sret function returns void, so the loop adds nothing.

### `RigelFrame` (Frame Layout, prologue/epilogue, spill/reload, printer)

This module compiles one function and then runs it on a small machine with registers ZERO, AT, SP, FP, RA, S0 and S1 and memory below and above the caller's SP.

**Immediate width is scaled.** `ImmBits` is the immediate field width (16 in the code), and a word has `2*ImmBits` bits. `IsIntImm` is `isInt<16>`. `PrintedImm` is `printOperand`: it prints ORi/ANDi/XORi/MVUi immediates as `(unsigned short)` and all others as `(short)`, so a value that does not fit is truncated, not rejected.

**Input.** A `shape` gives the number of locals, `noFramePointerElim`, whether the function calls, the alloca size, whether the function has a two-word object (`pair`, frame index `PairObj`), and how many callee-saved registers its body uses (`csr`, 0..2).

**Actions, in pass order.** The body starts as register allocation leaves it (`BodyCode`, see `RunBody` below). Two generic passes, which are not in the repository, edit it through the Rigel hooks:
- `RewriteSpills` is the spill rewriter's reuse of a value still in a register (`ForwardStoredReloads`). When `IsStoreToStackSlot` and `IsLoadFromStackSlot` say that a reload follows a store to the same slot, the reload becomes `CopyPhysReg` (`OR Dst, ZERO, Src`). Only adjacent pairs are modelled. Across anything else the rewriter's own tracking of clobbers would decide.
- `ColorStackSlots` is `StackSlotColoring::RemoveDeadStores`. A store that stores the register just loaded from the same slot is deleted. The load is deleted too when the store kills the register (`KillsAt`: no later read, not live out).

Then PEI, whose generic steps are not in the repository and are modelled from LLVM 2.8's PEI with Rigel's hooks:
- `LayOutFrame` is PEI's first three steps. `calculateCalleeSavedRegisters` walks `getCalleeSavedRegs` (S0..S7) and keeps the registers the body writes (`CalleeSavedInfo`), each with a new stack object after the locals (`CSFI`). `insertCSRSpillsAndRestores` uses the target's default hooks, since Rigel defines no `spillCalleeSavedRegisters`: `storeRegToStackSlot` of each at the start of the entry block, and `loadRegFromStackSlot` of each before the return. `calculateFrameObjectOffsets` (`GenericLayout`) works for `StackGrowsUp`, which is what `RigelTargetMachine` declares. It places the callee-saved objects first, from the highest frame index down, starting at offset 0, and then the locals.
- `EmitPrologue` is `emitPrologue`. It runs `AdjustRigelStackFrame` (aligned FP and RA slots above the locals) and then emits the SP adjustment, the RA and FP saves and the FP set-up. A stack size that does not fit goes through `Materialize` (MVUi + ORi into AT).
- `EmitEpilogue` is `emitEpilogue`: SP from FP when there is one, then RA, then FP, then SP.
- `ReplaceFrameIndices` runs `EliminateFrameIndex` on the body's frame accesses: base FP or SP (`FrameRegister`), and the AT path `ADD AT, SP, AT` when the offset does not fit.
- `EmitFunctionBodyStart` is the AsmPrinter's hook. It prints `.mask` and `.fmask` with `PrintSavedRegsBitmask` and `PrintHex32` into `asm`. A bitmask is modelled as the set of its bit numbers (`|=` is union), so RA's `1 << 31` needs no 32-bit arithmetic. `RegisterNumbering` is `getRegisterNumbering` (S0 is 18, FP is 30, RA is 31). Every CSI register goes into the CPU mask. `AdjustRigelStackFrame` sets `CPUTopSavedRegOff` only from the FP and RA slots: it is the last of those slots minus the aligned stack size. `RigelFunctionInfoInit` gives every offset its constructor value 0.
- `RunPrologue`, `RunBody` and `RunEpilogue` execute the code. The body does the alloca, fills the buffer, spills every local with `StoreRegToStackSlot`, calls (the callee clobbers `CalleeFrame` bytes below SP and AT, and keeps the callee-saved registers), overwrites its callee-saved registers, reloads each local with `LoadRegFromStackSlot` and stores it back (the pattern the dead-store removal targets), and rereads the buffer. With a pair, the body first stores AV to word 1 of the object, then copies word 1 to word 0 through TMP with `LW TMP, 4(FI)` and `SW TMP, 0(FI)`, a field copy at a non-zero offset. It reads word 0 back after the call.

**Properties.**
- `TypeOK`: after layout, the callee-saved and local objects, the FP slot and the RA slot are distinct aligned words inside an aligned frame.
- `LocalsKeepTheirValues`: every reload returns the spilled value, the alloca buffer keeps its contents, and word 0 of the pair holds the copied value. The spill clients' edits are only sound if `isLoadFromStackSlot` and `isStoreToStackSlot` reject an access at a non-zero offset, so this property also checks the hooks. Three plausible bugs each violate it: dropping `isZeroImm` from `isLoadFromStackSlot` (the field copy's store is then deleted), swapping `copyPhysReg`'s operands, and deleting the load without the kill check.
- `RestoresCallerState`: after the epilogue, SP, FP, RA and the callee-saved registers are the caller's, and nothing at or above the caller's SP changed.
- `MaskNamesSaves`: the hex digits of the printed `.mask` name exactly the registers the function saves (FP, RA and the CSI registers, `SavedRegs`). Once the body has run, FP and RA, the two highest numbers, hold their values at the call where the directive says (`MaskSlot`). The comment at the top of the printer says the assembler reads the directive this way: the register with the k-th highest number is at `offset - 4k` from the SP before the subtraction. This ties the printer, PEI's CSI, `adjustRigelStackFrame` and the prologue's saves (also the AT path for RA) together.
- `MaskDescribesSaves` (violation run `frame_csr_mask`): the same location rule holds for every saved register, callee-saved ones included.

### `RigelBranch` (Branch Analyzer/Editor)

A block is a sequence of at most `MaxLen` instructions: the eight conditional branches with a target, JMP, JR, DBG_VALUE and "other". `WellFormed` keeps the blocks LLVM can build: terminators at the end, and DBG_VALUEs only before the first terminator or after the last. `BlockSucc(b, e)` is where control goes for each comparison outcome `e`; it is the reference the edits are checked against.

**Operators translated from `RigelInstrInfo.cpp`.** `GetAnalyzableBrOpc`, `GetOppositeBranchOpcode`, `AnalyzeCondBr`, `AnalyzeBranch` (with and without `AllowModify`), `RemoveBranch`, `InsertBranch` and `ReverseBranchCondition`.

**Actions.** These follow the sequence branch folding uses: `Analyze`, then `RemoveBranches`, then optionally `ReverseCondition`, then `Insert`, or `LeaveFallThrough` when the block should fall through.

**Properties.**
- `TypeOK`: after `RemoveBranch` the block falls through for every outcome.
- `AnalysisDescribesBlock`: a successful analysis gives the block's real successor for every outcome, and the JMP it may erase changed nothing.
- `EditsPreserveSuccessors`: after the whole sequence the block has the same successors and the same non-branch instructions.

### `RigelExpandPseudo` and `MCRigelExpandPseudo` (Pseudo-Instruction Expander)

**State.**
- `fn` is the function.
- `blk` and `pos` are the iterators of `runOnMachineFunction` and `ExpandMBB`.
- `modified` is the pass's result.

**Instructions.** MOVi32imm carries a Dst, an immediate, a dead flag and implicit operands. READ is any instruction that reads a register, with a kill flag.

**Actions.**
- `ExpandMBB` handles one loop iteration. A MOVi32imm becomes `MVUi Dst, Hi16` and `ORi Dst<dead?>, Dst, Lo16`. `TransferImpOps` gives the implicit uses to the MVUi and the implicit defs to the ORi. The loop goes on at the saved next iterator.
- `NextBlock` moves to the next block.

**Bounds.** `ImmBits = 2`, so the word has 4 bits. The MC module supplies immediates -1, 6 and 9, which give every combination of zero and non-zero halves and a negative value. It also supplies the choices of implicit operands, because records and negative numbers cannot be written in a .cfg.

**Properties.**
- `TypeOK`: when the pass is done, no pseudo is left, and `modified` says whether there was one. This is the pass's completion claim. A saved next iterator that skips an instruction violates it.
- `ExpansionPreservesBehaviour`: after the pass, the function computes the same registers and reads the same values, implicit uses included.
- `FlagsStayConsistent`: at every step, no register is read after an instruction killed it or defined it dead.

`Run` is the machine: `RunFrom` steps through the flattened function with `Step`.

### `RigelSelect` (Select Lowering)

**The function.** A machine function is a record:
- `code`: block → instructions;
- `succs`: block → successor set;
- `layout`: the order of the blocks.

**Instructions.** `Select_CC_to_i Dst, Cond, TrueVal, FalseVal` is what `LowerSELECT`'s `SelectCC(Cond, True, False)` is selected to. There are also PHI, BNZ, J and RET.

**The inserter.** `EmitInstrWithCustomInserter` is translated step by step:
1. Create copy0MBB and sinkMBB and insert them after BB in the layout.
2. Splice the rest of BB into sinkMBB.
3. `TransferSuccessorsAndUpdatePHIs`.
4. `DiamondSuccs`.
5. Emit `BNZ Cond, sinkMBB`.
6. Emit `SinkPhi`: `Dst = PHI [FalseVal, copy0MBB], [TrueVal, thisMBB]`.
7. Return sinkMBB (`ResumeBlock`).

**Actions.** `EmitSelect`, `EmitOther` and `NextLLVMBlock` walk the blocks the way the instruction emitter does. Emission goes on in the block the inserter returns.

**Inputs.**
- Block 1 holds up to `MaxSel` selects, each reading inputs or earlier selects. It ends with one of: nothing, `J 3`, `BNZ c, 3`, or `BNZ c, 3; J 2`.
- Block 2 jumps to block 3, returns, or falls through into it.
- Block 3 has a PHI over its predecessors and then returns.

**The reference semantics.** `ExecStep` executes one instruction (or falls through to the next block in the layout), and `ExecFrom` repeats it until RET, falling off the layout, or running out of block transfers. A PHI takes the operand of the block control came from. An unexpanded select is `Cond ? TrueVal : FalseVal` (`DefValue`). `ExecFrom` binds each next state as a value (`{ExecFrom(f, t) : t \in {n}}`). TLC does not cache operator arguments, so without the binding every earlier state is re-evaluated once per use.

**Properties.**
- `TypeOK`: the layout is a permutation of the blocks, and no select is left when emission ends. This fails if the inserter hands back the wrong block.
- `SuccessorsMatchBranches`: every block's successor set is exactly where its branches and fall-through lead.
- `PhisMatchPredecessors`: every PHI names exactly its block's predecessors.
- `SelectPreservesBehaviour`: at every step, for all 0/1 inputs, the function returns the same registers as before.

## Runs

| Run | Cfg | Expect | What it shows |
|---|---|---|---|
| mem_lowering | `RigelMemLowering.cfg` | pass | All 2-word memories over two byte values, every valid load and every store with 4 register values. All three widths, both alignment classes, every phase 0..3 including the straddling i16, and negative offsets. About 54k states, about 2 min. |
| arg_passing | `RigelArgPassing.cfg` | pass | 0..10 arguments, so the ninth and tenth are on the stack. Fixed-arity callees, and variadic callees naming 1..7 arguments. Callee with and without a local, FP and calls. Caller with and without FP, and with an 8-byte alloca before register-only calls. 0..2 returned values or an sret struct, and one or two return statements. 143k states, about 7 s. |
| varargs_eight_named | `RigelArgPassingVarArgs8.cfg` | violation | A variadic callee naming 8 arguments reads its 9th (unnamed) argument from frame object 0. |
| alloca_stack_args | `RigelArgPassingAlloca.cfg` | violation | After an alloca, the caller stores the 9th argument at FP+0 and the callee reads it from the alloca buffer. |
| sret_liveout | `RigelArgPassingSRet.cfg` | violation | An sret callee with one or two returns. Its lowered returns write V0, but V0 is never added to the live-out set. |
| frame | `RigelFrame.cfg` | pass | Functions with 0..3 locals (or up to one local and a two-word object), with or without FP, calls and an alloca of 0, 4 or 8 bytes, rewritten by the spill clients and then compiled under a 4-bit field. Offsets of 8 or more take the AT path, and a 2-local FP frame has FPOffset 8. Each function uses 0, 1 or 2 callee-saved registers. The `.mask` directive is checked for every combination of S, FP and RA saves. 726 states. |
| frame_large_offset_alloca | `RigelFrameLargeOffset.cfg` | violation | After an alloca, a local whose offset does not fit is addressed from SP instead of FP, and its spill lands on another local. |
| frame_csr_mask | `RigelFrameCSR.cfg` | violation | A leaf function that uses S0 prints `.mask 0x00040000,0`, which places S0 at the caller's SP. PEI saved it at the bottom of the frame. |
| frame_fp_offset_unchecked | `RigelFrameFPOffset.cfg` | violation | An FP slot offset that does not fit is printed as a negative offset. FP is saved below SP, the callee overwrites it, and the caller gets the wrong FP back. |
| branch_edit | `RigelBranch.cfg` | pass | Every well-formed block of up to 3 instructions over two targets and all 8 conditional branches, through every edit sequence. 18.9k states. |
| expand_pseudo | `RigelExpandPseudo.cfg` (module `MCRigelExpandPseudo`) | pass | Blocks of up to 3 pseudos and reads over 2 registers, with every flag and implicit-operand choice. 215k states, about 10 s. |
| select_diamond | `RigelSelect.cfg` | pass | Two input registers, up to two selects in a block, every branch shape, and a join block with a PHI. The invariants hold at every step of emission. 662k states, about 1 min. |

**Why these bounds are enough.**
- Each lowering decision depends only on:
  - the width;
  - whether alignment is at least 4;
  - the phase of the offset modulo 4;
  - whether the base is frame-index-rooted.

  All of these are enumerated.
- Two words are the fewest that let an i16 or i32 straddle a word boundary.
- On the call side, 10 arguments reach both the register/stack boundary (8) and a second stack slot.
- Named counts 1..7 cover every length of the spill loop.
- In `RigelFrame`, a 4-bit field makes offsets of 8 or more "large". Frames of 0..3 locals with an alloca therefore reach both the direct and the AT path of `eliminateFrameIndex`, and the materialised stack size. The default run bounds FP frames to one word below the FP slot (a local or a callee-saved register), which keeps the FP slot offset inside the field. Two callee-saved registers are the fewest for which their order in the frame matters. The same bound keeps the two-word object to frames without FP. A one-local function without a call gets a store followed by a reload of the same slot, so the forwarding fires. Every local's reload and store-back is a dead store. The pair's field copy is the access at a non-zero offset that the hooks must reject. The two violation runs lift that bound.
- A `RigelBranch` block of 3 instructions holds two terminators and a DBG_VALUE, or a branch between other instructions. Two targets tell "same target" from "different target". The layout successor is one of them.
- In `RigelExpandPseudo`, 2-bit halves keep every case of the split: a zero half, a non-zero half, and a negative 64-bit immediate. Three instructions put a pseudo between reads of its Dst and of its implicit operands.
- In `RigelSelect`, two selects in one block make the inserter split a block it has already split. The second select's PHI, its successor transfer and the join block's PHI then go through two rounds of retargeting.
- Two input registers are the fewest for which a select's true and false values can differ, so a swapped PHI changes what the function returns.
- On the return side, two i32 results make a swap of V0 and V1 visible, and two return statements give a return that is not the first one lowered.

**Fairness and liveness.** Every module is a terminating, single-threaded compilation step, so every property is a safety property and no fairness is assumed. A pass that stops early is caught by the `TypeOK` clauses of the two pseudo-lowering passes. They say that no pseudo is left once the pass is done. Every run says `CHECK_DEADLOCK FALSE` because its model compiles (and, for the frame and argument models, runs) one function and then has nothing left to do.

## Findings

**1. `LowerFormalArguments` (`RigelISelLowering.cpp:1377`).** The bug appears when a variadic callee's last named argument is not in a register, which happens with 8 or more named arguments.
- VarArgsFrameIndex stays 0.
- va_list then points at the first local (or at no object), not at the first unnamed argument.

**2. Outgoing stack arguments after an alloca (`RigelRegisterInfo.cpp:286`).** The same root cause also puts a variadic callee's home area inside the caller's alloca buffer.
- The caller's stores are FP-relative.
- The callee resolves its placeholders against the SP it was called with, and an alloca has moved that SP.
- `eliminateCallFramePseudoInstr` discards the call-frame adjustment, so nothing corrects this.

**3. Large offsets after an alloca (`RigelRegisterInfo.cpp:306`).**
- `eliminateFrameIndex` takes FP as the base when the function has an alloca.
- On the AT path it computes `AT = SP + Offset`.
- After the alloca SP is below FP, so the spill of a far local overwrites another local.

**4. The FP save offset is never checked (`RigelRegisterInfo.cpp:379`).**
- `emitPrologue` checks the stack size and the RA offset against 16 bits.
- It emits `SW FP, FPOffset(SP)` without a check.
- The printer truncates the offset to a negative `short`. FP is saved below SP, where a callee overwrites it.

**5. V0 is not a live-out of an sret function (`RigelISelLowering.cpp:1468`).**
- `LowerReturn` adds the RetCC registers to the live-out set only while the set is empty.
- An sret function returns void, so the loop adds nothing. The copy of `SRetReturnReg` into V0 comes after the loop.
- `RigelISD::Ret` uses only RA. After instruction selection nothing records that V0 is live at the return, so a pass that trusts the live-outs may treat the copy as dead. The spec says the pointer is copied into the return-pointer register before every return.

**6. The `.mask` directive misplaces callee-saved registers (`RigelRegisterInfo.cpp:227`).**
- `printSavedRegsBitmask` puts every CSI register into the mask.
- `adjustRigelStackFrame` reads CSI but sets `CPUTopSavedRegOff` only from the FP and RA slots. Without them it stays 0.
- Generic PEI lays the callee-saved slots out first, from offset 0, with the highest frame index lowest.
- The comment above the printer says the offset locates the highest-numbered saved register, relative to the SP before the subtraction, with the others in the words below it. A leaf function that uses S0 prints `.mask 0x00040000,0`, which says S0 is at the caller's SP, but S0 is saved at `StackSize-4`. With FP or RA present, the S registers sit at the bottom of the frame, not just below FP. The code runs correctly. Only a reader of the directive, such as a debugger or an unwinder, is misled.

## Not modelled, and plan

- **Address Materializer.** `LowerGlobalAddress`, `LowerBlockAddress`, `LowerJumpTable` and `LowerConstantPool` build `ADD(Hi(sym), Lo(sym))`. `isOffsetFoldingLegal` returns false, so the offset is always 0. What Hi and Lo compute is set by the instruction patterns (`.td`) and by the %hi/%lo relocations of the assembler. Neither is in the repository, so there is nothing to translate the arithmetic from.
- **Select_FCC.** `EmitInstrWithCustomInserter` only asserts on this case. Nothing creates a `RigelISD::FPCmp` node, so `LowerSELECT` never builds `FPSelectCC`.
- **Register allocation.** `getReservedRegs` (ZERO, AT, SP, FP, RA) only restricts the register allocator, which is not modelled. The frame model fixes which callee-saved registers the body uses (S0 and S1 at most).
- **Refinement and liveness.** The two pseudo-lowering passes replace one pseudo per step. An abstract "one pseudo fewer, same meaning" specification would only restate their invariants, so none is stated.
- **Return values: generic passes.** RetCC_Rigel is generated from a `.td` file that is not in the repository. It is modelled from the spec as V0, V1 for the first two i32 results. The model stops at the live-out set. The generic passes that read that set (LiveVariables, dead-instruction elimination) are not part of the repository. So `sret_liveout` shows that V0 is missing from the set, not that a particular pass deletes the copy.
- **Other hooks.** `insertNoop` only inserts a NOP, and no pass in the repository calls it. Under PIC only, `getGlobalBaseReg` copies GP into a virtual register once per function, and `processFunctionBeforeFrameFinalized` places the GP save slot. None of them has an ordering or interleaving worth a model; the frame models assume a non-PIC function. Under PIC the GP slot would be wrong in any case. `setGPFI` is never called, so `GPHolder` keeps its initial (-1, -1). `processFunctionBeforeFrameFinalized` would then move fixed object -1, the first incoming stack argument or vararg save slot, to offset -1. In a function with no fixed object, that index does not exist.
- **Legalizer configuration and dispatch.** The `RigelTargetLowering` constructor is a table of `setOperationAction`, `setLoadExtAction` and `setTruncStoreAction` entries. `LowerOperation` switches on the opcode, and `ReplaceNodeResults` is reached only for LOAD, where it returns no result, so the generic promotion applies. `LowerINT_TO_FP` turns an unsigned or f64 conversion into a libcall. Every opcode marked Custom has a case in `LowerOperation`. The loads and stores it dispatches are the inputs of `RigelMemLowering`, and SELECT and VASTART those of `RigelSelect` and `RigelArgPassing`. What Legal, Expand and Promote do is generic `LegalizeDAG` code, which is not in the repository. So the table has no behaviour of its own to model beyond the lowerings that are already modelled.
- **Assembly printer text.** `printOperand`'s register, block, symbol, jump-table and constant-pool cases, `printMemOperand` (offset before base, or the base alone for JALR) and `printUnsignedImm` produce text. Its meaning, notably of a symbol printed without `%lo(...)` in the low half of a Hi/Lo pair, is fixed by the assembler, which is not in the repository.
- **Left out entirely:** the binutils opcode table (data), clang's GlobalDecl, the front-end test, and the target-description boilerplate (configuration).
