-------------------------- MODULE RigelMemLowering --------------------------
(***************************************************************************)
(* Load lowering of RigelTargetLowering::LowerLOAD                         *)
(* (RigelISelLowering.cpp).  A load of an i8, i16 or i32 value is turned   *)
(* into a straight-line DAG of word loads (LW), shifts, masks, ors,        *)
(* sign-extensions and runtime calls.  The DAG is a sequence of nodes in   *)
(* topological order; Exec interprets it against a little-endian byte      *)
(* memory and is compared with the value the load must produce.            *)
(*                                                                         *)
(* Data abstraction: a byte has ByteBits bits (8 in the code), a word is   *)
(* four bytes, WordBits = 4 * ByteBits (32 in the code).  Every constant   *)
(* of the code that is a bit count is written in these units: the shift    *)
(* "(offset & 0x3) * 8" is (offset % 4) * ByteBits, "32 - ..." is         *)
(* WordBits - ..., the mask 0xFFFF is 2^(2*ByteBits) - 1, and "shl 3" of   *)
(* the byte path is a multiplication by ByteBits.  Shift amounts are       *)
(* taken modulo WordBits, as the 5-bit shamt field of the hardware does    *)
(* (the FIXME at the i8 path relies on exactly that).                      *)
(***************************************************************************)
EXTENDS Integers, Sequences, FiniteSets, Bitwise

CONSTANTS
  ByteBits,     \* bits per byte (8 on Rigel)
  LogByteBits,  \* log2(ByteBits): the "3" of "shl basePtr, 3"
  MemWords,     \* number of words of the modelled memory
  ByteVals      \* byte values the initial memory is drawn from

ASSUME ByteBits = 2^LogByteBits /\ LogByteBits \in 1..3
ASSUME MemWords \in 1..4
ASSUME ByteVals \subseteq 0..(2^ByteBits - 1)

WordBits == 4 * ByteBits
WordMod  == 2^WordBits
Addr     == 0..(4 * MemWords - 1)

\* The memory VTs LowerLOAD handles, named by their width in bits in the
\* code, and the width in model bits.
VTs == {8, 16, 32}
Bits(vt) == (vt \div 8) * ByteBits
NBytes(vt) == vt \div 8

\* Two's complement "x & ~0x3" and "x & 0x3" on a (possibly negative) int.
AlignDown(x) == x - (x % 4)
Phase(x)     == x % 4

(***************************************************************************)
(* Hardware word semantics.                                                *)
(***************************************************************************)
LoadWord(mem, a) ==
  mem[a] + mem[a+1] * 2^ByteBits + mem[a+2] * 2^(2*ByteBits)
         + mem[a+3] * 2^(3*ByteBits)
ShiftL(x, s) == (x * 2^(s % WordBits)) % WordMod
ShiftR(x, s) == x \div 2^(s % WordBits)
SextInReg(x, bits) ==
  LET low == x % 2^bits
  IN  IF low >= 2^(bits - 1) THEN low + WordMod - 2^bits ELSE low

\* Little-endian value of n bytes at address a.
RECURSIVE LEBytes(_, _, _)
LEBytes(mem, a, n) ==
  IF n = 0 THEN 0 ELSE mem[a] + 2^ByteBits * LEBytes(mem, a + 1, n - 1)

\* LW ignores the two low address bits; an access outside the modelled
\* memory reads 0.  Neither happens in a correct lowering: the property
\* AccessesWithinDatumWords says so.
LdValue(mem, a) ==
  IF AlignDown(a) >= 0 /\ AlignDown(a) + 3 \in Addr
  THEN LoadWord(mem, AlignDown(a)) ELSE 0

\* The runtime support routines (external; semantics as the spec states):
\* __unalignedldi32(ptr) -> i32 and __unalignedldi16(ptr) -> zero-extended.
LibCallResult(name, mem, p) ==
  IF name = "__unalignedldi32" THEN LEBytes(mem, p, 4) ELSE LEBytes(mem, p, 2)

(***************************************************************************)
(* Load descriptors as the selector hands them to LowerLOAD:               *)
(*  form = "FIPlusConst": basePtr is (add FI-rooted-base, constant off),   *)
(*         the shape IsWordAlignedBasePlusConstantOffset recognises;       *)
(*  form = "Other": any other pointer (register, Hi/Lo pair, ...).         *)
(* base is the runtime value of the aligned base, ptr = base + off.        *)
(***************************************************************************)
\* LowerLOAD and LowerSTORE only ask whether the alignment is >= 4, so the
\* declared alignments 1 (any address) and 4 cover every path; 2 takes the
\* same paths as 1.
Aligns == {1, 4}

\* ext: SEXTLOAD, ZEXTLOAD, EXTLOAD ("any") or NON_EXTLOAD ("none", i32).
LoadDesc == [vt: VTs, align: Aligns, ext: {"sext", "zext", "any", "none"},
             form: {"FIPlusConst", "Other"}, base: Addr, off: -3..7]

PtrOf(ld) == IF ld.form = "FIPlusConst" THEN ld.base + ld.off ELSE ld.base

\* The load descriptors a correct selector can produce over this memory:
\* the datum lies in memory, the declared alignment is true of the
\* address, an FI-rooted base is word aligned, and a non-ADD pointer has
\* no constant offset.
ValidLoad(ld) ==
  /\ PtrOf(ld) >= 0
  /\ PtrOf(ld) + NBytes(ld.vt) - 1 \in Addr
  /\ PtrOf(ld) % ld.align = 0
  /\ ld.form = "FIPlusConst" => ld.base % 4 = 0
  /\ ld.form = "Other" => ld.off = 0
  /\ (ld.vt = 32) <=> (ld.ext = "none")

(***************************************************************************)
(* DAG nodes.  An operand is the index of an earlier node.                 *)
(***************************************************************************)
PtrN            == [op |-> "ptr"]
BaseN           == [op |-> "base"]
AddN(i, k)      == [op |-> "addk", x |-> i, k |-> k]
AndN(i, k)      == [op |-> "andk", x |-> i, k |-> k]
ShlN(i, k)      == [op |-> "shlk", x |-> i, k |-> k]
SrlN(i, k)      == [op |-> "srlk", x |-> i, k |-> k]
ShlByN(i, j)    == [op |-> "shl", x |-> i, y |-> j]
SrlByN(i, j)    == [op |-> "srl", x |-> i, y |-> j]
OrN(i, j)       == [op |-> "or", x |-> i, y |-> j]
LdN(i)          == [op |-> "ld", x |-> i]
CallN(name, i)  == [op |-> "call", name |-> name, x |-> i]
SextN(i, bits)  == [op |-> "sext", x |-> i, k |-> bits]

\* Value of every node of code, for memory mem, basePtr p and aligned base b.
Exec(code, mem, p, b) ==
  LET val[i \in 1..Len(code)] ==
        LET n == code[i] IN
        CASE n.op = "ptr"  -> p
          [] n.op = "base" -> b
          [] n.op = "addk" -> (val[n.x] + n.k) % WordMod
          [] n.op = "andk" -> val[n.x] & n.k
          [] n.op = "shlk" -> ShiftL(val[n.x], n.k)
          [] n.op = "srlk" -> ShiftR(val[n.x], n.k)
          [] n.op = "shl"  -> ShiftL(val[n.x], val[n.y])
          [] n.op = "srl"  -> ShiftR(val[n.x], val[n.y])
          [] n.op = "or"   -> val[n.x] | val[n.y]
          [] n.op = "ld"   -> LdValue(mem, val[n.x])
          [] n.op = "call" -> LibCallResult(n.name, mem, val[n.x])
          [] n.op = "sext" -> SextInReg(val[n.x], n.k)
  IN val

\* Addresses of the word loads a run of code performs.
WordAccesses(code, mem, p, b) ==
  LET v == Exec(code, mem, p, b)
  IN  {v[code[i].x] : i \in {j \in 1..Len(code) : code[j].op = "ld"}}

(***************************************************************************)
(* LowerLOAD: the DAG built for each case.  Node 1 is basePtr, node 2 the  *)
(* AlignedBase found by IsWordAlignedBasePlusConstantOffset.               *)
(***************************************************************************)
\* Mutant: the isa<FrameIndexSDNode>(*Root) test dropped, so any
\* (add ptr, constant) is taken for a word-aligned base plus offset.
IsWordAlignedBasePlusConstantOffsetAnyBase(ld) == TRUE

IsWordAlignedBasePlusConstantOffset(ld) == ld.form = "FIPlusConst"

\* Mutant: the i16 straddle test "offsetwithinword == 3" written ">= 2".
I16CrossesWordsOffByOne(off) == Phase(off) >= 2

\* An i16 at intra-word phase 3 crosses into the next word.
I16CrossesWords(off) == Phase(off) = 3

\* The extension of a narrow load's result: SIGN_EXTEND_INREG for SEXTLOAD,
\* AND with the width mask (0xFFFF / 0xFF) for ZEXTLOAD and EXTLOAD alike.
ExtendLoad(ld, code) ==
  code \o << IF ld.ext = "sext" THEN SextN(Len(code), Bits(ld.vt))
             ELSE AndN(Len(code), 2^Bits(ld.vt) - 1) >>

LowerLOAD(ld) ==
  LET off    == ld.off
      prefix == <<PtrN, BaseN>>
      \* the aligned load straight from basePtr
      whole  == prefix \o <<LdN(1)>>
      \* ld/ld/srl/shl/or over the two words around base + offset
      split(ls, hs) ==
        prefix \o <<AddN(2, AlignDown(off)), AddN(2, AlignDown(off) + 4),
                    LdN(3), LdN(4), SrlN(5, ls), ShlN(6, hs), OrN(7, 8)>>
      \* one load of the word holding the datum, shifted down
      single(ls) == prefix \o <<AddN(2, AlignDown(off)), LdN(3), SrlN(4, ls)>>
      call(name) == prefix \o <<CallN(name, 1)>>
      \* bitoffset = basePtr << 3; basePtr & ~3; ld; srl by bitoffset
      byteInWord == prefix \o <<ShlN(1, LogByteBits), AndN(1, WordMod - 4),
                                LdN(4), SrlByN(5, 3)>>
      lowShift == Phase(off) * ByteBits
  IN CASE ld.vt = 32 ->
            IF ld.align >= 4 THEN whole
            ELSE IF IsWordAlignedBasePlusConstantOffset(ld)
                 THEN IF off % 4 = 0 THEN whole
                      ELSE split(lowShift, WordBits - lowShift)
                 ELSE call("__unalignedldi32")
       [] ld.vt = 16 ->
            ExtendLoad(ld,
              IF ld.align >= 4 THEN whole
              ELSE IF IsWordAlignedBasePlusConstantOffset(ld)
                   THEN IF off % 4 = 0 THEN whole
                        ELSE IF I16CrossesWords(off)
                             THEN split(3 * ByteBits, ByteBits)
                             ELSE single(lowShift)
                   ELSE call("__unalignedldi16"))
       [] ld.vt = 8 ->
            ExtendLoad(ld, IF ld.align < 4 THEN byteInWord ELSE whole)

\* The value the lowered DAG leaves in its last node.
LoweredLoadValue(ld, mem) ==
  LET code == LowerLOAD(ld)
  IN  Exec(code, mem, PtrOf(ld), ld.base)[Len(code)]

(***************************************************************************)
(* LowerSTORE: an aligned i32 store stays a native SW; every other store   *)
(* becomes a call of the runtime routine for its width.                    *)
(***************************************************************************)
StoreDesc == [vt: VTs, align: Aligns, ptr: Addr]

ValidStore(st) ==
  /\ st.ptr + NBytes(st.vt) - 1 \in Addr
  /\ st.ptr % st.align = 0

LowerSTORE(st) ==
  CASE st.vt = 32 -> IF st.align >= 4 THEN [kind |-> "sw"]
                     ELSE [kind |-> "call", name |-> "__unalignedsti32"]
    [] st.vt = 16 -> [kind |-> "call", name |-> "__unalignedsti16"]
    [] st.vt = 8  -> [kind |-> "call", name |-> "__sti8"]

\* Memory with the n low bytes of v written little-endian at p.
StoreBytes(mem, p, n, v) ==
  [a \in Addr |-> IF a \in p..(p + n - 1)
                  THEN (v \div 2^((a - p) * ByteBits)) % 2^ByteBits
                  ELSE mem[a]]

\* Bytes written by each runtime routine, from its signature in the
\* runtime ABI: (ptr, i32), (ptr, i16), (ptr, i8).
CalleeStoreBytes(name) ==
  CASE name = "__unalignedsti32" -> 4
    [] name = "__unalignedsti16" -> 2
    [] name = "__sti8"           -> 1

ExecStore(l, mem, p, v) ==
  IF l.kind = "sw" THEN StoreBytes(mem, p, 4, v)
  ELSE StoreBytes(mem, p, CalleeStoreBytes(l.name), v)

(***************************************************************************)
(* The state machine: a memory, and the last lowered operation.            *)
(***************************************************************************)
VARIABLES mem, last
vars == <<mem, last>>

\* Register values stored: every byte value in the low byte, both orders
\* of two byte values in the low half, and the other bytes set.
RegVals == {LEBytes(<<b, c, c, b>>, 1, 4) : b, c \in ByteVals}

Init ==
  /\ mem \in [Addr -> ByteVals]
  /\ last = [kind |-> "none"]

ValidLoads == {ld \in LoadDesc : ValidLoad(ld)}

Load(ld) ==
  /\ last' = [kind |-> "load", ld |-> ld,
              value |-> LoweredLoadValue(ld, mem),
              accesses |-> WordAccesses(LowerLOAD(ld), mem, PtrOf(ld), ld.base)]
  /\ UNCHANGED mem

Store(st, v) ==
  /\ ValidStore(st)
  /\ mem' = ExecStore(LowerSTORE(st), mem, st.ptr, v)
  /\ last' = [kind |-> "store", st |-> st, v |-> v]

Next ==
  \/ \E ld \in ValidLoads : Load(ld)
  \/ \E st \in StoreDesc, v \in RegVals : Store(st, v)

Spec == Init /\ [][Next]_vars

(***************************************************************************)
(* Reference semantics and properties.                                     *)
(***************************************************************************)
\* What a load must return: the little-endian bytes at ptr, sign-extended
\* for SEXTLOAD, zero-extended otherwise (EXTLOAD is treated as ZEXTLOAD).
RefLoad(ld, m) ==
  LET raw == LEBytes(m, PtrOf(ld), NBytes(ld.vt))
  IN  IF ld.ext = "sext" /\ ld.vt < 32 THEN SextInReg(raw, Bits(ld.vt)) ELSE raw

\* Words a datum of n bytes at p overlaps.
DatumWords(p, n) == {AlignDown(a) : a \in p..(p + n - 1)}

\* Every lowered load (whatever its width, declared alignment, extension
\* and address shape) yields the value the little-endian bytes at its
\* address denote, extended as the load asks: the shift amounts, masks and
\* phase tests of LowerLOAD are right.
LoadReturnsMemoryValue ==
  last.kind = "load" => last.value = RefLoad(last.ld, mem)

\* Every word load LowerLOAD emits is word aligned and touches only words
\* the datum overlaps (the hardware has no unaligned access, and an extra
\* word could lie past the end of the object).
AccessesWithinDatumWords ==
  last.kind = "load" =>
    \A a \in last.accesses :
      /\ a % 4 = 0
      /\ a \in DatumWords(PtrOf(last.ld), NBytes(last.ld.vt))

=============================================================================
