------------------------- MODULE MCInstructionLifter -------------------------
(* Model of InstructionLifter for TLC: a 16-bit address space, a segment *)
(* containing 0x4010 (16400), and instructions whose operands and         *)
(* cross-references all designate that address in one encoding or other.  *)
EXTENDS InstructionLifter

ImmOp(size, v)   == [kind |-> "imm", size |-> size, val |-> v, form |-> "abs", disp |-> 0]
AddrOp(form, d)  == [kind |-> "addr", size |-> AddrSize, val |-> 0, form |-> form, disp |-> d]

\* PCVal = 4096, NextPCVal = 4100, BaseVal = 8.
MCOperands ==
  { ImmOp(16, 16400),        \* mov r16, 0x4010 (address-like, in a segment)
    ImmOp(16, 16384),        \* adrp-style page address 0x4000
    ImmOp(16, 4096),         \* the missed-xref threshold, start of .text
    ImmOp(8, 16),            \* low byte of 0x4010
    ImmOp(24, 16400),        \* wider than the address size
    AddrOp("abs", 16400),    \* [0x4010]
    AddrOp("pc", 12304),     \* [PC + 0x3010]
    AddrOp("next_pc", 12300),\* [NEXT_PC + 0x300c]
    AddrOp("base", 16400),   \* [base + index + 0x4010]
    AddrOp("base", 4),       \* [base + index + 4]
    AddrOp("cft", 16400) }   \* branch target 0x4010

MCOperandSeqs ==
  {<<>>} \cup {<<o>> : o \in MCOperands} \cup {<<o, p>> : o, p \in MCOperands}

\* CFG cross-references to 0x4010, with mask 0 (none) or 0xf000.
CodeRef(t, m) == [operand_type |-> t, ea |-> 16400, mask |-> m]
OptRef(t, masks) == {<<>>} \cup {<<CodeRef(t, m)>> : m \in masks}

(* CFG entries with at most one cross-reference of each operand type;    *)
(* memMasks are the masks a memory reference may carry.  A control-flow   *)
(* reference, which the lifter does not read, may come along.             *)
MCEntries(memMasks) ==
  {[ea |-> 4096, xrefs |-> m \o i \o d \o c] :
     m \in OptRef("MemoryOperand", memMasks),
     i \in OptRef("ImmediateOperand", {0, 61440}),
     d \in OptRef("MemoryDisplacementOperand", {0}),
     c \in OptRef("ControlFlowOperand", {0})}

\* The module's segments: .text at 0x1000 (the PC), 16 bytes at 0x4010.
MCModule == [segments |-> <<[ea |-> 4096, size |-> 16], [ea |-> 16400, size |-> 16]>>]

\* The immediates of MCOperands that TryGetSegment finds.
MCSegmentAddrs == {a \in {16400, 16384, 4096} : TryGetSegment(MCModule, a) # {}}

\* The values NativeXref can give a reference to 0x4010.
MCXrefs(masks) == {NoXref} \cup {[target |-> 16400, mask |-> m] : m \in masks}

(* The decoded instructions, with or without a CFG entry, that satisfy   *)
(* the disassembler's contract.  Written as a filter of a record set, so *)
(* that membership (the refinement's Init) is checked without             *)
(* enumerating the entries.                                               *)
MCLiftable(opSeqs, memMasks, Ok(_)) ==
  {i \in [cfg : BOOLEAN, ops : opSeqs, mem : MCXrefs(memMasks),
          imm : MCXrefs({0, 61440}), disp : MCXrefs({0})] :
     /\ Ok(i)
     /\ \/ i = Uncovered(i.ops)
        \/ \E e \in MCEntries(memMasks) : i = NativeInstruction(e, i.ops)}

MCInstructions == MCLiftable(MCOperandSeqs, {0}, WellFormed)

(* Instructions with at most one operand, for blocks of several.         *)
MCShortInstructions == {i \in MCInstructions : Len(i.ops) <= 1}

(* Instructions with at most one operand whose memory reference may      *)
(* carry a mask (0xf000, which makes it 0x4000).                          *)
MCMaskedInstructions ==
  MCLiftable({<<>>} \cup {<<o>> : o \in MCOperands}, {0, 61440}, Contract)
=============================================================================
