------------------------------ MODULE CFGSchema ------------------------------
(***************************************************************************)
(* The part of the CFG protobuf schema (Instruction.cpp, lines 250-567)   *)
(* that the instruction lifter reads: the cross-references of an          *)
(* instruction and the segments of the module.  A message is a record of  *)
(* the fields a decision reads; strings and byte payloads are reduced to  *)
(* what is read of them (a segment's data to its length).  Repeated       *)
(* fields are sequences.  An absent optional int64 reads as its default,  *)
(* 0, so an absent mask and a mask of 0 are one value.                    *)
(*                                                                         *)
(* The sets of messages are operators of the values they range over, so   *)
(* that a model chooses small ones.                                       *)
(***************************************************************************)
EXTENDS Integers, Sequences

\* CodeReference.OperandType.
OperandType ==
  {"ImmediateOperand", "MemoryOperand", "MemoryDisplacementOperand",
   "ControlFlowOperand", "OffsetTable"}

\* CodeReference: a cross-reference contained within an instruction.
CFGCodeReferences(Addrs, Masks) ==
  [operand_type : OperandType, ea : Addrs, mask : Masks]

\* Instruction: its address and the cross-references in its encoding.
CFGInstructions(Addrs, Xrefs) == [ea : Addrs, xrefs : Xrefs]

\* Segment: its start address and the length of its verbatim data.
CFGSegments(Addrs, Sizes) == [ea : Addrs, size : Sizes]

\* Module: the segments of the binary.
CFGModules(SegmentSeqs) == [segments : SegmentSeqs]

---------------------------------------------------------------------------
(* The loader's view, from which the lifter reads (ctx.cfg_inst->mem and  *)
(* ctx.cfg_module->TryGetSegment).                                        *)

\* The cross-references of inst of the given operand type.
XrefsOfType(inst, t) ==
  {inst.xrefs[k] : k \in {k \in DOMAIN inst.xrefs : inst.xrefs[k].operand_type = t}}

\* The segment holding address a: data covers [ea, ea + size).
InSegment(s, a) == s.ea <= a /\ a < s.ea + s.size

TryGetSegment(m, a) ==
  {m.segments[k] : k \in {k \in DOMAIN m.segments : InSegment(m.segments[k], a)}}
=============================================================================
