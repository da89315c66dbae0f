---------------------------- MODULE LifterValues ----------------------------
(***************************************************************************)
(* Values, cross-references and operands shared by the lifter             *)
(* (InstructionLifter) and the specification of what it promises          *)
(* (LiftedOperands): the cross-reference resolver, the values remill's    *)
(* generic operand lifting produces, and the disassembler's contract.     *)
(***************************************************************************)
EXTENDS Integers, Sequences, Bitwise, CFGSchema

CONSTANTS
  AddrSize,      \* arch->address_size, in bits
  PCVal,         \* value of the PC register the generic path reads
  NextPCVal,     \* value of NEXT_PC
  BaseVal        \* value of base + index * scale of a base/index operand

ASSUME AddrSize \in Nat \ {0}

NoXref == [none |-> TRUE]       \* an absent ctx.cfg_inst->mem / imm / disp
NoRef  == [none |-> TRUE]       \* mem_ref / imm_ref / disp_ref == nullptr
RefKinds == {"mem", "imm", "disp"}

(* Forms of remill::Operand::Address: no base and no index register, base *)
(* "PC", base "NEXT_PC", any other base/index, and a control-flow target.  *)
Forms == {"abs", "pc", "next_pc", "base", "cft"}

\* remill::LiftStatus values returned by the generic LiftIntoBlock.
Statuses == {"kLiftedInstruction", "kLiftedUnsupportedInstruction",
             "kLiftedInvalidInstruction"}

Diags == {"missed_xref", "misclassified", "unused_mem", "unused_imm",
          "unused_disp"}

Wrap(v, w) == v % (2 ^ w)

---------------------------------------------------------------------------
(* The instruction remill decodes, with the loader's view of its CFG      *)
(* entry: the one cross-reference of each operand type the lifter reads,  *)
(* as target_ea and mask.  An instruction without entry has none.         *)
XrefType == [mem |-> "MemoryOperand", imm |-> "ImmediateOperand",
             disp |-> "MemoryDisplacementOperand"]

NativeXref(entry, k) ==
  IF XrefsOfType(entry, XrefType[k]) = {} THEN NoXref
  ELSE LET r == CHOOSE r \in XrefsOfType(entry, XrefType[k]) : TRUE
       IN [target |-> r.ea, mask |-> r.mask]

NativeInstruction(entry, ops) ==
  [cfg |-> TRUE, ops |-> ops, mem |-> NativeXref(entry, "mem"),
   imm |-> NativeXref(entry, "imm"), disp |-> NativeXref(entry, "disp")]

Uncovered(ops) ==
  [cfg |-> FALSE, ops |-> ops, mem |-> NoXref, imm |-> NoXref, disp |-> NoXref]

---------------------------------------------------------------------------
(* Cross-reference resolver: InstructionLifter::GetAddress.  A mask of 0 *)
(* is the same as no mask (`if (cfg_xref->mask)`).                        *)
GetAddress(x) ==
  IF x = NoXref THEN NoRef
  ELSE [val   |-> IF x.mask # 0 THEN x.target & x.mask ELSE x.target,
        width |-> AddrSize]

(* remill's generic LiftImmediateOperand: the immediate as a constant of *)
(* the operand's width.                                                   *)
GenericImmediate(op) == [val |-> Wrap(op.val, op.size), width |-> op.size]

RegisterPart(form) ==
  CASE form = "pc"      -> PCVal
    [] form = "next_pc" -> NextPCVal
    [] form = "base"    -> BaseVal
    [] OTHER            -> 0

(* remill's generic LiftAddressOperand: registers plus displacement.      *)
GenericAddress(form, disp) ==
  [val |-> Wrap(RegisterPart(form) + disp, AddrSize), width |-> AddrSize]

(* The value the generic path gives an operand lifted from its raw bits.  *)
RawValue(op) ==
  IF op.kind = "imm" THEN GenericImmediate(op)
  ELSE GenericAddress(op.form, op.disp)

UnusedDiag == [mem |-> "unused_mem", imm |-> "unused_imm", disp |-> "unused_disp"]

---------------------------------------------------------------------------
(* The disassembler's side of the contract, which the inputs satisfy: a   *)
(* reference designates the value of the operand it decorates.  A memory  *)
(* or displacement reference on an operand without base/index register    *)
(* designates its effective address; a displacement reference on a        *)
(* base/index operand designates the displacement.  A memory reference on *)
(* a base/index operand is either unrelated to it or a misclassified      *)
(* displacement reference (target = displacement).  Instructions have at  *)
(* most one immediate operand.                                            *)
Resolved(x) == GetAddress(x).val
AbsLike(op) == op.kind = "addr" /\ op.form \in {"abs", "pc", "next_pc"}

Contract(i) ==
  /\ ~i.cfg => i.mem = NoXref /\ i.imm = NoXref /\ i.disp = NoXref
  /\ \A j, k \in DOMAIN i.ops :
       i.ops[j].kind = "imm" /\ i.ops[k].kind = "imm" => j = k
  /\ i.imm # NoXref =>
       \A k \in DOMAIN i.ops : i.ops[k].kind = "imm" =>
         Wrap(Resolved(i.imm), i.ops[k].size) = RawValue(i.ops[k]).val
  /\ i.mem # NoXref =>
       \A k \in DOMAIN i.ops :
         AbsLike(i.ops[k]) => Resolved(i.mem) = RawValue(i.ops[k]).val
  /\ i.disp # NoXref =>
       \A k \in DOMAIN i.ops :
         /\ AbsLike(i.ops[k]) /\ i.mem = NoXref =>
              Resolved(i.disp) = RawValue(i.ops[k]).val
         /\ i.ops[k].kind = "addr" /\ i.ops[k].form = "base" =>
              Resolved(i.disp) = i.ops[k].disp

(* The inputs of the main runs: memory references carry no mask.        *)
WellFormed(i) == Contract(i) /\ (i.mem # NoXref => i.mem.mask = 0)
=============================================================================
