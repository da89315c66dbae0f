--------------------------- MODULE LiftedOperands ---------------------------
(***************************************************************************)
(* What lifting a block promises (spec 4.1 and 4.2), stated without the   *)
(* lifter's used flags: each operand of an instruction with semantics is  *)
(* lifted to the value its encoding designates; what is reported about an *)
(* instruction is a function of the instruction and its CFG entry alone.  *)
(*                                                                         *)
(*  - an immediate operand takes the immediate reference, and an          *)
(*    immediate reference wider than the address size is fatal;           *)
(*  - an address-sized immediate of at least 4096 inside a segment that   *)
(*    takes no reference is a missed cross-reference candidate;           *)
(*  - an operand without base/index register takes the memory reference, *)
(*    else the displacement reference;                                    *)
(*  - a base/index operand adds the displacement reference to its         *)
(*    registers in place of its displacement; without one, a memory       *)
(*    reference whose target address equals the raw displacement is a    *)
(*    misclassified displacement reference and is added the same way;     *)
(*  - after the instruction, every reference no operand designates is     *)
(*    reported unused.                                                    *)
(***************************************************************************)
EXTENDS LifterValues

CONSTANTS SegmentAddrs, Instructions, BlockLen

VARIABLES
  block,     \* the block's instructions
  idx,       \* the instruction being lifted
  phase,     \* "idle" | "lifting" | "finished" | "done" | "aborted"
  status,    \* the status the architecture semantics returned
  values,    \* the values of the operands lifted so far
  reported   \* diagnostics: [inst, kind]

avars == <<block, idx, phase, status, values, reported>>

Inst == block[idx]

Present(k) == Inst.cfg /\ Inst[k] # NoXref

IsBase(op) == op.kind = "addr" /\ op.form = "base"

\* Spec 4.2 2b: "its target address numerically equals the instruction's
\* raw displacement field".
Misclassified(op) ==
  IsBase(op) /\ ~Present("disp") /\ Present("mem") /\ op.disp = Inst.mem.target

\* The immediate operand of an instruction whose entry has an immediate
\* reference takes it.
TakesImm(op) == op.kind = "imm" /\ Present("imm")

MissedXref(op) ==
  /\ op.kind = "imm" /\ ~Present("imm")
  /\ op.size = AddrSize /\ 4096 <= op.val /\ op.val \in SegmentAddrs

\* The references some operand of the instruction designates.
Designated ==
  {k \in RefKinds :
     /\ Present(k)
     /\ \E j \in DOMAIN Inst.ops :
          LET op == Inst.ops[j] IN
          CASE k = "imm"  -> op.kind = "imm"
            [] k = "mem"  -> AbsLike(op) \/ Misclassified(op)
            [] k = "disp" -> IsBase(op) \/ (AbsLike(op) /\ ~Present("mem"))}

\* The registers of the operand plus the resolved reference x.
Offset(op, x) == GenericAddress(op.form, Resolved(x))

(* The value an operand is lifted to: the reference it designates, the   *)
(* immediate one truncated to the operand's width, or its raw value.     *)
SpecValue(op) ==
  CASE TakesImm(op) -> [val |-> Wrap(Resolved(Inst.imm), op.size), width |-> op.size]
    [] AbsLike(op) /\ Present("mem")  -> [val |-> Resolved(Inst.mem), width |-> AddrSize]
    [] AbsLike(op) /\ Present("disp") -> [val |-> Resolved(Inst.disp), width |-> AddrSize]
    [] IsBase(op) /\ Present("disp")  -> Offset(op, Inst.disp)
    [] Misclassified(op)              -> Offset(op, Inst.mem)
    [] OTHER                          -> RawValue(op)

OperandDiags(op) ==
  (IF MissedXref(op) THEN {"missed_xref"} ELSE {})
    \cup (IF Misclassified(op) THEN {"misclassified"} ELSE {})

Report(kinds) == {[inst |-> idx, kind |-> d] : d \in kinds}

NextOp == Inst.ops[Len(values) + 1]

Init ==
  /\ block \in [1..BlockLen -> Instructions]
  /\ idx = 1
  /\ phase = "idle"
  /\ status = "kLiftedInstruction"
  /\ values = <<>>
  /\ reported = {}

Begin ==
  /\ phase = "idle"
  /\ phase' = "lifting"
  /\ status' \in Statuses
  /\ values' = <<>>
  /\ UNCHANGED <<block, idx, reported>>

LiftOperand ==
  /\ phase = "lifting"
  /\ status = "kLiftedInstruction"
  /\ Len(values) < Len(Inst.ops)
  /\ ~(TakesImm(NextOp) /\ NextOp.size > AddrSize)
  /\ values' = Append(values, SpecValue(NextOp))
  /\ reported' = reported \cup Report(OperandDiags(NextOp))
  /\ UNCHANGED <<block, idx, phase, status>>

Abort ==
  /\ phase = "lifting"
  /\ status = "kLiftedInstruction"
  /\ Len(values) < Len(Inst.ops)
  /\ TakesImm(NextOp) /\ NextOp.size > AddrSize
  /\ phase' = "aborted"
  /\ UNCHANGED <<block, idx, status, values, reported>>

Finish ==
  /\ phase = "lifting"
  /\ status = "kLiftedInstruction" => Len(values) = Len(Inst.ops)
  /\ phase' = "finished"
  /\ reported' = reported \cup
       IF status = "kLiftedInstruction"
         THEN Report({UnusedDiag[k] : k \in {k \in RefKinds : Present(k)} \ Designated})
         ELSE {}
  /\ UNCHANGED <<block, idx, status, values>>

NextInst ==
  /\ phase = "finished"
  /\ IF idx < BlockLen THEN idx' = idx + 1 /\ phase' = "idle"
                       ELSE phase' = "done" /\ UNCHANGED idx
  /\ UNCHANGED <<block, status, values, reported>>

Next == Begin \/ LiftOperand \/ Abort \/ Finish \/ NextInst

Spec == Init /\ [][Next]_avars
=============================================================================
