-------------------------- MODULE InstructionLifter --------------------------
(***************************************************************************)
(* mcsema::InstructionLifter (src/mcsema/BC/Instruction.cpp): lifting the  *)
(* instructions of one block, one at a time, substituting the CFG's        *)
(* cross-references (mem / imm / disp) for operand values.                 *)
(*                                                                         *)
(* LiftIntoBlock fetches the three references and clears the used flags,   *)
(* then calls remill's generic LiftIntoBlock, which calls back             *)
(* LiftImmediateOperand / LiftAddressOperand once per operand, in operand  *)
(* order; when it returns, unused references are reported.  The lifter     *)
(* object is reused for every instruction of the block.                    *)
(*                                                                         *)
(* Values are numbers with a bit width.  LiftXrefInCode(ea) is modelled    *)
(* as the identity relocation (the lifted value of a reference to ea is    *)
(* ea), so that a lifted operand can be compared with the value remill's   *)
(* generic path computes from the raw encoding.                            *)
(***************************************************************************)
EXTENDS LifterValues

CONSTANTS
  SegmentAddrs,  \* addresses ctx.cfg_module->TryGetSegment finds
  Instructions,  \* CFG instructions (with their decoded operands)
  BlockLen       \* number of instructions in the lifted block

ASSUME BlockLen \in Nat \ {0}

---------------------------------------------------------------------------
VARIABLES
  block,          \* the block's instructions (input, never changed)
  idx,            \* index of the instruction being lifted
  pc,             \* "enter" | "operands" | "return" | "finished" | "done" | "aborted"
  opIdx,          \* next operand remill lifts
  status,         \* status returned by remill's LiftIntoBlock
  mem_ref, imm_ref, disp_ref,
  mem_ref_used, imm_ref_used, disp_ref_used,
  lifted,         \* the values substituted for the operands lifted so far
  diags           \* diagnostics logged: [inst, kind]

vars == <<block, idx, pc, opIdx, status, mem_ref, imm_ref, disp_ref,
          mem_ref_used, imm_ref_used, disp_ref_used, lifted, diags>>

refVars == <<mem_ref, imm_ref, disp_ref>>
usedVars == <<mem_ref_used, imm_ref_used, disp_ref_used>>

Inst == block[idx]
Op == Inst.ops[opIdx]

Result(v, from) == [val |-> v.val, width |-> v.width, from |-> from]

Log(kind) == diags' = diags \cup {[inst |-> idx, kind |-> kind]}

(* A lifter object as its constructor leaves it: only ctx is set, and     *)
(* LiftIntoBlock writes the refs and flags before any callback reads     *)
(* them, so their starting values are never observed.                    *)
Init ==
  /\ block \in [1..BlockLen -> Instructions]
  /\ idx = 1
  /\ pc = "enter"
  /\ opIdx = 1
  /\ status = "kLiftedInstruction"
  /\ mem_ref = NoRef /\ imm_ref = NoRef /\ disp_ref = NoRef
  /\ mem_ref_used = FALSE /\ imm_ref_used = FALSE /\ disp_ref_used = FALSE
  /\ lifted = <<>>
  /\ diags = {}

(* Mutant: the used flags are not cleared for the next instruction.      *)
LiftIntoBlockEnterKeepUsed ==
  /\ pc = "enter"
  /\ IF Inst.cfg
       THEN /\ mem_ref' = GetAddress(Inst.mem)
            /\ imm_ref' = GetAddress(Inst.imm)
            /\ disp_ref' = GetAddress(Inst.disp)
       ELSE /\ mem_ref' = NoRef /\ imm_ref' = NoRef /\ disp_ref' = NoRef
  /\ UNCHANGED <<mem_ref_used, disp_ref_used, imm_ref_used>>
  /\ status' \in Statuses
  /\ pc' = IF status' = "kLiftedInstruction" /\ Inst.ops # <<>>
             THEN "operands" ELSE "return"
  /\ opIdx' = 1
  /\ lifted' = <<>>
  /\ UNCHANGED <<block, idx, diags>>

(* LiftIntoBlock up to the call of remill's LiftIntoBlock, and the status *)
(* that call returns: an instruction without semantics returns before    *)
(* lifting any operand.                                                   *)
LiftIntoBlockEnter ==
  /\ pc = "enter"
  /\ IF Inst.cfg
       THEN /\ mem_ref' = GetAddress(Inst.mem)
            /\ imm_ref' = GetAddress(Inst.imm)
            /\ disp_ref' = GetAddress(Inst.disp)
       ELSE /\ mem_ref' = NoRef /\ imm_ref' = NoRef /\ disp_ref' = NoRef
  /\ mem_ref_used' = FALSE /\ disp_ref_used' = FALSE /\ imm_ref_used' = FALSE
  /\ status' \in Statuses
  /\ pc' = IF status' = "kLiftedInstruction" /\ Inst.ops # <<>>
             THEN "operands" ELSE "return"
  /\ opIdx' = 1
  /\ lifted' = <<>>
  /\ UNCHANGED <<block, idx, diags>>

(* Move on to the next operand, or back into LiftIntoBlock after the last. *)
AdvanceOperand ==
  /\ opIdx' = opIdx + 1
  /\ pc' = IF opIdx = Len(Inst.ops) THEN "return" ELSE "operands"

(* Hand the lifted value of the current operand back to remill.           *)
Substitute(v, from) ==
  /\ lifted' = Append(lifted, Result(v, from))
  /\ AdvanceOperand

\* Mutant: the value is retyped to the narrower width but not truncated.
TruncRetype(v, w) == [val |-> v.val, width |-> w]

Trunc(v, w) == [val |-> Wrap(v.val, w), width |-> w]

Add(a, r) == [val |-> Wrap(a.val + r.val, AddrSize), width |-> AddrSize]

(* Mutant: the missed-xref threshold is exclusive.                        *)
LiftImmediateOperandStrict ==
  /\ pc = "operands"
  /\ Op.kind = "imm"
  /\ \/ /\ imm_ref # NoRef /\ ~imm_ref_used
        /\ imm_ref_used' = TRUE
        /\ \/ /\ Op.size > AddrSize        \* CHECK(arg_size <= address_size)
              /\ pc' = "aborted"
              /\ UNCHANGED <<imm_ref, lifted, opIdx>>
           \/ /\ Op.size <= AddrSize
              /\ LET r == IF imm_ref.width # Op.size /\ Op.size < AddrSize
                            THEN Trunc(imm_ref, Op.size) ELSE imm_ref
                 IN /\ imm_ref' = r
                    /\ Substitute(r, "imm")
        /\ UNCHANGED diags
     \/ /\ ~(imm_ref # NoRef /\ ~imm_ref_used)
        /\ IF Op.size = AddrSize /\ 4096 < Op.val /\ Op.val \in SegmentAddrs
             THEN Log("missed_xref") ELSE UNCHANGED diags
        /\ Substitute(GenericImmediate(Op), "none")
        /\ UNCHANGED <<imm_ref, imm_ref_used>>
  /\ UNCHANGED <<block, idx, status, mem_ref, disp_ref, mem_ref_used,
                 disp_ref_used>>

(* InstructionLifter::LiftImmediateOperand.                               *)
LiftImmediateOperand ==
  /\ pc = "operands"
  /\ Op.kind = "imm"
  /\ \/ /\ imm_ref # NoRef /\ ~imm_ref_used
        /\ imm_ref_used' = TRUE
        /\ \/ /\ Op.size > AddrSize        \* CHECK(arg_size <= address_size)
              /\ pc' = "aborted"
              /\ UNCHANGED <<imm_ref, lifted, opIdx>>
           \/ /\ Op.size <= AddrSize
              /\ LET r == IF imm_ref.width # Op.size /\ Op.size < AddrSize
                            THEN Trunc(imm_ref, Op.size) ELSE imm_ref
                 IN /\ imm_ref' = r
                    /\ Substitute(r, "imm")
        /\ UNCHANGED diags
     \/ /\ ~(imm_ref # NoRef /\ ~imm_ref_used)
        /\ IF Op.size = AddrSize /\ 4096 <= Op.val /\ Op.val \in SegmentAddrs
             THEN Log("missed_xref") ELSE UNCHANGED diags
        /\ Substitute(GenericImmediate(Op), "none")
        /\ UNCHANGED <<imm_ref, imm_ref_used>>
  /\ UNCHANGED <<block, idx, status, mem_ref, disp_ref, mem_ref_used,
                 disp_ref_used>>

(* Mutant: the memory reference is returned without being marked used. *)
LiftAbsoluteAddressNoMark ==
  \/ /\ mem_ref # NoRef
     /\ UNCHANGED mem_ref_used
     /\ Substitute(mem_ref, "mem")
     /\ UNCHANGED <<disp_ref_used, diags>>
  \/ /\ mem_ref = NoRef /\ disp_ref # NoRef
     /\ disp_ref_used' = TRUE
     /\ Substitute(disp_ref, "disp")
     /\ UNCHANGED <<mem_ref_used, diags>>
  \/ /\ mem_ref = NoRef /\ disp_ref = NoRef
     /\ Substitute(GenericAddress(Op.form, Op.disp), "none")
     /\ UNCHANGED <<mem_ref_used, disp_ref_used, diags>>

(* The two branches for an operand without base/index register, or with *)
(* only PC (resp. NEXT_PC) as base: the memory reference wins over the    *)
(* displacement reference, and neither is checked for an earlier use.     *)
LiftAbsoluteAddress ==
  \/ /\ mem_ref # NoRef
     /\ mem_ref_used' = TRUE
     /\ Substitute(mem_ref, "mem")
     /\ UNCHANGED <<disp_ref_used, diags>>
  \/ /\ mem_ref = NoRef /\ disp_ref # NoRef
     /\ disp_ref_used' = TRUE
     /\ Substitute(disp_ref, "disp")
     /\ UNCHANGED <<mem_ref_used, diags>>
  \/ /\ mem_ref = NoRef /\ disp_ref = NoRef
     /\ Substitute(GenericAddress(Op.form, Op.disp), "none")
     /\ UNCHANGED <<mem_ref_used, disp_ref_used, diags>>

(* Mutant: the displacement is not cleared before the reference is added. *)
LiftIndexedAddressKeepDisp ==
  \/ /\ disp_ref # NoRef
     /\ disp_ref_used' = TRUE
     /\ Substitute(Add(GenericAddress(Op.form, Op.disp), disp_ref), "disp")
     /\ UNCHANGED <<mem_ref_used, diags>>
  \/ /\ disp_ref = NoRef /\ mem_ref # NoRef
     /\ Op.disp = Inst.mem.target
     /\ Log("misclassified")
     /\ mem_ref_used' = TRUE
     /\ Substitute(Add(GenericAddress(Op.form, 0), mem_ref), "mem")
     /\ UNCHANGED disp_ref_used
  \/ /\ disp_ref = NoRef
     /\ mem_ref # NoRef => Op.disp # Inst.mem.target
     /\ Substitute(GenericAddress(Op.form, Op.disp), "none")
     /\ UNCHANGED <<mem_ref_used, disp_ref_used, diags>>

(* Mutant: the displacement is compared with the masked memory reference *)
(* rather than with its target address.                                   *)
LiftIndexedAddressMasked ==
  \/ /\ disp_ref # NoRef
     /\ disp_ref_used' = TRUE
     /\ Substitute(Add(GenericAddress(Op.form, 0), disp_ref), "disp")
     /\ UNCHANGED <<mem_ref_used, diags>>
  \/ /\ disp_ref = NoRef /\ mem_ref # NoRef
     /\ Op.disp = mem_ref.val
     /\ Log("misclassified")
     /\ mem_ref_used' = TRUE
     /\ Substitute(Add(GenericAddress(Op.form, 0), mem_ref), "mem")
     /\ UNCHANGED disp_ref_used
  \/ /\ disp_ref = NoRef
     /\ mem_ref # NoRef => Op.disp # mem_ref.val
     /\ Substitute(GenericAddress(Op.form, Op.disp), "none")
     /\ UNCHANGED <<mem_ref_used, disp_ref_used, diags>>

(* Base/index operand: a displacement reference replaces the displacement *)
(* (mem.displacement = 0, then add the reference); a memory reference     *)
(* whose target equals the raw displacement is taken as a misclassified   *)
(* displacement reference.                                                *)
LiftIndexedAddress ==
  \/ /\ disp_ref # NoRef
     /\ disp_ref_used' = TRUE
     /\ Substitute(Add(GenericAddress(Op.form, 0), disp_ref), "disp")
     /\ UNCHANGED <<mem_ref_used, diags>>
  \/ /\ disp_ref = NoRef /\ mem_ref # NoRef
     /\ Op.disp = Inst.mem.target
     /\ Log("misclassified")
     /\ mem_ref_used' = TRUE
     /\ Substitute(Add(GenericAddress(Op.form, 0), mem_ref), "mem")
     /\ UNCHANGED disp_ref_used
  \/ /\ disp_ref = NoRef
     /\ mem_ref # NoRef => Op.disp # Inst.mem.target
     /\ Substitute(GenericAddress(Op.form, Op.disp), "none")
     /\ UNCHANGED <<mem_ref_used, disp_ref_used, diags>>

(* InstructionLifter::LiftAddressOperand.                                 *)
LiftAddressOperand ==
  /\ pc = "operands"
  /\ Op.kind = "addr"
  /\ \/ /\ Op.form = "cft"
        /\ Substitute(GenericAddress(Op.form, Op.disp), "none")
        /\ UNCHANGED <<usedVars, diags>>
     \/ Op.form \in {"abs", "pc", "next_pc"} /\ LiftAbsoluteAddress
     \/ Op.form = "base" /\ LiftIndexedAddress
  /\ UNCHANGED <<block, idx, status, refVars, imm_ref_used>>

RefOf(k) == CASE k = "mem" -> mem_ref [] k = "imm" -> imm_ref [] k = "disp" -> disp_ref
UsedOf(k) == CASE k = "mem" -> mem_ref_used [] k = "imm" -> imm_ref_used
                [] k = "disp" -> disp_ref_used

(* LiftIntoBlock after remill's LiftIntoBlock returned: report every      *)
(* reference never marked used, when the instruction had semantics.       *)
LiftIntoBlockReturn ==
  /\ pc = "return"
  /\ diags' = diags \cup
       IF status = "kLiftedInstruction"
         THEN {[inst |-> idx, kind |-> UnusedDiag[k]] :
                 k \in {k \in RefKinds : RefOf(k) # NoRef /\ ~UsedOf(k)}}
         ELSE {}
  /\ pc' = "finished"
  /\ UNCHANGED <<block, idx, opIdx, status, refVars, usedVars, lifted>>

(* The block lifter's loop over the block's instructions.                 *)
NextInstruction ==
  /\ pc = "finished"
  /\ IF idx < BlockLen THEN idx' = idx + 1 /\ pc' = "enter"
                       ELSE pc' = "done" /\ UNCHANGED idx
  /\ UNCHANGED <<block, opIdx, status, refVars, usedVars, lifted, diags>>

(* The block is lifted, or a CHECK aborted the process.                   *)
Terminated ==
  /\ pc \in {"done", "aborted"}
  /\ UNCHANGED vars

Next ==
  \/ LiftIntoBlockEnter
  \/ LiftImmediateOperand
  \/ LiftAddressOperand
  \/ LiftIntoBlockReturn
  \/ NextInstruction
  \/ Terminated

Spec == Init /\ [][Next]_vars

---------------------------------------------------------------------------
Value == [val : Nat, width : Nat]

\* An IR constant of width w holds a value below 2^w.
Fits(v) == v.val < 2 ^ v.width

TypeOK ==
  /\ idx \in 1..BlockLen
  /\ pc \in {"enter", "operands", "return", "finished", "done", "aborted"}
  /\ status \in Statuses
  /\ \A r \in {mem_ref, imm_ref, disp_ref} : r = NoRef \/ (r \in Value /\ Fits(r))
  /\ {mem_ref_used, imm_ref_used, disp_ref_used} \subseteq BOOLEAN
  /\ lifted \in Seq([val : Nat, width : Nat, from : RefKinds \cup {"none"}])
  /\ \A k \in DOMAIN lifted : Fits(lifted[k])
  /\ diags \subseteq [inst : 1..BlockLen, kind : Diags]

(* Every operand lifted so far, with or without a substituted reference,  *)
(* has the value (and the width) remill's generic path gives its raw      *)
(* encoding: LiftImmediateOperand truncates a reference to the operand's  *)
(* width, LiftAddressOperand clears the displacement before adding a      *)
(* displacement reference, and no reference of an earlier instruction of  *)
(* the block leaks into this one.                                         *)
EffectiveValuePreserved ==
  pc # "enter" => \A k \in DOMAIN lifted :
    [val |-> lifted[k].val, width |-> lifted[k].width] = RawValue(Inst.ops[k])

(* When LiftIntoBlock returns for an instruction with semantics, it       *)
(* reports exactly the references of the instruction's CFG entry that no  *)
(* operand received.                                                      *)
UnusedRefReported ==
  pc = "finished" /\ status = "kLiftedInstruction" =>
    LET present == {k \in RefKinds : Inst.cfg /\ Inst[k] # NoXref}
        taken   == {lifted[j].from : j \in DOMAIN lifted}
    IN {d.kind : d \in {d \in diags : d.inst = idx}} \ {"missed_xref", "misclassified"}
         = {UnusedDiag[k] : k \in present \ taken}

(* Spec 4.2 step 2a: a reference is substituted only if "present and      *)
(* unused", so no two operands of an instruction receive the same one.    *)
RefSubstitutedOnce ==
  \A j, k \in DOMAIN lifted :
    j # k /\ lifted[j].from # "none" => lifted[j].from # lifted[k].from

---------------------------------------------------------------------------
(* The lifter implements LiftedOperands: hiding the used flags, the       *)
(* reference fields and the operand index, remill's callbacks are the     *)
(* abstract LiftOperand steps and LiftIntoBlock's two halves are Begin    *)
(* and Finish.                                                            *)
Abstract == INSTANCE LiftedOperands WITH
  phase    <- CASE pc = "enter" -> "idle"
                [] pc \in {"operands", "return"} -> "lifting"
                [] OTHER -> pc,
  values   <- [k \in DOMAIN lifted |-> [val |-> lifted[k].val, width |-> lifted[k].width]],
  reported <- diags

(* Every behaviour of the lifter, over a block whose instructions may     *)
(* carry masked references, is one LiftedOperands allows: every operand   *)
(* gets the value the references of its own instruction designate (none   *)
(* of an earlier instruction's), the misclassification test compares the *)
(* displacement with the memory reference's target address and adds its  *)
(* masked value, and the diagnostics are those spec 4.2 names.            *)
ImplementsLiftedOperands == Abstract!Spec
=============================================================================
