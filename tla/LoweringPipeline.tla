--------------------------- MODULE LoweringPipeline ---------------------------
(***************************************************************************)
(* The tail of mcsema::OptimizeModule (src/unnamed/part_000, lines         *)
(* 377-384) as the composition of two components: LowerMemOps and the     *)
(* ReplaceBarrier calls (MemOpLowering) turn the memory intrinsics into    *)
(* inttoptr casts, loads and stores, and RemoveUndefFuncCalls then runs    *)
(* ReplaceUndefIntrinsic (UndefPropagation) on the body they produced.     *)
(*                                                                         *)
(* The hand-over gives the body to the second component in its own form:  *)
(* the live instructions in program order numbered 1, 2, ..., an opcode as *)
(* the isa<> tests of ReplaceUndefIntrinsic see it (a call of             *)
(* __remill_undefined_64, a cast, a store, or another instruction), and   *)
(* the function's arguments as Arg.  The ids past the body are            *)
(* instructions without operands, which no propagation reaches.           *)
(***************************************************************************)
EXTENDS MemOpLowering

CONSTANT MaxBody   \* ids of the second component: at least the body's length

VARIABLES uir, uops, ulive, uwork, unext, udead, udeclared, upc

uvars == <<uir, uops, ulive, uwork, unext, udead, udeclared, upc>>

U == INSTANCE UndefPropagation
       WITH Ids <- 1..MaxBody, Functions <- {},
            ir <- uir, ops <- uops, live <- ulive, work_list <- uwork,
            next_work_list <- unext, dead_stores <- udead,
            declared <- udeclared, pc <- upc

\* The one undefined-value intrinsic the bodies call.
UndefFn == "__remill_undefined_64"

\* The place of instruction v in the body after lowering.
UIndex(v) == Cardinality({w \in live : Pos(w) < Pos(v)}) + 1

\* The body after lowering, in program order.
BodyOrder == [k \in 1..Cardinality(live) |-> CHOOSE v \in live : UIndex(v) = k]

UOperand(v) == IF v \in DOMAIN ArgTy THEN U!Arg ELSE UIndex(v)

(* What ReplaceUndefIntrinsic tells apart: CallersOf(undef_func), and     *)
(* isa<CmpInst>, isa<CastInst>, dyn_cast<StoreInst>.  inttoptr, fptrunc   *)
(* and fpext are casts; a load or any other instruction stops the         *)
(* propagation.                                                           *)
UOpcode(x) ==
  CASE x.op = "call" /\ x.fn = UndefFn               -> "call"
    [] x.op \in {"inttoptr", "fptrunc", "fpext"}     -> "cast"
    [] x.op = "store"                                -> "store"
    [] OTHER                                         -> "other"

NoInstr == [op |-> "other", args |-> <<>>]

LoweredBody ==
  [k \in 1..MaxBody |->
     IF k <= Len(BodyOrder)
       THEN LET x == insts[BodyOrder[k]]
            IN [op |-> UOpcode(x),
                args |-> [j \in DOMAIN x.args |-> UOperand(x.args[j])]]
       ELSE NoInstr]

PInit ==
  /\ Init
  /\ uir = [k \in 1..MaxBody |-> NoInstr]
  /\ uops = [k \in 1..MaxBody |-> <<>>]
  /\ ulive = {}
  /\ uwork = {}
  /\ unext = {}
  /\ udead = <<>>
  /\ udeclared = TRUE
  /\ upc = "lowering"

(* OptimizeModule goes on from the last ReplaceBarrier to                 *)
(* RemoveUndefFuncCalls, which runs ReplaceUndefIntrinsic for             *)
(* __remill_undefined_64 when the module declares it (the other widths     *)
(* are not called in these bodies).                                       *)
RemoveUndefFuncCalls ==
  /\ pc = Done
  /\ upc = "lowering"
  /\ uir' = LoweredBody
  /\ uops' = [k \in 1..MaxBody |-> LoweredBody[k].args]
  /\ ulive' = 1..MaxBody
  /\ UNCHANGED <<uwork, unext, udead>>
  /\ udeclared' = Declared(UndefFn)
  /\ upc' = IF Declared(UndefFn) THEN "replace" ELSE "done"
  /\ UNCHANGED vars

PNext ==
  \/ Next /\ UNCHANGED uvars
  \/ RemoveUndefFuncCalls
  \/ U!Next /\ UNCHANGED vars

PSpec == PInit /\ [][PNext]_<<vars, uvars>>

---------------------------------------------------------------------------
UndefCall(v) == v \in DOMAIN prog /\ prog[v].op = "call" /\ prog[v].fn = UndefFn

IsWrite(c) == prog[c].op = "call" /\ Sig(prog[c].fn).kind = "write"

\* The write call whose lowering inserted the store at position k.
StoreOrigin(k) == BodyOrder[k] \div 10

(* After RemoveUndefFuncCalls, a store is left for exactly the write       *)
(* intrinsic calls whose address and value are defined: a write of         *)
(* __remill_undefined_64's result, or to it as an address (through the    *)
(* inttoptr cast LowerMemOps made), is erased as a dead store, and every   *)
(* other write keeps the store it was lowered to.  This holds only because *)
(* OptimizeModule lowers the memory intrinsics before it removes the       *)
(* undefined values: a write call is not a StoreInst.                     *)
UndefWritesErased ==
  upc = "done" =>
    {StoreOrigin(k) : k \in {k \in ulive : k <= Len(BodyOrder) /\ uir[k].op = "store"}}
      = {c \in DOMAIN prog :
           IsWrite(c) /\ ~UndefCall(prog[c].args[2]) /\ ~UndefCall(prog[c].args[3])}

(* Every dead store the propagation finds is erased once: the loop over   *)
(* dead_stores calls eraseFromParent on each entry, and a second call on  *)
(* an erased store is a use after free.                                   *)
LoweredStoreErasedOnce == U!NoStoreErasedTwice
=============================================================================
