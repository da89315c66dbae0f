---------------------------- MODULE MemOpLowering ----------------------------
(***************************************************************************)
(* The instruction-level view of two stages of mcsema::OptimizeModule      *)
(* (src/unnamed/part_000): LowerMemOps, which replaces every call of a     *)
(* remill memory intrinsic by an inttoptr and a load or store, and the six *)
(* ReplaceBarrier calls, which replace every barrier call by its memory    *)
(* argument.  OptimizeModule counts uses; this module follows the values.  *)
(*                                                                         *)
(* A function body is straight-line SSA: instruction i of the original     *)
(* body has id i, the arguments of the function have negative ids, and    *)
(* the j-th instruction IRBuilder inserts before call c has id 10*c + j,   *)
(* so that it sits between instruction c - 1 and c.  An instruction is a  *)
(* record of its opcode, its callee (calls only), its result type and its *)
(* operands.  A "use" is any other instruction of the lifted code that    *)
(* reads a value (a return, a store into the State structure).            *)
(***************************************************************************)
EXTENDS Integers, Sequences, FiniteSets, Functions, TLC
LOCAL INSTANCE SequencesExt

CONSTANTS
  Programs,   \* the possible bodies: [1..N -> instruction], N < 10
  ArgTy       \* the function's arguments: negative id -> type

---------------------------------------------------------------------------
(* remill's intrinsics (remill/Arch/Runtime/Intrinsics.h): the memory      *)
(* pointer is the first parameter, an address is an addr_t, and an 80-bit *)
(* float crosses the call boundary as a double.  An undefined-value       *)
(* intrinsic takes nothing and is not lowered here.                        *)
AddrTy == "i64"

MemTy(s) ==
  CASE s = "8" -> "i8" [] s = "16" -> "i16" [] s = "32" -> "i32"
    [] s = "64" -> "i64" [] s = "f32" -> "f32" [] s = "f64" -> "f64"
    [] s = "f80" -> "f80"

CallTy(t) == IF t = "f80" THEN "f64" ELSE t

Intrinsics ==
  {[name |-> "__remill_read_memory_" \o s, kind |-> "read", mem |-> MemTy(s),
    params |-> <<"mem", AddrTy>>, ret |-> CallTy(MemTy(s))] :
      s \in {"8", "16", "32", "64", "f32", "f64", "f80"}}
  \cup
  {[name |-> "__remill_write_memory_" \o s, kind |-> "write", mem |-> MemTy(s),
    params |-> <<"mem", AddrTy, CallTy(MemTy(s))>>, ret |-> "mem"] :
      s \in {"8", "16", "32", "64", "f32", "f64", "f80"}}
  \cup
  {[name |-> "__remill_barrier_" \o b, kind |-> "barrier", mem |-> "none",
    params |-> <<"mem">>, ret |-> "mem"] :
      b \in {"load_load", "load_store", "store_load", "store_store",
             "atomic_begin", "atomic_end"}}
  \cup
  {[name |-> "__remill_undefined_" \o s, kind |-> "undefined", mem |-> "none",
    params |-> <<>>, ret |-> MemTy(s)] :
      s \in {"8", "16", "32", "64", "f32", "f64"}}

Sig(name) == CHOOSE f \in Intrinsics : f.name = name

PtrTo(t) == t \o "*"

\* LLVM's rank of the floating-point types, for fptrunc and fpext.
FloatRank == [f32 |-> 1, f64 |-> 2, f80 |-> 3]
IsFloat(t) == t \in DOMAIN FloatRank

---------------------------------------------------------------------------
(* LowerMemOps and the ReplaceBarrier calls of OptimizeModule, in the      *)
(* order the code runs them: the intrinsic's name and the val_type it      *)
(* passes.                                                                 *)
LowerMemOpsTable ==
  <<[kind |-> "read", name |-> "__remill_read_memory_8", val_type |-> "i8"],
    [kind |-> "read", name |-> "__remill_read_memory_16", val_type |-> "i16"],
    [kind |-> "read", name |-> "__remill_read_memory_32", val_type |-> "i32"],
    [kind |-> "read", name |-> "__remill_read_memory_64", val_type |-> "i64"],
    [kind |-> "read", name |-> "__remill_read_memory_f32", val_type |-> "f32"],
    [kind |-> "read", name |-> "__remill_read_memory_f64", val_type |-> "f64"],
    [kind |-> "write", name |-> "__remill_write_memory_8", val_type |-> "i8"],
    [kind |-> "write", name |-> "__remill_write_memory_16", val_type |-> "i16"],
    [kind |-> "write", name |-> "__remill_write_memory_32", val_type |-> "i32"],
    [kind |-> "write", name |-> "__remill_write_memory_64", val_type |-> "i64"],
    [kind |-> "write", name |-> "__remill_write_memory_f32", val_type |-> "f32"],
    [kind |-> "write", name |-> "__remill_write_memory_f64", val_type |-> "f64"],
    [kind |-> "read", name |-> "__remill_read_memory_f80", val_type |-> "f80"],
    [kind |-> "write", name |-> "__remill_write_memory_f80", val_type |-> "f80"]>>

BarrierTable ==
  [k \in 1..6 |->
     [kind |-> "barrier", val_type |-> "mem",
      name |-> "__remill_barrier_" \o
                 <<"load_load", "load_store", "store_load", "store_store",
                   "atomic_begin", "atomic_end">>[k]]]

Table == LowerMemOpsTable \o BarrierTable

Done == Len(Table) + 1

VARIABLES
  prog,     \* history: the body before lowering
  insts,    \* every instruction that exists or existed: id -> record
  live,     \* ids of the instructions in the body
  pc,       \* index of the Table entry being lowered; Done when finished
  phase,    \* "enter" | "lower" (callers loop) | "barrier" (its loop)
  callers,  \* CallersOf(func), taken on entry
  todo      \* callers the first loop has not visited yet

vars == <<prog, insts, live, pc, phase, callers, todo>>

Entry == Table[pc]

NewId(c, j) == 10 * c + j

\* Position in the body: inserted instructions come before their call.
Pos(i) == IF i < 10 THEN 10 * i + 9 ELSE i

TypeIn(ins, v) == IF v \in DOMAIN ArgTy THEN ArgTy[v] ELSE ins[v].ty

(* Value::replaceAllUsesWith: every operand of a live instruction that is *)
(* old becomes new, in the lifted code and the inserted code alike.       *)
ReplaceUses(ins, lv, old, new) ==
  [i \in DOMAIN ins |->
     IF i \in lv
       THEN [ins[i] EXCEPT !.args =
               [j \in DOMAIN ins[i].args |->
                  IF ins[i].args[j] = old THEN new ELSE ins[i].args[j]]]
       ELSE ins[i]]

\* CallersOf: the call instructions among the users of the function.
CallersOf(name) == {i \in live : insts[i].op = "call" /\ insts[i].fn = name}

\* gModule->getFunction(name): the intrinsic is declared in the module.
Declared(name) == \E i \in DOMAIN prog : prog[i].op = "call" /\ prog[i].fn = name

\* The new instructions, in order, as a function from their ids.
Inserted(c, seq) == [j \in {NewId(c, k) : k \in DOMAIN seq} |-> seq[j - 10 * c]]

Instr(op, ty, args) == [op |-> op, fn |-> "", ty |-> ty, args |-> args]

Init ==
  /\ prog \in Programs
  /\ insts = prog
  /\ live = DOMAIN prog
  /\ pc = 1
  /\ phase = "enter"
  /\ callers = {}
  /\ todo = {}

(* Entering ReplaceMemReadOp, ReplaceMemWriteOp or ReplaceBarrier: an     *)
(* intrinsic the module does not declare is skipped; otherwise its        *)
(* callers are collected.  Lifted code declares the intrinsics, so the    *)
(* CHECK(func->isDeclaration()) holds.                                    *)
Enter ==
  /\ phase = "enter"
  /\ pc < Done
  /\ IF Declared(Entry.name)
       THEN /\ callers' = CallersOf(Entry.name)
            /\ todo' = callers'
            /\ phase' = IF Entry.kind = "barrier" THEN "barrier" ELSE "lower"
            /\ UNCHANGED pc
       ELSE /\ pc' = pc + 1
            /\ UNCHANGED <<phase, callers, todo>>
  /\ UNCHANGED <<prog, insts, live>>

\* Mutant: the f80 value is loaded but not truncated to the return type.
ReadInstrsNoTrunc(c, vt) ==
  <<Instr("inttoptr", PtrTo(vt), <<insts[c].args[2]>>),
    Instr("load", vt, <<NewId(c, 1)>>)>>

(* What ReplaceMemReadOp inserts before call c: inttoptr its address      *)
(* operand (argument 1) to val_type*, load it, and for an x86_fp80        *)
(* fptrunc the load to the function's return type.                        *)
ReadInstrs(c, vt) ==
  LET load == <<Instr("inttoptr", PtrTo(vt), <<insts[c].args[2]>>),
                Instr("load", vt, <<NewId(c, 1)>>)>>
  IN IF vt = "f80"
       THEN Append(load, Instr("fptrunc", Sig(insts[c].fn).ret, <<NewId(c, 2)>>))
       ELSE load

(* What ReplaceMemWriteOp inserts before call c: inttoptr the address to  *)
(* val_type*, fpext an x86_fp80 value (argument 2) to val_type, and store *)
(* the value.                                                             *)
WriteInstrs(c, vt) ==
  LET val == insts[c].args[3]
      ptr == Instr("inttoptr", PtrTo(vt), <<insts[c].args[2]>>)
  IN IF vt = "f80"
       THEN <<ptr, Instr("fpext", vt, <<val>>),
              Instr("store", "void", <<NewId(c, 2), NewId(c, 1)>>)>>
       ELSE <<ptr, Instr("store", "void", <<val, NewId(c, 1)>>)>>

(* One iteration of the first loop of ReplaceMemReadOp or                 *)
(* ReplaceMemWriteOp: insert the new instructions before the call, then   *)
(* replace the call's uses by the read value (the last one inserted) or   *)
(* by the write's memory pointer (argument 0).                            *)
Lower(c) ==
  LET new == IF Entry.kind = "read" THEN ReadInstrs(c, Entry.val_type)
                                    ELSE WriteInstrs(c, Entry.val_type)
      lv == live \cup DOMAIN Inserted(c, new)
      by == IF Entry.kind = "read" THEN NewId(c, Len(new)) ELSE insts[c].args[1]
  IN /\ insts' = ReplaceUses(insts @@ Inserted(c, new), lv, c, by)
     /\ live' = lv

(* The callers loop, one caller at a time in use-list order.              *)
LowerCall ==
  /\ phase = "lower"
  /\ \E c \in todo :
       /\ todo' = todo \ {c}
       /\ Lower(c)
  /\ UNCHANGED <<prog, pc, phase, callers>>

\* Mutant: the second loop is missing; the callers stay in the body.
EraseCallersKeep ==
  /\ phase = "lower"
  /\ todo = {}
  /\ pc' = pc + 1
  /\ phase' = "enter"
  /\ UNCHANGED <<prog, insts, live, callers, todo>>

(* The second loop erases every caller; RemoveFunction(func) then finds   *)
(* the intrinsic without uses (OptimizeModule models its deletion).       *)
EraseCallers ==
  /\ phase = "lower"
  /\ todo = {}
  /\ live' = live \ callers
  /\ pc' = pc + 1
  /\ phase' = "enter"
  /\ UNCHANGED <<prog, insts, callers, todo>>

(* One iteration of ReplaceBarrier's loop: the call's uses take its      *)
(* memory pointer, and the call is erased at once.                        *)
ReplaceBarrierCall ==
  /\ phase = "barrier"
  /\ \E c \in todo :
       /\ todo' = todo \ {c}
       /\ insts' = ReplaceUses(insts, live, c, insts[c].args[1])
       /\ live' = live \ {c}
  /\ UNCHANGED <<prog, pc, phase, callers>>

ReplaceBarrierEnd ==
  /\ phase = "barrier"
  /\ todo = {}
  /\ pc' = pc + 1
  /\ phase' = "enter"
  /\ UNCHANGED <<prog, insts, live, callers, todo>>

Finished == pc = Done /\ UNCHANGED vars

Next ==
  \/ Enter \/ LowerCall \/ EraseCallers
  \/ ReplaceBarrierCall \/ ReplaceBarrierEnd \/ Finished

Spec == Init /\ [][Next]_vars
---------------------------------------------------------------------------
(* What a value denotes, whichever of the two forms computes it: the bits *)
(* read from memory as a type at an address, converted to another type,   *)
(* or an argument.  Memory-state values (the Memory pointer) are all one  *)
(* token: the lowering gives up the chain of memory states.  inttoptr     *)
(* keeps the bits; fptrunc and fpext convert.  A read intrinsic whose     *)
(* return type is not its memory type converts what it reads.             *)
RECURSIVE Den(_, _)
Den(ins, v) ==
  IF TypeIn(ins, v) = "mem" THEN [memory |-> TRUE]
  ELSE IF v \in DOMAIN ArgTy THEN [arg |-> v]
  ELSE LET x == ins[v] IN
    CASE x.op = "call" /\ Sig(x.fn).kind = "undefined" -> [undef |-> v]
      [] x.op = "call" ->
           LET r == [mem |-> Sig(x.fn).mem, at |-> Den(ins, x.args[2])]
           IN IF Sig(x.fn).mem = x.ty THEN r ELSE [conv |-> x.ty, of |-> r]
      [] x.op = "load"     -> [mem |-> x.ty, at |-> Den(ins, x.args[1])]
      [] x.op = "inttoptr" -> Den(ins, x.args[1])
      [] OTHER             -> [conv |-> x.ty, of |-> Den(ins, x.args[1])]

IsAccess(x) ==
  \/ x.op \in {"load", "store"}
  \/ x.op = "call" /\ Sig(x.fn).kind \in {"read", "write"}

(* A memory access: loads and reads, stores and writes, with the type in *)
(* memory, the address and the stored value.                              *)
Access(ins, i) ==
  LET x == ins[i] IN
  CASE x.op = "load" -> [load |-> x.ty, at |-> Den(ins, x.args[1])]
    [] x.op = "store" ->
         [store |-> TypeIn(ins, x.args[1]), at |-> Den(ins, x.args[2]),
          val |-> Den(ins, x.args[1])]
    [] Sig(x.fn).kind = "read" -> [load |-> Sig(x.fn).mem, at |-> Den(ins, x.args[2])]
    [] OTHER ->
         [store |-> Sig(x.fn).mem, at |-> Den(ins, x.args[2]),
          val |-> IF Sig(x.fn).mem = TypeIn(ins, x.args[3])
                    THEN Den(ins, x.args[3])
                    ELSE [conv |-> Sig(x.fn).mem, of |-> Den(ins, x.args[3])]]

\* The accesses of the body, in program order.
Accesses(ins, lv) ==
  LET ord == SetToSortSeq({i \in lv : IsAccess(ins[i])}, LAMBDA a, b : Pos(a) < Pos(b))
  IN [k \in DOMAIN ord |-> Access(ins, ord[k])]

(* After every step, each operand of each instruction of the body is an  *)
(* argument or an instruction still in the body, of the type its user     *)
(* expects: LLVM's verifier rules for calls, inttoptr, load, store,       *)
(* fptrunc and fpext.  replaceAllUsesWith checks no type: only the f80    *)
(* branches of ReplaceMemReadOp and ReplaceMemWriteOp make the new value  *)
(* agree with the intrinsic's calling convention.                         *)
WellTyped ==
  \A i \in live : \A j \in DOMAIN insts[i].args :
    LET x == insts[i]
        v == x.args[j]
        t == TypeIn(insts, v)
    IN /\ v \in DOMAIN ArgTy \cup live
       /\ CASE x.op = "call"     -> t = Sig(x.fn).params[j]
            [] x.op = "inttoptr" -> t = AddrTy
            [] x.op = "load"     -> t = PtrTo(x.ty)
            [] x.op = "store"    -> j = 2 => t = PtrTo(TypeIn(insts, x.args[1]))
            [] x.op = "fptrunc"  -> IsFloat(t) /\ FloatRank[t] > FloatRank[x.ty]
            [] x.op = "fpext"    -> IsFloat(t) /\ FloatRank[t] < FloatRank[x.ty]
            [] OTHER             -> TRUE

(* When OptimizeModule has lowered every intrinsic, no call of one is     *)
(* left (calls of __remill_undefined_* wait for RemoveUndefFuncCalls),    *)
(* the body makes the same memory accesses in the same order as the       *)
(* intrinsic calls did (an f80 read truncates what it loads, an f80 write *)
(* stores the extended value), and every other instruction reads the      *)
(* value it read before, whatever order the use lists gave the callers.   *)
LoweringPreservesMeaning ==
  pc = Done =>
    /\ \A i \in live : insts[i].op = "call" => Sig(insts[i].fn).kind = "undefined"
    /\ Accesses(insts, live) = Accesses(prog, DOMAIN prog)
    /\ \A i \in DOMAIN prog :
         prog[i].op = "use" =>
           Den(insts, insts[i].args[1]) = Den(prog, prog[i].args[1])
=============================================================================
