--------------------------- MODULE UndefPropagation ---------------------------
(***************************************************************************)
(* The last stage of OptimizeModule (src/unnamed/part_000): for one       *)
(* __remill_undefined_* intrinsic, ReplaceUndefIntrinsic replaces every   *)
(* call with `undef`, propagates `undef` through the compare and cast     *)
(* instructions that use it, round by round, collects the stores reached  *)
(* as dead stores and erases them; RemoveUndefFuncCalls then removes the  *)
(* declaration if nothing uses it any more.                               *)
(*                                                                         *)
(* The IR of the module is a map from instruction ids to an opcode and a  *)
(* sequence of operands.  An operand is an instruction id, Arg (a value   *)
(* that is not an instruction: an argument or a constant) or Undef.       *)
(***************************************************************************)
EXTENDS Integers, Sequences, FiniteSets

CONSTANTS
  Ids,          \* instruction ids, 1..N
  Functions     \* the IRs the optimizer may be given

Arg   == 0
Undef == -1
Vals  == Ids \cup {Arg, Undef}

\* "call" is a call of the intrinsic; "other" is any other instruction
\* (arithmetic, phi, select, call of another function, return...).
Opcodes == {"call", "cast", "cmp", "store", "other"}

VARIABLES
  ir,              \* the IR before the stage (history, never changed)
  ops,             \* current operands of every instruction
  live,            \* instructions still in their basic block
  work_list,       \* users still to visit in this round
  next_work_list,  \* users collected for the next round
  dead_stores,     \* std::vector<llvm::StoreInst *> dead_stores
  declared,        \* the intrinsic's declaration is still in the module
  pc               \* "replace" | "propagate" | "erase" | "done" | "crashed"

vars == <<ir, ops, live, work_list, next_work_list, dead_stores, declared, pc>>

Operands(u) == {ops[u][k] : k \in DOMAIN ops[u]}

\* v->users(): the live instructions that have v as an operand.
UsersOf(v) == {u \in live : v \in Operands(u)}

\* v->replaceAllUsesWith(undef)
RAUW(vs) == [u \in Ids |-> [k \in DOMAIN ops[u] |->
                              IF ops[u][k] \in vs THEN Undef ELSE ops[u][k]]]

\* CallersOf(function)
CallersOf == {u \in live : ir[u].op = "call"}

Init ==
  /\ ir \in Functions
  /\ ops = [u \in Ids |-> ir[u].args]
  /\ live = Ids
  /\ work_list = {}
  /\ next_work_list = {}
  /\ dead_stores = <<>>
  /\ declared = TRUE
  /\ pc = "replace"

\* Mutant: the users are collected after replaceAllUsesWith.
ReplaceCallsUsersAfterRAUW ==
  /\ pc = "replace"
  /\ LET after == RAUW(CallersOf)
     IN work_list' = {u \in live : \E k \in DOMAIN after[u] : after[u][k] \in CallersOf}
  /\ ops' = RAUW(CallersOf)
  /\ live' = live \ CallersOf
  /\ pc' = "propagate"
  /\ UNCHANGED <<ir, next_work_list, dead_stores, declared>>

(* ReplaceUndefIntrinsic, first loop: collect the users of every call,    *)
(* replace the call by undef and delete it.                               *)
ReplaceCalls ==
  /\ pc = "replace"
  /\ work_list' = UNION {UsersOf(c) : c \in CallersOf}
  /\ ops' = RAUW(CallersOf)
  /\ live' = live \ CallersOf
  /\ pc' = "propagate"
  /\ UNCHANGED <<ir, next_work_list, dead_stores, declared>>

\* Mutant: only casts pass undef on (compares are not visited).
VisitCastsOnly ==
  /\ pc = "propagate"
  /\ \E inst \in work_list :
       /\ work_list' = work_list \ {inst}
       /\ \/ /\ ir[inst].op = "cast"
             /\ next_work_list' = next_work_list \cup UsersOf(inst)
             /\ ops' = RAUW({inst})
             /\ UNCHANGED dead_stores
          \/ /\ ir[inst].op = "store"
             /\ dead_stores' = Append(dead_stores, inst)
             /\ UNCHANGED <<next_work_list, ops>>
          \/ /\ ir[inst].op \notin {"cast", "store"}
             /\ UNCHANGED <<next_work_list, ops, dead_stores>>
  /\ UNCHANGED <<ir, live, declared, pc>>

\* Mutant: every other user is taken for a store (no dyn_cast check).
VisitNoStoreCheck ==
  /\ pc = "propagate"
  /\ \E inst \in work_list :
       /\ work_list' = work_list \ {inst}
       /\ \/ /\ ir[inst].op \in {"cmp", "cast"}
             /\ next_work_list' = next_work_list \cup UsersOf(inst)
             /\ ops' = RAUW({inst})
             /\ UNCHANGED dead_stores
          \/ /\ ir[inst].op \notin {"cmp", "cast"}
             /\ dead_stores' = Append(dead_stores, inst)
             /\ UNCHANGED <<next_work_list, ops>>
  /\ UNCHANGED <<ir, live, declared, pc>>

(* One iteration of the inner for loop over the round's work list (a      *)
(* std::set, visited in pointer order, so in any order): a compare or     *)
(* cast passes its users to the next round and is replaced by undef; a    *)
(* store is remembered as dead; anything else stops the propagation.      *)
Visit ==
  /\ pc = "propagate"
  /\ \E inst \in work_list :
       /\ work_list' = work_list \ {inst}
       /\ \/ /\ ir[inst].op \in {"cmp", "cast"}
             /\ next_work_list' = next_work_list \cup UsersOf(inst)
             /\ ops' = RAUW({inst})
             /\ UNCHANGED dead_stores
          \/ /\ ir[inst].op = "store"
             /\ dead_stores' = Append(dead_stores, inst)
             /\ UNCHANGED <<next_work_list, ops>>
          \/ /\ ir[inst].op \notin {"cmp", "cast", "store"}
             /\ UNCHANGED <<next_work_list, ops, dead_stores>>
  /\ UNCHANGED <<ir, live, declared, pc>>

(* Mutant: next_work_list is declared outside the while loop, so the     *)
(* swap hands the old work list back to it and it is never emptied.      *)
NextRoundKeepNext ==
  /\ pc = "propagate"
  /\ work_list = {}
  /\ work_list' = next_work_list
  /\ pc' = IF next_work_list = {} THEN "erase" ELSE "propagate"
  /\ UNCHANGED <<ir, ops, live, dead_stores, declared, next_work_list>>

(* End of a round: work_list.swap(next_work_list); the while loop ends    *)
(* when the new work list is empty.                                       *)
NextRound ==
  /\ pc = "propagate"
  /\ work_list = {}
  /\ work_list' = next_work_list
  /\ next_work_list' = {}
  /\ pc' = IF next_work_list = {} THEN "erase" ELSE "propagate"
  /\ UNCHANGED <<ir, ops, live, dead_stores, declared>>

Queued(s) == {k \in DOMAIN dead_stores : dead_stores[k] = s}
ErasedTwice == \E s \in Ids : Cardinality(Queued(s)) > 1

(* The loop erasing the dead stores, then RemoveFunction(undef_func):     *)
(* the declaration goes when no call uses it any more.  Erasing a store   *)
(* a second time is a use after free (undefined behaviour): the run may   *)
(* crash, or go on as if the second erase had not happened.               *)
EraseDeadStores ==
  /\ pc = "erase"
  /\ live' = live \ {dead_stores[k] : k \in DOMAIN dead_stores}
  /\ declared' = (CallersOf # {})
  /\ pc' \in IF ErasedTwice THEN {"done", "crashed"} ELSE {"done"}
  /\ UNCHANGED <<ir, ops, work_list, next_work_list, dead_stores>>

Terminated ==
  /\ pc \in {"done", "crashed"}
  /\ UNCHANGED vars

Next ==
  \/ ReplaceCalls
  \/ Visit
  \/ NextRound
  \/ EraseDeadStores
  \/ Terminated

Spec == Init /\ [][Next]_vars /\ WF_vars(Next)

---------------------------------------------------------------------------
(* Reference definition: the instructions made undef, the calls and every *)
(* compare or cast with an operand that is (transitively) made undef.     *)
RECURSIVE UndefClosure(_, _)
UndefClosure(f, s) ==
  LET grown == s \cup {u \in Ids : f[u].op \in {"cmp", "cast"} /\
                                   \E k \in DOMAIN f[u].args : f[u].args[k] \in s}
  IN IF grown = s THEN s ELSE UndefClosure(f, grown)

Derived == UndefClosure(ir, {u \in Ids : ir[u].op = "call"})

Stores == {u \in Ids : ir[u].op = "store"}

ArgsOf(u) == {ir[u].args[k] : k \in DOMAIN ir[u].args}

---------------------------------------------------------------------------
TypeOK ==
  /\ ops \in [Ids -> Seq(Vals)]
  /\ live \subseteq Ids
  /\ work_list \subseteq Ids /\ next_work_list \subseteq Ids
  /\ dead_stores \in Seq(Stores)   \* std::vector<llvm::StoreInst *>
  /\ declared \in BOOLEAN
  /\ pc \in {"replace", "propagate", "erase", "done", "crashed"}

(* When the stage is done, the worklist has computed the reference        *)
(* closure: no live instruction uses a call or an undef-derived compare   *)
(* or cast any more, the stores that used one are erased, all other       *)
(* stores are kept.                                                       *)
PropagationComplete ==
  pc = "done" =>
    /\ \A u \in live : Operands(u) \cap Derived = {}
    /\ live \cap Stores = {s \in Stores : ArgsOf(s) \cap Derived = {}}

(* The while loop over the rounds ends: every round's work list is the   *)
(* users of values made undef in the previous one, a fresh std::set each  *)
(* round, and the IR has no cycle through compares and casts, so the      *)
(* stage reaches the erase loop and finishes (or crashes in it).          *)
PropagationTerminates == <>(pc \in {"done", "crashed"})

(* Every store reached by the propagation is queued for erasure once: the *)
(* loop over dead_stores calls eraseFromParent on each entry.             *)
NoStoreErasedTwice == ~ErasedTwice

(* Spec section 8: a store whose stored value (operand 1) is not wholly   *)
(* derived from an undefined value is preserved.                          *)
DefinedStoreKept ==
  pc = "done" =>
    \A s \in Stores : ir[s].args[1] \notin Derived => s \in live
=============================================================================
