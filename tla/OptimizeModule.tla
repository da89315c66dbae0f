---------------------------- MODULE OptimizeModule ----------------------------
(***************************************************************************)
(* mcsema::OptimizeModule (src/unnamed/part_000): the whole-module pass    *)
(* run after lifting.  Its stages, in the order the code runs them:        *)
(* FindISELs, RemoveIntrinsics, RemoveISELs, RunO3, RemoveIntrinsics,      *)
(* LowerMemOps, ReplaceBarrier (x6), RemoveUndefFuncCalls.                 *)
(*                                                                         *)
(* The module is abstracted to its remill intrinsics and its global        *)
(* variables, each with the uses LLVM counts for it:                       *)
(*  - calls from lifted code, and other live uses (address taken);         *)
(*  - the references of __remill_intrinsics, whose body takes the address  *)
(*    of every intrinsic and calls __remill_mark_as_used;                  *)
(*  - membership in the llvm.used array.  Erasing the llvm.used variable   *)
(*    leaves its initializer array behind as a dead constant that still    *)
(*    counts as a use, until the optimizer's GlobalDCE drops dead          *)
(*    constants.                                                           *)
(***************************************************************************)
EXTENDS Integers, Sequences, FiniteSets
LOCAL INSTANCE SequencesExt

CONSTANTS
  MemOps,      \* __remill_read_memory_* / __remill_write_memory_* lowered
  Barriers,    \* __remill_barrier_* replaced
  Undefs,      \* __remill_undefined_* replaced
  Globals,     \* global variables of the module
  InitFns,     \* possible initial states of the intrinsics
  InitGvs      \* possible initial states of the global variables

Intr  == "__remill_intrinsics"
BB    == "__remill_basic_block"
Used  == "__remill_mark_as_used"
Defer == "__remill_defer_inlining"
Ret   == "__remill_function_return"

FnNames == {Intr, BB, Used, Defer, Ret} \cup MemOps \cup Barriers \cup Undefs

\* Functions __remill_intrinsics refers to.
IntrRefs == FnNames \ {Intr, BB}

\* Mutant: RemoveIntrinsics first, then FindISELs.
OrderSwapped == <<"RemoveIntrinsics", "FindISELs", "RemoveISELs", "RunO3",
                  "RemoveIntrinsics", "LowerMemOps", "ReplaceBarrier",
                  "RemoveUndefFuncCalls">>

\* The stages of OptimizeModule, in the order it runs them.
Order == <<"FindISELs", "RemoveIntrinsics", "RemoveISELs", "RunO3",
           "RemoveIntrinsics", "LowerMemOps", "ReplaceBarrier",
           "RemoveUndefFuncCalls">>

Done == Len(Order) + 1

VARIABLES
  fns,      \* [FnNames -> [present, decl, linkage, inline, calls, extra, inUsed]]
  gvs,      \* [Globals -> [present, sem, users, extra, inUsed]]
  arr,      \* the llvm.used array: "live" | "dead" (variable erased) | "gone"
  isels,    \* ISELs still to visit in this pass of RemoveISELs
  next_isels, \* ISELs kept for the next pass
  pc,       \* index of the stage in Order; Done when finished
  aborted,  \* a CHECK failed
  bb0       \* history: __remill_basic_block was in the module at the start

vars == <<fns, gvs, arr, isels, next_isels, pc, aborted, bb0>>

Stage == IF pc \in DOMAIN Order THEN Order[pc] ELSE "Done"

---------------------------------------------------------------------------
(* Uses of function n that are not the llvm.used array.                   *)
LiveUses(fs, n) ==
  fs[n].calls + fs[n].extra + (IF fs[Intr].present /\ n \in IntrRefs THEN 1 ELSE 0)

(* func->getNumUses(), counting the llvm.used array while it exists.      *)
Uses(fs, a, n) == LiveUses(fs, n) + (IF fs[n].inUsed /\ a # "gone" THEN 1 ELSE 0)

GvLiveUses(gs, g) ==
  gs[g].extra + Cardinality({h \in gs[g].users : gs[h].present})

GvUses(gs, a, g) == GvLiveUses(gs, g) + (IF gs[g].inUsed /\ a # "gone" THEN 1 ELSE 0)

\* Mutant: the ISEL rule (at most one use) applied to functions.
RemoveFunctionIfUnusedOneUse(fs, a, n) ==
  IF Uses(fs, a, n) <= 1 THEN [fs EXCEPT ![n].present = FALSE] ELSE fs

(* RemoveFunction(llvm::Function): delete the function if it has no use.  *)
RemoveFunctionIfUnused(fs, a, n) ==
  IF Uses(fs, a, n) = 0 THEN [fs EXCEPT ![n].present = FALSE] ELSE fs

(* RemoveFunction(const char name[]): make the function internal, then   *)
(* delete it if it has no use.                                            *)
RemoveFunctionNamed(fs, a, n) ==
  IF fs[n].present
    THEN RemoveFunctionIfUnused([fs EXCEPT ![n].linkage = "internal"], a, n)
    ELSE fs

(* The declaration of __remill_mark_as_used becomes an internal,          *)
(* always-inline definition with an empty body.                           *)
DefineMarkAsUsed(fs) ==
  IF fs[Used].present /\ fs[Used].decl
    THEN [fs EXCEPT ![Used].decl = FALSE, ![Used].linkage = "internal",
                    ![Used].inline = TRUE]
    ELSE fs

Init ==
  /\ fns \in InitFns
  /\ gvs \in InitGvs
  /\ arr = "live"
  /\ isels = {}
  /\ next_isels = {}
  /\ pc = 1
  /\ aborted = FALSE
  /\ bb0 = fns[BB].present

Advance == pc' = pc + 1

(* FindISELs: the globals whose initializer is a function with the memory *)
(* and state parameter types of __remill_basic_block; none when that      *)
(* function is missing.                                                   *)
FindISELs ==
  /\ Stage = "FindISELs"
  /\ isels' = IF fns[BB].present
                THEN {g \in Globals : gvs[g].present /\ gvs[g].sem}
                ELSE {}
  /\ Advance
  /\ UNCHANGED <<fns, gvs, arr, next_isels, aborted, bb0>>

(* RemoveIntrinsics: erase llvm.used, define __remill_mark_as_used, then  *)
(* RemoveFunction on each name, in the code's order.                      *)
RemoveIntrinsics ==
  /\ Stage = "RemoveIntrinsics"
  /\ LET a == IF arr = "live" THEN "dead" ELSE arr
     IN /\ arr' = a
        /\ fns' = FoldLeft(LAMBDA fs, n : RemoveFunctionNamed(fs, a, n),
                           DefineMarkAsUsed(fns),
                           <<Intr, BB, Used, Defer, Ret, Used>>)
  /\ Advance
  /\ UNCHANGED <<gvs, isels, next_isels, aborted, bb0>>

\* Mutant: only an ISEL with no use at all is erased.
RemoveISELsVisitStrict ==
  /\ Stage = "RemoveISELs"
  /\ \E g \in isels :
       /\ isels' = isels \ {g}
       /\ \/ /\ GvUses(gvs, arr, g) < 1
             /\ gvs' = [gvs EXCEPT ![g].present = FALSE]
             /\ UNCHANGED next_isels
          \/ /\ GvUses(gvs, arr, g) >= 1
             /\ next_isels' = next_isels \cup {g}
             /\ UNCHANGED gvs
  /\ UNCHANGED <<fns, arr, pc, aborted, bb0>>

(* RemoveISELs, one iteration of the for loop: an ISEL with at most one  *)
(* use is erased, any other is kept for the next pass of the while loop. *)
RemoveISELsVisit ==
  /\ Stage = "RemoveISELs"
  /\ \E g \in isels :
       /\ isels' = isels \ {g}
       /\ \/ /\ GvUses(gvs, arr, g) <= 1
             /\ gvs' = [gvs EXCEPT ![g].present = FALSE]
             /\ UNCHANGED next_isels
          \/ /\ GvUses(gvs, arr, g) > 1
             /\ next_isels' = next_isels \cup {g}
             /\ UNCHANGED gvs
  /\ UNCHANGED <<fns, arr, pc, aborted, bb0>>

(* RemoveISELs, end of a pass: isels.swap(next_isels); the while loop ends *)
(* when no ISEL is left.  A pass that erases nothing starts the same pass *)
(* again.                                                                 *)
RemoveISELsPass ==
  /\ Stage = "RemoveISELs"
  /\ isels = {}
  /\ isels' = next_isels
  /\ next_isels' = {}
  /\ IF next_isels = {} THEN Advance ELSE UNCHANGED pc
  /\ UNCHANGED <<fns, gvs, arr, aborted, bb0>>

(* The optimizer's dead-global elimination (GlobalDCE, StripDeadPrototypes *)
(* in the -O3 pipeline): repeatedly delete every declaration and every     *)
(* internal definition that nothing live uses.                             *)
RECURSIVE GlobalDCE(_)
GlobalDCE(fs) ==
  LET dead == {n \in FnNames : /\ fs[n].present
                               /\ fs[n].decl \/ fs[n].linkage = "internal"
                               /\ LiveUses(fs, n) = 0}
  IN IF dead = {} THEN fs
     ELSE GlobalDCE([n \in FnNames |->
                      IF n \in dead THEN [fs[n] EXCEPT !.present = FALSE]
                      ELSE fs[n]])

(* RunO3: -O3 with the inliner.  Dead constants (the llvm.used array) are *)
(* dropped, every call of an always-inline definition is inlined, calls  *)
(* of declarations in code found unreachable may disappear, and dead     *)
(* functions are deleted.                                                 *)
RunO3 ==
  /\ Stage = "RunO3"
  /\ arr' = "gone"
  /\ \E dropped \in SUBSET {n \in FnNames : fns[n].present /\ fns[n].decl
                                           /\ fns[n].calls > 0} :
       fns' = GlobalDCE([n \in FnNames |->
                IF (fns[n].inline /\ ~fns[n].decl) \/ n \in dropped
                  THEN [fns[n] EXCEPT !.calls = 0] ELSE fns[n]])
  /\ Advance
  /\ UNCHANGED <<gvs, isels, next_isels, aborted, bb0>>

\* Mutant: one call of each intrinsic lowered instead of all of them.
ReplaceCallsOnce(fs, ns) ==
  [n \in FnNames |-> IF n \in ns /\ fs[n].present
                      THEN [fs[n] EXCEPT !.calls = fs[n].calls - 1] ELSE fs[n]]

(* Every call of the intrinsics ns is replaced (by a load, a store, the   *)
(* memory pointer or undef) and erased.                                   *)
ReplaceCalls(fs, ns) ==
  [n \in FnNames |-> IF n \in ns /\ fs[n].present THEN [fs[n] EXCEPT !.calls = 0]
                    ELSE fs[n]]

RemoveUnused(fs, ns) ==
  [n \in FnNames |-> IF n \in ns /\ fs[n].present /\ Uses(fs, arr, n) = 0
                      THEN [fs[n] EXCEPT !.present = FALSE] ELSE fs[n]]

Implemented(ns) == \E n \in ns : fns[n].present /\ ~fns[n].decl

\* Mutant: the calls are lowered but RemoveFunction(func) is missing.
LowerMemOpsKeepDecl ==
  /\ Stage = "LowerMemOps" /\ ~aborted
  /\ \/ /\ Implemented(MemOps)
        /\ aborted' = TRUE
        /\ UNCHANGED <<fns, pc>>
     \/ /\ ~Implemented(MemOps)
        /\ fns' = ReplaceCalls(fns, MemOps)
        /\ Advance
        /\ UNCHANGED aborted
  /\ UNCHANGED <<gvs, arr, isels, next_isels, bb0>>

(* LowerMemOps: ReplaceMemReadOp / ReplaceMemWriteOp on each name; CHECK  *)
(* that the intrinsic is only declared, lower its calls, RemoveFunction.  *)
LowerMemOps ==
  /\ Stage = "LowerMemOps" /\ ~aborted
  /\ \/ /\ Implemented(MemOps)
        /\ aborted' = TRUE
        /\ UNCHANGED <<fns, pc>>
     \/ /\ ~Implemented(MemOps)
        /\ fns' = RemoveUnused(ReplaceCalls(fns, MemOps), MemOps)
        /\ Advance
        /\ UNCHANGED aborted
  /\ UNCHANGED <<gvs, arr, isels, next_isels, bb0>>

(* ReplaceBarrier on each barrier: CHECK that it is only declared, then   *)
(* replace every call by its memory argument.  The declaration stays.     *)
ReplaceBarrier ==
  /\ Stage = "ReplaceBarrier" /\ ~aborted
  /\ \/ /\ Implemented(Barriers)
        /\ aborted' = TRUE
        /\ UNCHANGED <<fns, pc>>
     \/ /\ ~Implemented(Barriers)
        /\ fns' = ReplaceCalls(fns, Barriers)
        /\ Advance
        /\ UNCHANGED aborted
  /\ UNCHANGED <<gvs, arr, isels, next_isels, bb0>>

(* RemoveUndefFuncCalls: ReplaceUndefIntrinsic (its worklist is modelled *)
(* step by step in UndefPropagation), then RemoveFunction, on each        *)
(* intrinsic present.                                                     *)
RemoveUndefFuncCalls ==
  /\ Stage = "RemoveUndefFuncCalls"
  /\ fns' = RemoveUnused(ReplaceCalls(fns, Undefs), Undefs)
  /\ Advance
  /\ UNCHANGED <<gvs, arr, isels, next_isels, aborted, bb0>>

Terminated ==
  /\ pc = Done \/ aborted
  /\ UNCHANGED vars

Next ==
  \/ FindISELs
  \/ RemoveIntrinsics
  \/ RemoveISELsVisit
  \/ RemoveISELsPass
  \/ RunO3
  \/ LowerMemOps
  \/ ReplaceBarrier
  \/ RemoveUndefFuncCalls
  \/ Terminated

Spec == Init /\ [][Next]_vars /\ WF_vars(Next)

---------------------------------------------------------------------------
(* No function or global variable is deleted while something live still  *)
(* uses it: RemoveFunction checks for uses, RemoveISELs allows one (the   *)
(* llvm.used array), GlobalDCE only deletes what nothing uses.            *)
NoDanglingUse ==
  /\ \A n \in FnNames : ~fns[n].present => LiveUses(fns, n) = 0
  /\ \A g \in Globals : ~gvs[g].present => GvLiveUses(gvs, g) = 0

(* FindISELs runs before RemoveIntrinsics deletes __remill_basic_block:   *)
(* when that function was in the module, no ISEL variable survives.       *)
ISELsErased ==
  pc = Done /\ bb0 => \A g \in Globals : gvs[g].sem => ~gvs[g].present

(* After the pass, no call of a memory, barrier or undefined-value        *)
(* intrinsic is left, and every remill intrinsic other than the barriers  *)
(* is gone unless something live still uses it.                           *)
ScaffoldingRemoved ==
  pc = Done =>
    /\ \A n \in MemOps \cup Barriers \cup Undefs : fns[n].present => fns[n].calls = 0
    /\ \A n \in FnNames \ Barriers : fns[n].present => LiveUses(fns, n) > 0

(* OptimizeModule returns (or a CHECK stops the process).                 *)
Termination == <>(pc = Done \/ aborted)

(* LLVM's verifier: a function declaration has external linkage.          *)
DeclarationLinkage ==
  \A n \in FnNames : fns[n].present /\ fns[n].decl => fns[n].linkage = "external"

=============================================================================
