# TLA+ models of mcsema's instruction lifter and module optimizer

This directory has TLA+ models of the two C++ sources of this repository,
and the TLC configurations that check them:

- `src/mcsema/BC/Instruction.cpp`, lines 1-249, is `mcsema::InstructionLifter`.
  Lines 250-567 are the CFG protobuf schema.
- `src/unnamed/part_000` is `mcsema::OptimizeModule` and its helpers.
  `OptimizeModule` models its stages over use counts, and `MemOpLowering`
  models the memory and barrier lowering value by value.

Every definition that models code is listed in `PROJECT.json` under "map",
with the source lines it translates.

## The system

**The lifter.** mcsema lifts a binary, described by a CFG (the protobuf
schema), into LLVM IR. remill's generic lifter emits the semantics of each
instruction. mcsema's `InstructionLifter` subclasses it and intercepts two
callbacks, so that it can substitute the disassembler's cross-references
for raw operand values.

1. `LiftIntoBlock` (lines 55-104):
   - fetches the instruction's `mem`, `imm` and `disp` references through
     `GetAddress` (the cross-reference resolver, lines 129-140);
   - clears the three `*_used` flags;
   - calls remill, which calls back once per operand, in operand order:
     - `LiftImmediateOperand` (142-176);
     - `LiftAddressOperand` (179-247).
2. When remill returns `kLiftedInstruction`, it logs every reference that
   no operand took.
3. One lifter object lifts all the instructions of a block, so the
   reference fields and used flags carry over from one instruction to the
   next.

**The optimizer.** After lifting, `OptimizeModule` (lines 369-385) runs a
fixed, sequential pipeline over the whole module:

1. `FindISELs`
2. `RemoveIntrinsics`
3. `RemoveISELs`
4. `RunO3`
5. `RemoveIntrinsics` again
6. `LowerMemOps`
7. six `ReplaceBarrier` calls
8. `RemoveUndefFuncCalls`

Each stage rewrites the module's functions and globals and relies on the
use counts the previous stages left behind. `RemoveUndefFuncCalls` runs
`ReplaceUndefIntrinsic`, a worklist propagation of `undef` through compares
and casts down to stores.

Both parts are single-threaded. The hard behaviours are:

- the order of the callbacks and the state carried between them;
- the order of the pipeline stages;
- use counts that include dead references;
- fixed-point loops that must terminate;
- a worklist whose rounds interact.

## Modules

| Module | Models | State | Actions |
|---|---|---|---|
| `CFGSchema` | the CFG messages the lifter reads: `CodeReference`, `Instruction`, `Segment`, `Module` (Instruction.cpp 299-567), and the loader's view of them (`XrefsOfType`, `TryGetSegment`) | none (sets of messages) | |
| `LifterValues` | `GetAddress`, the loader's `NativeInstruction` (one xref per operand type as `mem`/`imm`/`disp`), remill's generic operand values, and the disassembler's contract (`Contract`, `WellFormed`) | none | |
| `LiftedOperands` | the abstract specification of lifting a block (spec §4.2): each operand gets the value its own instruction's references designate, and the diagnostics are a function of the instruction alone | `block`, `idx`, `phase`, `status`, `values`, `reported` | `Begin`, `LiftOperand`, `Abort`, `Finish`, `NextInst` |
| `InstructionLifter` | `LiftIntoBlock`, `LiftImmediateOperand`, `LiftAddressOperand`, over a block | `mem_ref`, `imm_ref`, `disp_ref`, the `*_used` flags, remill's status, the operand index, the lifted values, the diagnostics | `LiftIntoBlockEnter`, `LiftImmediateOperand`, `LiftAddressOperand` (with helpers `LiftAbsoluteAddress` and `LiftIndexedAddress`), `LiftIntoBlockReturn`, `NextInstruction` |
| `MCInstructionLifter` | inputs: CFG entries with at most one reference of each operand type (plus a control-flow one the lifter ignores), loaded by `NativeInstruction` and paired with 0-2 of 11 operands; a module with segments at 0x1000 and 0x4010 | | |
| `UndefPropagation` | `ReplaceUndefIntrinsic` and the `RemoveFunction` after it | an IR `ops` (id → operands), `live`, `work_list`, `next_work_list`, `dead_stores` | `ReplaceCalls`, `Visit` (one iteration of the inner for loop), `NextRound` (the swap), `EraseDeadStores` |
| `MCUndefPropagation` | inputs: every 4-instruction IR whose first instruction is the intrinsic's call (9037 IRs) | | |
| `OptimizeModule` | the `OptimizeModule` pipeline | `fns` (per intrinsic: present, declaration, linkage, inline, calls, other uses, in llvm.used), `gvs` (per global: present, is an ISEL, users, other uses, in llvm.used), `arr` (llvm.used), `isels`/`next_isels`, `pc` | one action per stage; `RemoveISELsVisit` and `RemoveISELsPass` are the inner and outer loops of `RemoveISELs` |
| `MCOptimizeModule` | inputs: one intrinsic of each lowered family, `isel_a`, `isel_b`, `data` | | |
| `MemOpLowering` | `LowerMemOps` (`ReplaceMemReadOp`, `ReplaceMemWriteOp`, lines 276-365) and the six `ReplaceBarrier` calls (258-273, 378-383), instruction by instruction | `prog` (history: the body before lowering), `insts` (id → opcode, callee, type, operands), `live`, `pc` (entry of the code's table), `phase`, `callers`, `todo` | `Enter` (getFunction, CallersOf), `LowerCall` (one iteration of the first loop: `ReadInstrs` or `WriteInstrs`, then replaceAllUsesWith), `EraseCallers` (the second loop), `ReplaceBarrierCall`, `ReplaceBarrierEnd` |
| `MCMemOpLowering` | inputs: every body of three calls of `read_64`, `read_f80`, `write_64`, `write_f80`, `barrier_load_load` and `undefined_64` over earlier values of the right type, then one use of a value (3477 bodies) | | |
| `LoweringPipeline` | the tail of `OptimizeModule` (lines 377-384): `MemOpLowering` to its end, then `RemoveUndefFuncCalls` (120-135) on the body it left, through `U == INSTANCE UndefPropagation WITH ...` | the variables of `MemOpLowering`, and `uir`, `uops`, `ulive`, `uwork`, `unext`, `udead`, `udeclared`, `upc` for the instance | the lowering's `Next`, `RemoveUndefFuncCalls` (the hand-over), `U!Next` |
| `MCLoweringPipeline` | the bodies of `MCMemOpLowering`; `MaxBody = 10` ids for the second stage | | |

### Abstractions

**Values.** A value is a number with a bit width.

- `LiftXrefInCode(ea)` is taken to be the identity relocation. This lets a
  lifted operand be compared with the value remill's generic path computes
  from the raw encoding (`RawValue`).
- remill's generic operand lifting is modelled from the spec. It gives
  register value + displacement, modulo the address width, and the
  immediate at its own width. These definitions are marked `spec_modelled`.
- TLC's integers are 32-bit, so the model's address width is 16 bits, and a
  24-bit immediate stands for "wider than a pointer".

**Use counts.** They are kept as numbers, split into the sources the code
can tell apart:

- calls;
- other live uses;
- the reference from `__remill_intrinsics`' body;
- the llvm.used array.

Erasing `llvm.used` leaves its initializer array behind as a dead constant,
and that array still counts in `getNumUses()`. This is why
`RemoveISELs` erases an ISEL with one use, and the model keeps that use
until `RunO3` drops dead constants (`arr = "dead"`, then `"gone"`).

**RunO3.** LLVM's O3 is outside the repository, so only its effect on this
state is kept:

- the dead array is dropped;
- the calls of the always-inline `__remill_mark_as_used` definition are
  inlined;
- calls of declarations may vanish (code found unreachable);
- `GlobalDCE` deletes, to a fixed point, every declaration or internal
  definition with no live use.

**Lowering.** In `OptimizeModule`, lowering a memory or barrier call
removes that call. `MemOpLowering` follows the values instead:

- a function body is straight-line SSA. Instruction `i` has id `i`; the
  `j`-th instruction `IRBuilder` inserts before call `c` has id `10c + j`
  and sits just before `c`;
- types are LLVM's: `i8` … `i64`, `f32`, `f64`, `f80`, pointers `t*`, and
  `mem` for remill's `Memory *`. The signatures of remill's intrinsics are
  modelled from remill's `Intrinsics.h` (not in this repository): an
  address is `addr_t` (`i64`), and an 80-bit float crosses the call as a
  `double`;
- `replaceAllUsesWith` rewrites the operands of every live instruction,
  the ones just inserted included;
- the callers are visited in any order, since a use list has no order the
  code can rely on;
- what a value means is `Den`: the bits of a type read at an address,
  converted to another type, or an argument. `inttoptr` keeps the bits;
  `fptrunc` and `fpext` convert; every `Memory *` value is one token, since
  the lowering gives up the chain of memory states.

**Composition.** `LoweringPipeline` composes the two components the way
the code chains them: the lowering's steps leave the propagation's
variables unchanged, and the propagation's steps leave the lowering's
unchanged. At the hand-over the body is given to `UndefPropagation` in that
module's form:

- the live instructions are numbered in program order;
- an opcode is what `ReplaceUndefIntrinsic`'s tests see. A call of
  `__remill_undefined_64` is a `call`. `inttoptr`, `fptrunc` and `fpext`
  are casts, and a `store` is a store. A load or a use is `other`;
- the arguments are `Arg`.

Ids past the body are instructions without operands, which no propagation
reaches. The bodies call one undefined-value intrinsic (`undefined_64`),
so `RemoveUndefFuncCalls` runs one `ReplaceUndefIntrinsic`.

**Aborts.** A failed `CHECK` sets `aborted` (`pc = "aborted"` in the
lifter), and the process stops.

### Refinement

`InstructionLifter` ends with `Abstract == INSTANCE LiftedOperands WITH ...`:

- `phase` is `"idle"` at `pc = "enter"`, `"lifting"` while remill runs
  (`"operands"`, `"return"`), otherwise `pc`;
- `values` is `lifted` without the `from` tags;
- `reported` is `diags`; `block`, `idx` and `status` are shared.

The used flags, the reference fields and the operand index are hidden.
`LiftIntoBlockEnter` is `Begin`, each callback is `LiftOperand` (or
`Abort` for the CHECK), `LiftIntoBlockReturn` is `Finish`.
`ImplementsLiftedOperands == Abstract!Spec` is checked as a PROPERTY.

The abstract spec follows spec §4.2 literally where the code agrees with it:
the misclassification test compares the raw displacement with the memory
reference's *target address*, and adds the *masked* reference value. It
does not require "unused" for the absolute branches, because the code does
not check it (see `lifter_ref_once`).

## Runs

| Run | Expect | Checks | Shows |
|---|---|---|---|
| `lifter_instruction` | pass (11551 states) | `TypeOK`, `EffectiveValuePreserved`, `UnusedRefReported` | For one instruction with up to two operands, under every remill status: every substituted reference keeps the operand's value and width (truncation, displacement zeroing, masking), and exactly the references no operand took are reported. |
| `lifter_block` | pass (442092 states) | `EffectiveValuePreserved`, `UnusedRefReported` | Two instructions lifted by one lifter object. No reference or used flag leaks from the first to the second, including when the second has no CFG entry or remill does not lift it. |
| `lifter_refinement` | pass (770346 states) | `ImplementsLiftedOperands` | Over blocks of two instructions whose memory references may carry a mask (0xf000), the lifter implements `LiftedOperands`. The misclassification test at Instruction.cpp:229 and the inclusive `4096 <=` threshold of the missed-xref test at line 166 are reached: an immediate at exactly 4096 lies in the segment at 0x1000. |
| `lifter_ref_once` | violation | `RefSubstitutedOnce` | Spec §4.2 says a reference is used only if "present and unused". The absolute and PC-relative branches never check `mem_ref_used`, so two PC-relative operands (a read-modify-write) both get `mem_ref`. |
| `undef_propagation` | pass (70855 states) | `TypeOK`, `PropagationComplete`, `PropagationTerminates` | In every visiting order of the `std::set`, the worklist computes the recursive reference closure `UndefClosure`: no live instruction uses an undef-derived value, and exactly the stores that used one are erased. Under weak fairness the rounds end. |
| `undef_double_erase` | violation | `LoweredStoreErasedOnce` | In the composed pipeline, `u = __remill_undefined_64(); __remill_write_memory_64(mem, u, u)` is lowered to `store u, inttoptr(u)`. The propagation reaches that store in round 1, through `u`, and in round 2, through the cast. It is queued twice and erased twice, a use after free. |
| `undef_defined_store` | violation | `DefinedStoreKept` | A store of a defined value through an undef-derived pointer is erased. Spec §8 says a store that depends on a defined value is kept. |
| `optimize_module` | pass (239744 states) | `NoDanglingUse`, `ISELsErased`, `ScaffoldingRemoved` | Across combinations of absent, declared, defined and called intrinsics (a memory intrinsic with up to two callers) and chained ISELs: nothing is deleted while something live uses it; the ISELs are gone whenever `__remill_basic_block` existed; no call of a lowered intrinsic is left, and every unused intrinsic other than the barriers is gone. |
| `optimize_termination` | pass (12572 states) | `Termination` | Under weak fairness, the pipeline finishes or aborts when ISELs are used only by llvm.used and other ISELs (chains that need several passes). |
| `optimize_isel_loop` | violation | `Termination` | An ISEL with one use outside the ISELs makes `RemoveISELs` loop forever. The spec says "until no more can be removed". |
| `lowering_pipeline` | pass (104147 states) | `WellTyped`, `LoweringPreservesMeaning`, `UndefWritesErased` | In every use-list order, every operand stays a live value of the type its user expects (calls, `inttoptr`, `load`, `store`, `fptrunc`, `fpext`). This holds even when a caller's address or value is another caller not yet lowered, because the later `replaceAllUsesWith` reaches the inserted `inttoptr`/`store`. At the end no intrinsic call is left, and the loads and stores are the accesses the calls made, in the same order, each with its f80 truncation or extension. Every other instruction reads the value it read before. After `RemoveUndefFuncCalls`, a store is left for exactly the writes whose address and value are both defined. A write of the undefined value, or a write to it as an address (reached through the `inttoptr` cast), is erased. This depends on the lowering running first, because a write call is not a `StoreInst`. Bodies that reach the double erase (see `undef_double_erase`) end in `"crashed"`, which this run allows. |
| `optimize_linkage` | violation | `DeclarationLinkage` | `RemoveFunction(name)` makes a still-called declaration (`__remill_function_return`) internal, which the LLVM verifier rejects. |

Every property of a passing run has a mutant in `PROJECT.json`: a plausible
bug in the mapped code that TLC catches with that property. The mutants are:

- the displacement is not zeroed;
- the misclassification test compares the masked reference instead of
  `target_ea`;
- the missed-xref threshold is exclusive (`4096 <`);
- `next_work_list` outlives the round (declared outside the while loop);
- `mem_ref_used` is not set;
- the used flags are not reset;
- a truncation retypes the value without masking it;
- the `dyn_cast<StoreInst>` check is dropped;
- compares are not visited;
- one call of an intrinsic is lowered instead of all of them (caught by
  `ScaffoldingRemoved` on a memory intrinsic with two callers);
- `RemoveFunction` uses the ISEL rule;
- `RemoveIntrinsics` runs before `FindISELs`;
- `RemoveFunction` is missing from the memory-op lowering;
- the ISEL rule is tightened from `1 >=` to `0 >=`;
- the f80 read is loaded without its `fptrunc`;
- the second loop of `ReplaceMemReadOp`/`ReplaceMemWriteOp` (the erase)
  is missing;
- `ReplaceUndefIntrinsic` collects a call's users after
  `replaceAllUsesWith` instead of before.

## Bounds, and why they are enough

**Lifter.**

- Operands:
  - immediates at the address width, inside and outside a segment;
  - an immediate at 8 bits (truncated);
  - an immediate at 24 bits (the CHECK fires);
  - every address form, including a base operand whose displacement equals
    the memory reference (misclassified).
- References:
  - present or absent;
  - an immediate reference with a mask;
  - in `lifter_refinement`, a memory reference with mask 0xf000, whose
    masked value 0x4000 differs from its target 0x4010;
  - a value below, at and above 4096.
- Segments: 16 bytes at 0x1000 and at 0x4010, so 4096 and 0x4010 are in a
  segment and 0x4000 is not.

Together these reach every branch of both callbacks. Two operands are
enough for two operands to compete for one reference. Two instructions are
enough for state to carry over between them.

**Undef propagation.** Four instructions give the chains that matter:

- call → cast → store, which needs two rounds;
- a store that gets undef through both operands in different rounds;
- compares with two operands;
- stores of a defined value to an undef pointer.

**Optimizer.**

- One name per lowered family is enough, because the names of one family
  are handled identically and independently.
- A memory intrinsic has up to two callers, so a lowering that stops after
  the first one leaves a call behind.
- Two ISELs, where one may use the other, give a removal that needs a
  second pass.
- A third global is not an ISEL.

**Memory lowering.** Three calls and one use:

- they give a read whose address is another read of the same intrinsic
  (pointer chasing, the stale operand the first loop meets);
- a read value stored by a write;
- writes and barriers chained through the memory pointer;
- f80 reads and writes mixed with 64-bit ones;
- `undefined_64` results used as an address, a value, or both.

The longest lowered body has ten instructions (three f80 accesses of three
instructions each, and the use), hence `MaxBody = 10`.

The other widths take the same path as `64` with another `val_type`. The
whole table (14 entries plus 6 barriers) is walked, and the absent
intrinsics are skipped.

## Fairness

`OptimizeModule` and `ReplaceUndefIntrinsic` are plain sequential code on
one thread. Whenever a step is enabled, the program takes one, so
`WF_vars(Next)` is what the code guarantees. `Termination` and
`PropagationTerminates` rely on it. The lifter model checks safety only,
and its refinement property is a safety property (`[][Next]_avars`).

## Not modelled

- **Most of the CFG protobuf schema.** `Function`, `Block`, the external
  symbols, `DataReference`, `ExceptionFrame`, `FunctionDecl` and the other
  messages are read by no modelled code. The messages are data without
  operations; `CFGSchema` has the ones the lifter reads.
- **The CFG loader** (not under `src/`). Its view of the messages
  (`NativeInstruction`, `TryGetSegment`) is modelled from the spec.
- **`CHECK(func->isDeclaration())` in the lowering.** Lifted code only
  declares remill's intrinsics. The abort of a defined intrinsic is
  modelled in `OptimizeModule`.
- **The count in spec §4.3, step 6.** It speaks of "eight memory-read intrinsics" and of
  16 in all, but lists seven widths. The code lowers seven reads and seven
  writes, and the model has the code's table.
- **LLVM's O3 beyond its effect on use counts.**
- **The caller's block and function loop.** It is reduced to lifting the
  instructions of one block in order.
- **Logging text.** Diagnostics are kinds, not messages.

## Plan for later work

1. Composing `OptimizeModule` with `UndefPropagation` was considered.
   `OptimizeModule` reads only the call count and presence of an undef
   intrinsic, so a refinement of its `RemoveUndefFuncCalls` step by the
   worklist would only restate that the calls drop to zero. The
   composition that models stores is `LoweringPipeline`. Running both
   undefined intrinsics that the bodies could use (`undefined_64`, then
   `undefined_f64` for f80 writes) needs a second hand-over, which
   relabels the calls.
2. The spec's claim that a stage is idempotent when re-run was tried for
   `RemoveIntrinsics`. In the model it holds whatever the order of the
   names: `__remill_intrinsics` sits in `llvm.used`, whose dead array still
   counts as a use in the first pass, and `RunO3` deletes it before the
   second pass. No plausible change to the code breaks it, so it is not
   checked. It becomes worth checking with inputs where
   `__remill_intrinsics` is not in `llvm.used`.
3. Blocks of three instructions, and IRs of five instructions, are out of
   reach of a 5-minute run at the current operand sets.
