--------------------------- MODULE MCOptimizeModule ---------------------------
(* Model of OptimizeModule for TLC: one intrinsic of each lowered family   *)
(* and three global variables, two of them ISELs.                          *)
EXTENDS OptimizeModule

MCMemOps   == {"__remill_read_memory_8"}
MCBarriers == {"__remill_barrier_load_load"}
MCUndefs   == {"__remill_undefined_8"}
MCGlobals  == {"isel_a", "isel_b", "data"}

Fn(p, d, c, e, u) == [present |-> p, decl |-> d, linkage |-> "external",
                      inline |-> FALSE, calls |-> c, extra |-> e, inUsed |-> u]
Absent == Fn(FALSE, TRUE, 0, 0, FALSE)

\* __remill_intrinsics: a definition kept alive by llvm.used.
IntrChoices  == {Absent, Fn(TRUE, FALSE, 0, 0, TRUE)}
\* __remill_basic_block: a definition, in llvm.used or not.
BBChoices    == {Absent} \cup {Fn(TRUE, FALSE, 0, 0, u) : u \in BOOLEAN}
\* __remill_mark_as_used: used only by __remill_intrinsics' body.
UsedChoices  == {Absent} \cup {Fn(TRUE, d, 0, 0, FALSE) : d \in BOOLEAN}
\* __remill_defer_inlining: a declaration, called by lifted code or not.
DeclChoices  == {Absent} \cup {Fn(TRUE, TRUE, c, 0, FALSE) : c \in 0..1}
\* __remill_function_return: a declaration called by lifted code.
RetChoices   == {Absent, Fn(TRUE, TRUE, 1, 0, FALSE)}
\* A memory intrinsic: implemented, or declared with up to two callers
\* (so that lowering some but not all of them is visible) and other uses.
MemChoices   == {Absent, Fn(TRUE, FALSE, 1, 0, FALSE)} \cup
                {Fn(TRUE, TRUE, c, e, FALSE) : c \in 0..2, e \in 0..1}
BarrChoices  == {Absent, Fn(TRUE, FALSE, 1, 0, FALSE)} \cup
                {Fn(TRUE, TRUE, c, 0, FALSE) : c \in 0..1}
UndefChoices == {Absent} \cup {Fn(TRUE, TRUE, c, e, FALSE) : c \in 0..1, e \in 0..1}

\* __remill_intrinsics refers to every intrinsic, so they exist with it.
MCInitFns ==
  {f \in {[n \in FnNames |-> CASE n = Intr  -> i
                        [] n = BB    -> b
                        [] n = Used  -> u
                        [] n = Defer -> d
                        [] n = Ret   -> r
                        [] n \in MCMemOps   -> m
                        [] n \in MCBarriers -> br
                        [] n \in MCUndefs   -> un] :
     i \in IntrChoices, b \in BBChoices, u \in UsedChoices, d \in DeclChoices,
     r \in RetChoices, m \in MemChoices, br \in BarrChoices, un \in UndefChoices} :
     f[Intr].present => \A n \in IntrRefs : f[n].present}

\* The same, with each lowered intrinsic absent or a declaration called once.
MCTermFns ==
  {f \in MCInitFns : \A n \in MCMemOps \cup MCBarriers \cup MCUndefs \cup {Defer} :
                      f[n] \in {Absent, Fn(TRUE, TRUE, 1, 0, FALSE)}}

Gv(p, s, us, e, u) == [present |-> p, sem |-> s, users |-> us, extra |-> e, inUsed |-> u]

\* isel_a may be used by isel_b (one ISEL taking the address of another);
\* ISELs are listed in llvm.used; "data" is an ordinary global.
GvsWith(extras) ==
  {[isel_a |-> Gv(TRUE, TRUE, us, e, TRUE),
    isel_b |-> Gv(pb, TRUE, {}, 0, TRUE),
    data   |-> Gv(TRUE, FALSE, {}, 0, FALSE)] :
     us \in {{}, {"isel_b"}}, e \in extras, pb \in BOOLEAN}

MCInitGvs == GvsWith({0})

\* isel_a may also have a use outside the ISELs (code taking its address).
MCInitGvsExtra == GvsWith(0..1)
=============================================================================
