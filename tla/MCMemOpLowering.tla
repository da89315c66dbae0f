--------------------------- MODULE MCMemOpLowering ---------------------------
(***************************************************************************)
(* Bodies for MemOpLowering: three calls of 64-bit and 80-bit reads and    *)
(* writes, a barrier and __remill_undefined_64, each operand any earlier   *)
(* value of its type, then one use of any value.  Memory pointers chain   *)
(* through writes and barriers, and addresses can be read values (pointer *)
(* chasing), so that a caller's operand can be another caller of the same *)
(* intrinsic that is not lowered yet.                                     *)
(***************************************************************************)
EXTENDS MemOpLowering

\* The function's arguments: the memory pointer, an address, a double.
MCArgTy == (-1 :> "mem") @@ (-2 :> "i64") @@ (-3 :> "f64")

MCFns == {"__remill_read_memory_64", "__remill_read_memory_f80",
          "__remill_write_memory_64", "__remill_write_memory_f80",
          "__remill_barrier_load_load", "__remill_undefined_64"}

ValuesOf(p, t) ==
  {v \in DOMAIN MCArgTy : MCArgTy[v] = t} \cup {i \in DOMAIN p : p[i].ty = t}

CallsAfter(p) ==
  UNION {{[op |-> "call", fn |-> f, ty |-> Sig(f).ret, args |-> a] :
            a \in {a \in [1..Len(Sig(f).params) -> ValuesOf(p, "mem") \cup
                         ValuesOf(p, "i64") \cup ValuesOf(p, "f64")] :
                     \A j \in DOMAIN a : a[j] \in ValuesOf(p, Sig(f).params[j])}} :
           f \in MCFns}

RECURSIVE CallSeqs(_)
CallSeqs(n) ==
  IF n = 0 THEN {<<>>}
  ELSE UNION {{Append(p, x) : x \in CallsAfter(p)} : p \in CallSeqs(n - 1)}

MCPrograms ==
  UNION {{Append(p, [op |-> "use", fn |-> "", ty |-> "void", args |-> <<v>>]) :
            v \in DOMAIN p} : p \in CallSeqs(3)}
=============================================================================
