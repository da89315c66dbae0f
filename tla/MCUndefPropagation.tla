------------------------ MODULE MCUndefPropagation ------------------------
(* Functions of four instructions for TLC: instruction 1 calls the      *)
(* intrinsic; every later one is any instruction whose operands are Arg  *)
(* or earlier non-store instructions (SSA, no phi cycles needed).        *)
EXTENDS UndefPropagation

MCIds == 1..4

Operand(k) == {Arg} \cup 1..(k - 1)

Choices(k) ==
  {[op |-> "call", args |-> <<>>]}
  \cup {[op |-> o, args |-> <<a>>] : o \in {"cast", "other"}, a \in Operand(k)}
  \cup {[op |-> o, args |-> <<a, b>>] : o \in {"cmp", "store"},
                                      a \in Operand(k), b \in Operand(k)}

UsesNoStore(f) ==
  \A u \in MCIds : \A k \in DOMAIN f[u].args :
    f[u].args[k] \in MCIds => f[f[u].args[k]].op # "store"

MCFunctions ==
  { f \in {<<i1, i2, i3, i4>> : i1 \in {[op |-> "call", args |-> <<>>]},
                               i2 \in Choices(2), i3 \in Choices(3),
                               i4 \in Choices(4)} : UsesNoStore(f) }
=============================================================================
