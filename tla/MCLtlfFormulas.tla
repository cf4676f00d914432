---------------------------- MODULE MCLtlfFormulas ----------------------------
(***************************************************************************)
(* LTLf formulas of bounded depth, built by the makers of ast/ltlf.cpp.     *)
(***************************************************************************)
EXTENDS Ltlf

A == makeLtlfAtom("a")
B == makeLtlfAtom("b")

Unaries(F) == {makeLtlfNext(f) : f \in F} \cup {makeLtlfWeakNext(f) : f \in F}
              \cup {makeLtlfEventually(f) : f \in F} \cup {makeLtlfAlways(f) : f \in F}
              \cup {makeLtlfNot(f) : f \in F}
Fixpoints(F, G) == {makeLtlfUntil(f, g) : f \in F, g \in G}
                   \cup {makeLtlfRelease(f, g) : f \in F, g \in G}
Binaries(F, G) == Fixpoints(F, G)
                  \cup {makeLtlfAnd({f, g}) : f \in F, g \in G}
                  \cup {makeLtlfOr({f, g}) : f \in F, g \in G}

Shallow == {makeLtlfTrue, makeLtlfFalse, A, B, makeLtlfNot(A)}
Middle == Unaries({A}) \cup Binaries({A}, {B})
Deep == Unaries(Unaries({A})) \cup Unaries(Unaries(Fixpoints({A}, {B})))
        \cup Binaries(Middle, {makeLtlfNot(B)}) \cup Binaries({makeLtlfNot(B)}, Middle)
        \cup Unaries(Fixpoints(Unaries({A}), {B}))
=============================================================================
