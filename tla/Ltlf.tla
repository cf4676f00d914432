-------------------------------- MODULE Ltlf ---------------------------------
(***************************************************************************)
(* Formulas of LTLf: their negation normal form (nnf.cpp,                   *)
(* logic/ltlf/duality.cpp) and their translation to LDLf                    *)
(* (logic/to_ldlf.cpp).                                                     *)
(***************************************************************************)
EXTENDS Ldlf

(* NNFTransformer and NegationTransformer call each other.  An atom is only *)
(* false of a letter, so that its negation also holds at the end.           *)
RECURSIVE ltlf_to_nnf(_), apply_negation(_)
ltlf_to_nnf(f) ==
  CASE Kind(f) \in {"true", "false", "atom"} -> f
    [] Kind(f) = "and" -> makeLtlfAnd({ltlf_to_nnf(a) : a \in Arg(f)})
    [] Kind(f) = "or" -> makeLtlfOr({ltlf_to_nnf(a) : a \in Arg(f)})
    [] Kind(f) = "not" ->
         IF Kind(Arg(f)) = "atom" THEN f ELSE apply_negation(Arg(f))
    [] Kind(f) \in {"X", "WX", "E", "G"} -> <<Kind(f), ltlf_to_nnf(Arg(f))>>
    [] Kind(f) \in {"U", "R"} ->
         <<Kind(f), ltlf_to_nnf(Arg(f)), ltlf_to_nnf(SecondArg(f))>>

apply_negation(f) ==
  CASE Kind(f) = "true" -> makeLtlfFalse
    [] Kind(f) = "false" -> makeLtlfTrue
    [] Kind(f) = "atom" -> makeLtlfOr({makeLtlfNot(f), makeLtlfEnd})
    [] Kind(f) = "not" ->
         IF Kind(Arg(f)) = "atom" THEN Arg(f) ELSE ltlf_to_nnf(Arg(f))
    [] Kind(f) = "and" -> makeLtlfOr({apply_negation(a) : a \in Arg(f)})
    [] Kind(f) = "or" -> makeLtlfAnd({apply_negation(a) : a \in Arg(f)})
    [] Kind(f) = "X" -> makeLtlfWeakNext(apply_negation(Arg(f)))
    [] Kind(f) = "WX" -> makeLtlfNext(apply_negation(Arg(f)))
    [] Kind(f) = "U" ->
         makeLtlfRelease(apply_negation(Arg(f)), apply_negation(SecondArg(f)))
    [] Kind(f) = "R" ->
         makeLtlfUntil(apply_negation(Arg(f)), apply_negation(SecondArg(f)))
    [] Kind(f) = "E" -> makeLtlfAlways(apply_negation(Arg(f)))
    [] Kind(f) = "G" -> makeLtlfEventually(apply_negation(Arg(f)))

-----------------------------------------------------------------------------
(* LTLfToLDLfTransformer.                                                   *)
TrueRegex == makePropRegex(makeTrue)

(* Mutants: the end of the word is not told from a letter.                  *)
AndNotEndDropped(f) == f
OrEndDropped(f) == f

AndNotEnd(f) == makeLdlfAnd({f, makeLdlfNotEnd})
OrEnd(f) == makeLdlfOr({f, makeLdlfEnd})
While(f) == makeStarRegex(makeSeqRegex(<<makeTestRegex(f), TrueRegex>>))

RECURSIVE to_ldlf(_)
to_ldlf(f) ==
  CASE Kind(f) \in {"true", "false"} -> f
    [] Kind(f) = "atom" -> makeLdlfDiamond(makePropRegex(f), makeLdlfTrue)
    [] Kind(f) = "and" -> makeLdlfAnd({to_ldlf(a) : a \in Arg(f)})
    [] Kind(f) = "or" -> makeLdlfOr({to_ldlf(a) : a \in Arg(f)})
    [] Kind(f) = "not" -> makeLdlfNot(to_ldlf(Arg(f)))
    [] Kind(f) = "X" -> makeLdlfDiamond(TrueRegex, AndNotEnd(to_ldlf(Arg(f))))
    [] Kind(f) = "WX" -> makeLdlfBox(TrueRegex, OrEnd(to_ldlf(Arg(f))))
    [] Kind(f) = "U" ->
         makeLdlfDiamond(While(to_ldlf(Arg(f))), AndNotEnd(to_ldlf(SecondArg(f))))
    [] Kind(f) = "R" ->
         makeLdlfBox(While(makeLdlfNot(to_ldlf(Arg(f)))), OrEnd(to_ldlf(SecondArg(f))))
    [] Kind(f) = "E" ->
         makeLdlfDiamond(makeStarRegex(TrueRegex), AndNotEnd(to_ldlf(Arg(f))))
    [] Kind(f) = "G" ->
         makeLdlfBox(makeStarRegex(TrueRegex), OrEnd(to_ldlf(Arg(f))))
=============================================================================
