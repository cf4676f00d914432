----------------------------- MODULE Composition -----------------------------
(***************************************************************************)
(* From a formula to the automaton that the compositional strategy builds   *)
(* for it, and that automaton on a word.  The client is the command line    *)
(* (app/lydia/src/main.cpp) after the driver of a logic has parsed, or a    *)
(* program that calls Translator::to_dfa with a formula of LDLf.            *)
(***************************************************************************)
EXTENDS Compositional, LdlfSemantics, LtlfSemantics

CONSTANTS
  Clients,     \* of "library", and the values "ltlf" and "ldlf" of --logic
  Parsed(_),   \* the formulas that a client may start from
  NoFormula,   \* the null pointer
  MaxLength    \* the longest word that is read

VARIABLES
  client, no_empty,      \* who translates, and the option --no-empty
  parsed_formula,        \* what it starts from
  ldlf_parsed_formula,   \* the pointer that is translated
  my_dfa,                \* the automaton
  next,                  \* what the program does next
  word, state            \* the letters read, and where they lead

vars == <<client, no_empty, parsed_formula, ldlf_parsed_formula, my_dfa, next, word, state>>
input == <<client, no_empty, parsed_formula>>

Init ==
  /\ client \in Clients
  /\ parsed_formula \in Parsed(client)
  /\ \/ /\ client = "library" /\ no_empty = FALSE
        /\ ldlf_parsed_formula = parsed_formula /\ next = "to_dfa"
     \/ /\ client # "library" /\ no_empty \in BOOLEAN
        /\ ldlf_parsed_formula = NoFormula /\ next = "to_ldlf"
  /\ my_dfa = <<>>
  /\ word = <<>> /\ state = 0

ToLdlf ==
  /\ next = "to_ldlf"
  /\ ldlf_parsed_formula' = IF client = "ltlf" THEN to_ldlf(parsed_formula) ELSE NoFormula
  /\ next' = IF no_empty THEN "no_empty" ELSE "to_dfa"
  /\ UNCHANGED <<input, my_dfa, word, state>>

(* Mutant: only the empty word is left.                                     *)
OnlyEmpty ==
  /\ next = "no_empty" /\ ldlf_parsed_formula # NoFormula
  /\ ldlf_parsed_formula' = makeLdlfAnd({ldlf_parsed_formula, makeLdlfEnd})
  /\ next' = "to_dfa"
  /\ UNCHANGED <<input, my_dfa, word, state>>

NoEmpty ==
  /\ next = "no_empty" /\ ldlf_parsed_formula # NoFormula
  /\ ldlf_parsed_formula' = makeLdlfAnd({ldlf_parsed_formula, makeLdlfNot(makeLdlfEnd)})
  /\ next' = "to_dfa"
  /\ UNCHANGED <<input, my_dfa, word, state>>

(* The program dereferences the null pointer: makeLdlfAnd compares its      *)
(* arguments, and to_dfa takes a reference.                                 *)
Crash ==
  /\ next \in {"no_empty", "to_dfa"} /\ ldlf_parsed_formula = NoFormula
  /\ next' = "crashed"
  /\ UNCHANGED <<input, ldlf_parsed_formula, my_dfa, word, state>>

to_dfa(f) == ComposeDFA(to_nnf(f))

ToDfa ==
  /\ next = "to_dfa" /\ ldlf_parsed_formula # NoFormula
  /\ my_dfa' = to_dfa(ldlf_parsed_formula)
  /\ state' = my_dfa'.s
  /\ next' = "read"
  /\ UNCHANGED <<input, ldlf_parsed_formula, word>>

Read(x) ==
  /\ next = "read" /\ Len(word) < MaxLength
  /\ word' = Append(word, Interpretation(x))
  /\ state' = my_dfa.q[state][x]
  /\ UNCHANGED <<input, ldlf_parsed_formula, my_dfa, next>>

Next ==
  \/ ToLdlf \/ NoEmpty \/ Crash \/ ToDfa
  \/ \E x \in Letters(N) : Read(x)

Spec == Init /\ [][Next]_vars

-----------------------------------------------------------------------------
Reading == next = "read"
Accepted == my_dfa.f[state]

(* TypeOK: the automaton is over the propositions only, no variable that    *)
(* concatenation, closure or star added for its choices is left, and every  *)
(* state has a successor for every letter (the projections that end         *)
(* dfa_concatenate, dfa_closure and star).                                  *)
TypeOK ==
  /\ next \in {"to_ldlf", "no_empty", "to_dfa", "read", "crashed"}
  /\ word \in BoundedSeq(SUBSET ToSet(id2atoms), MaxLength)
  /\ Reading => my_dfa.n = N /\ state \in States(my_dfa)

(* ComposedAgrees: the automaton accepts the letters read so far iff they   *)
(* satisfy the formula that was translated: composing the automata of the   *)
(* subformulas, and choosing alternatives and items with variables that are *)
(* projected away, does what LDLf means (compositional/base.cpp, star.cpp,  *)
(* mona_ext_base.cpp).                                                      *)
ComposedAgrees == Reading => (Accepted <=> Satisfies(word, ldlf_parsed_formula))

(* DecidesLtlf: with an LTLf formula the command line always gets an        *)
(* automaton, and on a word with a letter it accepts iff the formula holds  *)
(* at the first position, with --no-empty and without: the tests that       *)
(* to_ldlf adds for the end of the word are where they have to be, and the  *)
(* two conjuncts keep out of each other's way (main.cpp:131-152).           *)
DecidesLtlf ==
  client = "ltlf" =>
    /\ next # "crashed"
    /\ Reading /\ word # <<>> => (Accepted <=> HoldsAt(parsed_formula, word, 1))

(* EmptyIsRejected: --no-empty enforces non-empty semantics: no automaton   *)
(* accepts the empty word (main.cpp:39-40, 140-146).                        *)
EmptyIsRejected == Reading /\ no_empty /\ word = <<>> => ~Accepted

(* NormalFormAgrees: to_nnf on LTLf formulas does not change what to_ldlf   *)
(* makes of them, not even on the empty word, of which LTLf says nothing    *)
(* but the negations and the duals of duality.cpp have to agree with it.    *)
NormalFormAgrees ==
  Reading /\ client = "ltlf" =>
    (Satisfies(word, to_ldlf(ltlf_to_nnf(parsed_formula)))
       <=> Satisfies(word, to_ldlf(parsed_formula)))
=============================================================================
