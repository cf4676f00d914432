------------------------------ MODULE DfaHandles ------------------------------
(***************************************************************************)
(* Who frees which automaton in the compositional strategy.  MONA allocates *)
(* an automaton per operation (dfaBuild, dfaProduct, dfaMinimize, dfaCopy,  *)
(* ...), and the visitors free them with dfaFree: those in local variables, *)
(* in vectors and queues, and, in the destructor of ComposeDFARegexVisitor, *)
(* the automaton of the body, current_formula_, which a sequence replaces   *)
(* for a while.                                                             *)
(*                                                                         *)
(* Each function of the strategy is a program over its variables, and the   *)
(* state is the stack of the calls of a translation.  Formulas are left     *)
(* out: a call takes any formula of its family, and any automaton may be a  *)
(* sink, so that every early exit is taken.                                 *)
(***************************************************************************)
EXTENDS Naturals, SequencesExt

CONSTANTS
  Handles,         \* the addresses of automata
  Null,            \* nullptr
  Unused(_),       \* the addresses the allocator may return
  MaxDepth,        \* how many calls are nested
  MaxMembers(_)    \* the most members of a container visited at a depth

ASSUME HandlesAssumption ==
  /\ Null \notin Handles
  /\ \A held \in SUBSET Handles : Unused(held) \subseteq Handles \ held
ASSUME BoundsAssumption == 
  MaxDepth \in Nat \ {0} /\ \A d \in 1 .. MaxDepth + 1 : MaxMembers(d) \in Nat \ {0, 1}

-----------------------------------------------------------------------------
(* Statements.  "reads" are the variables whose automata a statement looks  *)
(* at or frees.  A variable is set to Null when its automaton is freed or   *)
(* handed on, after which the code does not mention it.                     *)
New(r, reads) == [op |-> "new", to |-> r, reads |-> reads]
Read(reads) == [op |-> "read", reads |-> reads]
Free(r) == [op |-> "free", reads |-> {r}]
IfNotNull(r, then) == [op |-> "if_not_null", of |-> r, then |-> then, reads |-> {}]
Move(r, s) == [op |-> "move", to |-> r, from |-> s, reads |-> {s}]
Alias(r, s) == [op |-> "alias", to |-> r, from |-> s, reads |-> {}]
Push(r) == [op |-> "push", from |-> r, reads |-> {r}]
Pop(r) == [op |-> "pop", to |-> r, reads |-> {}]
FreeAll == [op |-> "free_all", reads |-> {"queue"}]
ForEach(body) == [op |-> "for_each", body |-> body, reads |-> {}]
Repeat(body) == [op |-> "repeat", body |-> body, reads |-> {}]
WhileSeveral(body) == [op |-> "while_several", body |-> body, reads |-> {}]
IfSink(r, exit) == [op |-> "if_sink", exit |-> exit, reads |-> {r}]
Apply(family, r) == [op |-> "apply", family |-> family, to |-> r, reads |-> {}]
Call(function, r, args) == [op |-> "call", function |-> function, to |-> r, args |-> args, reads |-> ToSet(args)]
Return(r) == [op |-> "return", from |-> r, reads |-> {r}]

(* What MONA does to its arguments, and the copies.                         *)
dfaProduct(r, s, t) == New(r, {s, t})
dfaMinimize(r, s) == New(r, {s})
dfaProject(r, s) == New(r, {s})
dfaCopy(r, s) == New(r, {s})
dfaNegation(r) == Read({r})

-----------------------------------------------------------------------------
(* The client: to_dfa, and the destructor of the mona_dfa it returns.       *)
Translate == << Apply("ldlf", "result"), Read({"result"}), Free("result") >>

(* dfa_and_or: the automata of the members go to a queue.                   *)
dfa_and_or(family) ==
  << ForEach(<< Apply(family, "tmp1"),
                IfSink("tmp1", << FreeAll, Return("tmp1") >>),
                Push("tmp1") >>),
     WhileSeveral(<< Pop("lhs"), Pop("rhs"),
                     dfaProduct("tmp1", "lhs", "rhs"), dfaMinimize("final", "tmp1"),
                     Free("lhs"), Free("rhs"), Free("tmp1"),
                     IfSink("final", << FreeAll, Return("final") >>),
                     Push("final") >>),
     Pop("final"), Return("final") >>

visit_LDLfNot ==
  << Apply("ldlf", "tmp"), dfaNegation("tmp"), dfaMinimize("result", "tmp"),
     Free("tmp"), Return("result") >>

(* visit(LDLfDiamond), visit(LDLfBox): the body becomes current_formula_ of *)
(* the visitor of the expression, whose destructor frees it.                *)
Destructor == << IfNotNull("current_formula", << Free("current_formula") >>) >>
visit_LDLfModality ==
  << Apply("ldlf", "current_formula"), Apply("regex", "result") >>
  \o Destructor \o << Return("result") >>

visit_UnionRegExp ==
  << New("final", {}),
     ForEach(<< Move("tmp1", "final"), Apply("regex", "tmp2"),
                dfaProduct("tmp3", "tmp1", "tmp2"), dfaMinimize("final", "tmp3"),
                Free("tmp1"), Free("tmp2"), Free("tmp3"),
                IfSink("final", << Return("final") >>) >>),
     Return("final") >>

(* Mutant: the automaton of the rest of the sequence stays in the visitor.  *)
SequenceForgetsBody ==
  << ForEach(<< Apply("regex", "tmp"), IfNotNull("final", << Free("final") >>),
                dfaMinimize("final", "tmp"), Alias("current_formula", "final"),
                Free("tmp") >>),
     Return("final") >>

(* From the last element to the first.                                      *)
visit_SequenceRegExp ==
  << Alias("old_formula", "current_formula"),
     ForEach(<< Apply("regex", "tmp"), IfNotNull("final", << Free("final") >>),
                dfaMinimize("final", "tmp"), Alias("current_formula", "final"),
                Free("tmp") >>),
     Move("result", "final"), Alias("current_formula", "old_formula"),
     Return("result") >>

visit_TestRegExp ==
  << Apply("ldlf", "regex_dfa"), dfaProduct("tmp", "regex_dfa", "current_formula"),
     dfaMinimize("result", "tmp"), Free("regex_dfa"), Free("tmp"), Return("result") >>

visit_PropositionalRegExp_diamond ==
  << Apply("prop", "regex"),
     Call("dfa_concatenate", "result", <<"regex", "current_formula">>),
     Free("regex"), Return("result") >>
visit_PropositionalRegExp_box ==
  << Apply("prop", "regex"), dfaCopy("tmp", "current_formula"), dfaNegation("tmp"),
     Call("dfa_concatenate", "result", <<"regex", "tmp">>),
     dfaNegation("result"), Free("tmp"), Free("regex"), Return("result") >>

(* Mutant: the body is negated and freed, but not copied.                   *)
test_free_star_without_copy ==
  << Alias("body", "current_formula"), Apply("ldlf", "regex"),
     Call("dfa_closure", "star", <<"regex">>),
     Call("dfa_concatenate", "tmp", <<"star", "body">>), dfaMinimize("result", "tmp"),
     Free("tmp"), Free("regex"), Free("star"), Free("body"), Return("result") >>

test_free_star ==
  << dfaCopy("body", "current_formula"), Apply("ldlf", "regex"),
     Call("dfa_accept_empty", "regex_or_empty", <<"regex">>),
     Call("dfa_closure", "star", <<"regex_or_empty">>),
     dfaNegation("body"), Call("dfa_concatenate", "tmp", <<"star", "body">>),
     dfaNegation("tmp"), dfaMinimize("result", "tmp"),
     Free("tmp"), Free("regex"), Free("regex_or_empty"), Free("star"), Free("body"),
     Return("result") >>

general_star ==
  << dfaCopy("body", "current_formula"), dfaNegation("body"),
     Call("star", "tmp", <<"body">>), dfaNegation("tmp"),
     dfaMinimize("result", "tmp"), Free("tmp"), Free("body"), Return("result") >>

(* CompositionalStrategy::star: the automata of the tests, the automaton    *)
(* built from them and the body, and its projections.                       *)
remove_unreachable_states ==
  << New("true", {}), dfaProduct("product", "tmp", "true"), Free("true"),
     dfaMinimize("true", "product"), Free("product"), Move("result", "true") >>
(* Mutant: the automaton that is minimized is not freed.                    *)
ProjectWithLeak ==
  << dfaProject("tmp", "result"), Free("result"), dfaMinimize("result", "tmp") >>

ProjectOnce ==
  << dfaProject("tmp", "result"), Free("result"), dfaMinimize("result", "tmp"), Free("tmp") >>
star ==
  << Repeat(<< Apply("ldlf", "tmp"), Push("tmp") >>),
     New("result", {"queue", "a"}), dfaMinimize("tmp", "result"), Free("result") >>
  \o remove_unreachable_states \o
  << Free("tmp"), Repeat(ProjectOnce), Move("tmp", "result"),
     dfaMinimize("result", "tmp"), Free("tmp"), FreeAll, Return("result") >>

(* mona_ext_base.cpp.  The arguments stay the caller's.                     *)
(* Mutant: the end of the function is reached without return.               *)
NoReturn == << New("tmp", {}), dfaProduct("result", "a", "tmp"), Free("tmp") >>

dfa_accept_empty ==
  << New("tmp", {}), dfaProduct("result", "a", "tmp"), Free("tmp"), Return("result") >>
BuildAndProject(reads) ==
  << New("result", reads), dfaProject("tmp", "result"), Free("result"),
     dfaMinimize("result", "tmp"), Free("tmp"), Return("result") >>
dfa_concatenate == BuildAndProject({"a", "b"})
dfa_closure == BuildAndProject({"a"})

-----------------------------------------------------------------------------
(* A visitor's apply takes a formula of a family: a leaf, for which a visit *)
(* makes one automaton, or a formula with parts.                            *)
HasLeaves(family) == family \in {"ldlf", "prop"}
Visits(family) ==
  CASE family = "ldlf" -> {dfa_and_or("ldlf"), visit_LDLfNot, visit_LDLfModality}
    [] family = "regex" -> {visit_UnionRegExp, visit_SequenceRegExp, visit_TestRegExp,
                            visit_PropositionalRegExp_diamond, visit_PropositionalRegExp_box,
                            test_free_star, general_star}
    [] family = "prop" -> {dfa_and_or("prop")}
Body(function) ==
  CASE function = "star" -> star
    [] function = "dfa_accept_empty" -> dfa_accept_empty
    [] function = "dfa_closure" -> dfa_closure
    [] function = "dfa_concatenate" -> dfa_concatenate

(* Expressions and their formulas are visited by one object, with one       *)
(* current_formula_: a call gets its value, and may leave another.          *)
SameVisitor(family) == family \in {"regex", "prop"}

Variables == {"result", "tmp", "tmp1", "tmp2", "tmp3", "final", "lhs", "rhs", "body",
              "regex", "regex_dfa", "regex_or_empty", "star", "true", "product",
              "current_formula", "old_formula", "a", "b"}
NoHandles == [r \in Variables |-> Null]

VARIABLES
  stack,   \* the calls, the innermost last: what they still have to do (todo),
           \* their variables (regs), the vector or queue of automata (queue),
           \* and how many members are left to visit (members)
  live     \* the automata that are allocated

vars == <<stack, live>>

Frame(program, regs, members) ==
  [todo |-> program, regs |-> regs, queue |-> {}, members |-> members]

top == Last(stack)
statement == Head(top.todo)
rest == Tail(top.todo)
Becomes(frame) == stack' = Append(Front(stack), frame)
Continue(todo) == Becomes([top EXCEPT !.todo = todo])
Set(r, h) == Becomes([top EXCEPT !.todo = rest, !.regs[r] = h])

Init == stack = << Frame(Translate, NoHandles, 0) >> /\ live = {}

-----------------------------------------------------------------------------
Allocate(r) == \E h \in Unused(live) : live' = live \cup {h} /\ Set(r, h)

Create == statement.op = "new" /\ Allocate(statement.to)

Look == statement.op = "read" /\ Continue(rest) /\ UNCHANGED live

Release ==
  /\ statement.op = "free"
  /\ \E r \in statement.reads : live' = live \ {top.regs[r]} /\ Set(r, Null)

ReleaseAll ==
  /\ statement.op = "free_all"
  /\ live' = live \ top.queue
  /\ Becomes([top EXCEPT !.todo = rest, !.queue = {}])

Copy ==
  /\ statement.op \in {"move", "alias"}
  /\ LET regs == [top.regs EXCEPT ![statement.to] = top.regs[statement.from]]
     IN Becomes([top EXCEPT !.todo = rest,
          !.regs = IF statement.op = "move" THEN [regs EXCEPT ![statement.from] = Null] ELSE regs])
  /\ UNCHANGED live

Enqueue ==
  /\ statement.op = "push"
  /\ Becomes([top EXCEPT !.todo = rest, !.queue = @ \cup {top.regs[statement.from]},
                         !.regs[statement.from] = Null])
  /\ UNCHANGED live

(* The queue is ordered by sizes, which are any.                            *)
Dequeue ==
  /\ statement.op = "pop"
  /\ \E h \in top.queue :
       Becomes([top EXCEPT !.todo = rest, !.queue = @ \ {h}, !.regs[statement.to] = h])
  /\ UNCHANGED live

(* Loops and conditions.  A container of members has two or more, the tests *)
(* of a star and the propositions it projects are any number.               *)
Branch ==
  /\ \/ /\ statement.op = "for_each" /\ top.members > 0
        /\ Becomes([top EXCEPT !.todo = statement.body \o @, !.members = @ - 1])
     \/ statement.op = "for_each" /\ top.members = 0 /\ Continue(rest)
     \/ /\ statement.op = "repeat" /\ Cardinality(top.queue) < MaxMembers(Len(stack))
        /\ Continue(statement.body \o top.todo)
     \/ statement.op = "repeat" /\ Continue(rest)
     \/ /\ statement.op = "while_several" /\ Cardinality(top.queue) > 1
        /\ Continue(statement.body \o top.todo)
     \/ statement.op = "while_several" /\ Cardinality(top.queue) <= 1 /\ Continue(rest)
     \/ statement.op = "if_sink" /\ Continue(statement.exit)
     \/ statement.op = "if_sink" /\ Continue(rest)
     \/ /\ statement.op = "if_not_null"
        /\ Continue(IF top.regs[statement.of] # Null THEN statement.then \o rest ELSE rest)
  /\ UNCHANGED live

Nested(program) == \E s \in ToSet(program) :
  \/ s.op = "apply" /\ ~HasLeaves(s.family)
  \/ s.op = "for_each" /\ \E t \in ToSet(s.body) : t.op = "apply" /\ ~HasLeaves(t.family)

Loops(program) == \E s \in ToSet(program) : s.op = "for_each"

EnterVisit ==
  /\ statement.op = "apply"
  /\ \E program \in Visits(statement.family) :
     \E members \in IF Loops(program) THEN 2 .. MaxMembers(Len(stack)) ELSE {0} :
       /\ Len(stack) + (IF Nested(program) THEN 2 ELSE 1) <= MaxDepth
       /\ stack' = Append(stack,
            Frame(program,
                  IF SameVisitor(statement.family)
                  THEN [NoHandles EXCEPT !["current_formula"] = top.regs["current_formula"]]
                  ELSE NoHandles,
                  members))
  /\ UNCHANGED live

VisitLeaf == statement.op = "apply" /\ HasLeaves(statement.family) /\ Allocate(statement.to)

EnterFunction ==
  /\ statement.op = "call"
  /\ LET Arg(i) == IF i <= Len(statement.args) THEN top.regs[statement.args[i]] ELSE Null
     IN stack' = Append(stack, Frame(Body(statement.function),
                   [NoHandles EXCEPT !["a"] = Arg(1), !["b"] = Arg(2)], 0))
  /\ UNCHANGED live

Leave ==
  /\ statement.op = "return"
  /\ LET caller == stack[Len(stack) - 1]
         call == Head(caller.todo)
         shared == call.op = "apply" /\ SameVisitor(call.family)
         regs == [caller.regs EXCEPT ![call.to] = top.regs[statement.from]]
     IN stack' = Append(Front(Front(stack)),
          [caller EXCEPT !.todo = Tail(@),
             !.regs = IF shared
                      THEN [regs EXCEPT !["current_formula"] = top.regs["current_formula"]]
                      ELSE regs])
  /\ UNCHANGED live

(* The next formula.                                                        *)
Again ==
  /\ Len(stack) = 1 /\ top.todo = <<>>
  /\ stack' = << Frame(Translate, NoHandles, 0) >>
  /\ UNCHANGED live

Next ==
  \/ Again
  \/ /\ top.todo # <<>>
     /\ \/ Create \/ Look \/ Release \/ ReleaseAll \/ Copy \/ Enqueue \/ Dequeue
        \/ Branch \/ EnterVisit \/ VisitLeaf \/ EnterFunction \/ Leave

Spec == Init /\ [][Next]_vars

-----------------------------------------------------------------------------
Held(frame) == (Range(frame.regs) \cup frame.queue) \ {Null}
Touched ==
  {top.regs[r] : r \in statement.reads \ {"queue"}}
  \cup (IF "queue" \in statement.reads THEN top.queue ELSE {})

(* TypeOK: variables hold addresses, and a function ends with its return    *)
(* statement (the only function without one is the client).                 *)
TypeOK ==
  /\ live \subseteq Handles
  /\ \A i \in 1 .. Len(stack) :
       /\ stack[i].regs \in [Variables -> Handles \cup {Null}]
       /\ stack[i].queue \subseteq Handles
       /\ stack[i].members \in Nat
       /\ i > 1 => stack[i].todo # <<>>

(* UsesAreAllocated: no statement reads or frees an automaton that is not   *)
(* allocated: one that was freed, that a destructor or another visitor      *)
(* freed, or none at all (the dfaFree calls of base.cpp, base.hpp, star.cpp *)
(* and mona_ext_base.cpp).                                                  *)
UsesAreAllocated == top.todo # <<>> => Touched \subseteq live

(* NothingLeaks: an allocated automaton is held by a call that is still     *)
(* active, so that none is left when the client has freed the result: not   *)
(* after an early exit, and not when a variable is assigned again.          *)
NothingLeaks == live \subseteq UNION {Held(stack[i]) : i \in 1 .. Len(stack)}

(* BodyStays: when the visit of an expression returns, the visitor has the  *)
(* automaton of the body that it had before, for the next member of a union *)
(* and for the destructor (visit(SequenceRegExp), base.cpp:144-160).        *)
BodyStays ==
  [][LET caller == stack[Len(stack')]
     IN Len(stack') < Len(stack) /\ Head(caller.todo).op = "apply"
          /\ Head(caller.todo).family = "regex"
        => stack'[Len(stack')].regs["current_formula"] = caller.regs["current_formula"]]_vars
=============================================================================
