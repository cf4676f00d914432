--------------------------- MODULE DfaHandlesProofs ---------------------------
(***************************************************************************)
(* Proofs about DfaHandles: no automaton is used after it was freed, freed  *)
(* twice or lost, however deep the calls of a translation are nested,       *)
(* however many members a formula has and whatever the allocator returns.   *)
(*                                                                          *)
(* The programs are typed: an ownership says, for a point of a program,     *)
(* which variables the call has to free or hand on, and which ones hold an  *)
(* automaton of somebody else.  The rules of the statements are sound (the  *)
(* actions preserve what an ownership says), and each program of the        *)
(* strategy obeys them, from its first statement to its return.             *)
(***************************************************************************)
EXTENDS DfaHandles, TLAPS, SequenceTheorems, FiniteSetTheorems

-----------------------------------------------------------------------------
(* Ownerships.                                                              *)
(*   own    variables that hold an automaton of this call                   *)
(*   opt    variables that hold one, or Null                                *)
(*   ref    variables that hold an automaton of a call below                *)
(*   near   as ref, or an automaton that this call has in "final"           *)
(*   entry  variables with the body that the call was entered with          *)
(*   queue  0 if the queue is empty, 1 if it has at most one automaton      *)
(*   many   1 if there is a member left to visit                            *)
(*   over   1 behind a return                                               *)
Ownership(own, opt, ref, near, entry, queue, many) ==
  [own |-> own, opt |-> opt, ref |-> ref, near |-> near, entry |-> entry,
   queue |-> queue, many |-> many, over |-> 0]
Over == [Ownership({}, {}, {}, {}, {}, 0, 0) EXCEPT !.over = 1]

Slots(e) == e.own \cup e.opt
Valid(e) == e.own \cup e.ref \cup e.near

(* A variable r is assigned.                                                *)
Written(e, e2, r) ==
  /\ e2.ref = e.ref \ {r} /\ e2.entry = e.entry \ {r}
  /\ e2.near = (IF r = "final" THEN {} ELSE e.near \ {r})
  /\ e2.many = e.many /\ e2.over = 0
Same(e, e2) ==
  /\ e2.ref = e.ref /\ e2.near = e.near /\ e2.entry = e.entry
  /\ e2.many = e.many /\ e2.over = 0
Owns(e, own, opt, queue) == e.own = own /\ e.opt = opt /\ e.queue = queue

(* A variable gets an automaton, or loses it; the queue changes.            *)
Gains(e, e2, r) ==
  r \in Variables \ Slots(e) /\ Owns(e2, e.own \cup {r}, e.opt, e.queue) /\ Written(e, e2, r)
Drops(e, e2, r) ==
  r \in e.own /\ Owns(e2, e.own \ {r}, e.opt \ {r}, e.queue) /\ Written(e, e2, r)
Queues(e, e2, queue) == Owns(e2, e.own, e.opt, queue) /\ Same(e, e2)

(* Less is known.                                                           *)
Weaker(e, e2) ==
  /\ e2.queue \in 0 .. 2 /\ e.many \in 0 .. 1 /\ e2.many \in 0 .. 1
  /\ e2.own \subseteq e.own /\ Slots(e2) = Slots(e)
  /\ e2.ref \subseteq e.ref /\ e2.near \subseteq e.near \cup e.ref /\ e2.entry \subseteq e.entry
  /\ e.queue <= e2.queue /\ e2.many <= e.many /\ e2.over = e.over

-----------------------------------------------------------------------------
(* What an ownership says of the variables (regs), the queue and the        *)
(* members of a call, if the calls below own the automata below, and the    *)
(* visitor had the body entry.                                              *)
Owned(regs, queue, e) == ({regs[r] : r \in Slots(e)} \cup queue) \ {Null}
Holds(regs, queue, members, e, below, entry) ==
  /\ regs \in [Variables -> Handles \cup {Null}] /\ members \in Nat
  /\ queue \subseteq Handles /\ IsFiniteSet(queue)
  /\ Slots(e) \cup e.ref \cup e.near \cup e.entry \subseteq Variables
  /\ e.over = 0 /\ e.queue \in 0 .. 2
  /\ \A r \in e.own : regs[r] # Null
  /\ \A r, s \in Slots(e) : regs[r] = regs[s] /\ regs[r] # Null => r = s
  /\ \A r \in Slots(e) : regs[r] \notin queue
  /\ \A r \in e.ref : regs[r] \in below
  /\ \A r \in e.near : regs[r] \in below
                       \/ (regs[r] = regs["final"] /\ regs[r] # Null /\ "final" \in Slots(e))
  /\ \A r \in e.entry : regs[r] = entry
  /\ e.queue = 0 => queue = {}
  /\ e.queue = 1 => \A h, g \in queue : h = g
  /\ e.many = 1 => members > 0
  /\ Owned(regs, queue, e) \cap below = {}

(* A variable is assigned.                                                  *)
Put(regs, r, h) == [regs EXCEPT ![r] = h]

LEMMA NullIsNoHandle == Null \notin Handles /\ "final" \in Variables /\ "current_formula" \in Variables
  BY HandlesAssumption DEF Variables

(* A variable gets an automaton that is nobody's.                           *)
LEMMA Assigned ==
  ASSUME NEW regs, NEW queue, NEW members, NEW e, NEW below, NEW entry,
         Holds(regs, queue, members, e, below, entry),
         NEW r, NEW h \in Handles,
         h \notin below, h \notin Owned(regs, queue, e), NEW e2, Gains(e, e2, r)
  PROVE  /\ Holds(Put(regs, r, h), queue, members, e2, below, entry)
         /\ Owned(Put(regs, r, h), queue, e2) = Owned(regs, queue, e) \cup {h}
<1> DEFINE g == Put(regs, r, h)
<1>0. r \in Variables \ Slots(e)
  BY DEF Gains
<1>1. /\ Slots(e2) = Slots(e) \cup {r} /\ e2.own = e.own \cup {r} /\ e2.queue = e.queue
      /\ e2.over = 0 /\ e2.many = e.many
      /\ e2.ref \subseteq e.ref /\ e2.entry \subseteq e.entry /\ e2.near \subseteq e.near
      /\ r \notin e2.ref /\ r \notin e2.entry /\ r \notin e2.near
      /\ r = "final" => e2.near = {}
  BY <1>0 DEF Gains, Owns, Written, Slots
<1>2. g \in [Variables -> Handles \cup {Null}] /\ g[r] = h /\ \A s \in Variables : s # r => g[s] = regs[s]
  BY <1>0 DEF Holds, Put
<1>3. Slots(e) \subseteq Variables /\ h # Null /\ h \notin queue /\ \A s \in Slots(e) : regs[s] # h
  BY NullIsNoHandle DEF Holds, Owned
<1> HIDE DEF g
<1>4. Owned(g, queue, e2) = Owned(regs, queue, e) \cup {h}
  BY <1>0, <1>1, <1>2, <1>3 DEF Owned
<1>5. \A s \in Slots(e) : g[s] = regs[s] /\ s # r
  BY <1>0, <1>2, <1>3
<1>6. \A s, t \in Slots(e2) : g[s] = g[t] /\ g[s] # Null => s = t
  BY <1>1, <1>2, <1>3, <1>5 DEF Holds
<1>7. \A s \in Slots(e2) : g[s] \notin queue
  BY <1>1, <1>2, <1>3, <1>5 DEF Holds
<1>8. \A s \in e2.near : g[s] \in below
                         \/ (g[s] = g["final"] /\ g[s] # Null /\ "final" \in Slots(e2))
  BY <1>1, <1>2, NullIsNoHandle DEF Holds
<1>9. /\ \A s \in e2.own : g[s] # Null
      /\ \A s \in e2.ref : g[s] \in below
      /\ \A s \in e2.entry : g[s] = entry
  BY <1>1, <1>2, <1>3, <1>5 DEF Holds, Slots
<1>10. Owned(g, queue, e2) \cap below = {}
  BY <1>4 DEF Holds
<1>11. Slots(e2) \cup e2.ref \cup e2.near \cup e2.entry \subseteq Variables
  BY <1>0, <1>1 DEF Holds
<1>12. QED
  BY <1>1, <1>2, <1>4, <1>6, <1>7, <1>8, <1>9, <1>10, <1>11 DEF Holds, g

(* An automaton is freed or handed on.                                      *)
LEMMA Dropped ==
  ASSUME NEW regs, NEW queue, NEW members, NEW e, NEW below, NEW entry,
         Holds(regs, queue, members, e, below, entry), NEW r, NEW e2, Drops(e, e2, r)
  PROVE  /\ Holds(Put(regs, r, Null), queue, members, e2, below, entry)
         /\ Owned(Put(regs, r, Null), queue, e2) = Owned(regs, queue, e) \ {regs[r]}
         /\ regs[r] \in Owned(regs, queue, e) /\ regs[r] \in Handles /\ regs[r] \notin queue
<1> DEFINE g == Put(regs, r, Null)
           h == regs[r]
<1>1. /\ Slots(e2) = Slots(e) \ {r} /\ e2.own = e.own \ {r} /\ e2.queue = e.queue
      /\ e2.over = 0 /\ e2.many = e.many
      /\ e2.ref \subseteq e.ref /\ e2.entry \subseteq e.entry /\ e2.near \subseteq e.near
      /\ r \notin e2.ref /\ r \notin e2.entry /\ r \notin e2.near
      /\ r = "final" => e2.near = {}
  BY DEF Drops, Owns, Written, Slots
<1>2. r \in Slots(e) /\ r \in Variables /\ h # Null /\ h \in Handles /\ h \notin queue
  BY DEF Drops, Holds, Slots
<1>3. g \in [Variables -> Handles \cup {Null}] /\ g[r] = Null /\ \A s \in Variables : s # r => g[s] = regs[s]
  BY <1>2 DEF Holds, Put
<1>4. Slots(e) \subseteq Variables /\ \A s \in Slots(e) : s # r => regs[s] # h
  BY <1>2 DEF Holds
<1>5. h \in Owned(regs, queue, e)
  BY <1>2 DEF Owned
<1> HIDE DEF g, h
<1>6. \A s \in Slots(e2) : g[s] = regs[s] /\ s # r /\ s \in Slots(e)
  BY <1>1, <1>3, <1>4
<1>7. Owned(g, queue, e2) = Owned(regs, queue, e) \ {h}
  BY <1>1, <1>2, <1>3, <1>4, <1>6 DEF Owned, h
<1>8. \A s, t \in Slots(e2) : g[s] = g[t] /\ g[s] # Null => s = t
  BY <1>6 DEF Holds
<1>9. \A s \in Slots(e2) : g[s] \notin queue
  BY <1>6 DEF Holds
<1>10. \A s \in e2.near : g[s] \in below
                         \/ (g[s] = g["final"] /\ g[s] # Null /\ "final" \in Slots(e2))
  BY <1>1, <1>3, NullIsNoHandle DEF Holds
<1>11. /\ \A s \in e2.own : g[s] # Null
       /\ \A s \in e2.ref : g[s] \in below
       /\ \A s \in e2.entry : g[s] = entry
  BY <1>1, <1>3 DEF Holds, Slots
<1>12. Owned(g, queue, e2) \cap below = {}
  BY <1>7 DEF Holds
<1>13. Slots(e2) \cup e2.ref \cup e2.near \cup e2.entry \subseteq Variables
  BY <1>1 DEF Holds
<1>14. QED
  BY <1>1, <1>2, <1>3, <1>5, <1>7, <1>8, <1>9, <1>10, <1>11, <1>12, <1>13 DEF Holds, g, h

(* A variable gets the address that another one has.                        *)
Aliases(e, e2, to, from) ==
  /\ e2.own = e.own /\ e2.opt = e.opt /\ e2.queue = e.queue /\ e2.many = e.many /\ e2.over = 0
  /\ e2.ref = (e.ref \ {to}) \cup {r \in {to} : from \in e.ref}
  /\ e2.entry = (e.entry \ {to}) \cup {r \in {to} : from \in e.entry}
  /\ e2.near = (e.near \ {to}) \cup {r \in {to} : from = "final" /\ from \in e.own}

LEMMA Aliased ==
  ASSUME NEW regs, NEW queue, NEW members, NEW e, NEW below, NEW entry,
         Holds(regs, queue, members, e, below, entry),
         NEW to \in Variables \ Slots(e), to # "final", NEW from \in Variables, NEW e2,
         Aliases(e, e2, to, from)
  PROVE  /\ Holds(Put(regs, to, regs[from]), queue, members, e2, below, entry)
         /\ Owned(Put(regs, to, regs[from]), queue, e2) = Owned(regs, queue, e)
<1> DEFINE g == Put(regs, to, regs[from])
<1>1. /\ Slots(e2) = Slots(e) /\ e2.own = e.own /\ e2.queue = e.queue
      /\ e2.over = 0 /\ e2.many = e.many
  BY DEF Aliases, Slots
<1>2. g \in [Variables -> Handles \cup {Null}] /\ g[to] = regs[from]
      /\ \A s \in Variables : s # to => g[s] = regs[s]
  BY DEF Holds, Put
<1>3. Slots(e) \subseteq Variables /\ \A s \in Slots(e) : g[s] = regs[s] /\ s # to
  BY <1>2 DEF Holds
<1> HIDE DEF g
<1>4. Owned(g, queue, e2) = Owned(regs, queue, e)
  BY <1>1, <1>3 DEF Owned
<1>5. \A s, t \in Slots(e2) : g[s] = g[t] /\ g[s] # Null => s = t
  BY <1>1, <1>3 DEF Holds
<1>6. \A s \in Slots(e2) : g[s] \notin queue
  BY <1>1, <1>3 DEF Holds
<1>7. \A s \in e2.own : g[s] # Null
  BY <1>1, <1>3 DEF Holds, Slots
<1>8. \A s \in e2.ref : g[s] \in below
  <2>1. \A s \in e2.ref : (s \in e.ref /\ s # to) \/ (s = to /\ from \in e.ref)
    BY DEF Aliases
  <2>2. QED
    BY <1>2, <2>1 DEF Holds
<1>9. \A s \in e2.entry : g[s] = entry
  <2>1. \A s \in e2.entry : (s \in e.entry /\ s # to) \/ (s = to /\ from \in e.entry)
    BY DEF Aliases
  <2>2. QED
    BY <1>2, <2>1 DEF Holds
<1>10. \A s \in e2.near : g[s] \in below
                         \/ (g[s] = g["final"] /\ g[s] # Null /\ "final" \in Slots(e2))
  <2>1. \A s \in e2.near : (s \in e.near /\ s # to) \/ (s = to /\ from = "final" /\ "final" \in e.own)
    BY DEF Aliases
  <2>2. g["final"] = regs["final"]
    BY <1>2, NullIsNoHandle
  <2>3. e.own \subseteq Slots(e) /\ e.near \subseteq Variables
    BY DEF Slots, Holds
  <2>4. QED
    BY <1>1, <1>2, <2>1, <2>2, <2>3 DEF Holds
<1>11. Slots(e2) \cup e2.ref \cup e2.near \cup e2.entry \subseteq Variables
  BY <1>1 DEF Holds, Aliases
<1>12. QED
  BY <1>1, <1>2, <1>4, <1>5, <1>6, <1>7, <1>8, <1>9, <1>10, <1>11 DEF Holds, g

(* The queue.                                                               *)
LEMMA Enqueued ==
  ASSUME NEW regs, NEW queue, NEW members, NEW e, NEW below, NEW entry,
         Holds(regs, queue, members, e, below, entry), NEW h \in Handles,
         h \notin below, h \notin Owned(regs, queue, e), NEW e2,
         Queues(e, e2, 2)
  PROVE  /\ Holds(regs, queue \cup {h}, members, e2, below, entry)
         /\ Owned(regs, queue \cup {h}, e2) = Owned(regs, queue, e) \cup {h}
<1>1. /\ Slots(e2) = Slots(e) /\ e2.own = e.own /\ e2.ref = e.ref /\ e2.near = e.near
      /\ e2.entry = e.entry /\ e2.many = e.many /\ e2.over = 0 /\ e2.queue = 2
  BY DEF Queues, Owns, Same, Slots
<1>2. h # Null /\ \A r \in Slots(e) : regs[r] # h
  BY NullIsNoHandle DEF Owned
<1>3. IsFiniteSet(queue \cup {h}) /\ queue \cup {h} \subseteq Handles
  BY FS_AddElement DEF Holds
<1>4. Owned(regs, queue \cup {h}, e2) = Owned(regs, queue, e) \cup {h}
  BY <1>1, <1>2 DEF Owned
<1>5. QED
  BY <1>1, <1>2, <1>3, <1>4 DEF Holds

LEMMA Dequeued ==
  ASSUME NEW regs, NEW queue, NEW members, NEW e, NEW below, NEW entry,
         Holds(regs, queue, members, e, below, entry), NEW h \in queue, NEW e2, NEW left, left = queue \ {h},
         NEW q, q = (IF e.queue = 2 THEN 2 ELSE 0), Queues(e, e2, q)
  PROVE  /\ Holds(regs, left, members, e2, below, entry)
         /\ Owned(regs, left, e2) = Owned(regs, queue, e) \ {h}
         /\ h \in Owned(regs, queue, e) /\ h \in Handles
<1>1. /\ Slots(e2) = Slots(e) /\ e2.own = e.own /\ e2.ref = e.ref /\ e2.near = e.near
      /\ e2.entry = e.entry /\ e2.many = e.many /\ e2.over = 0
      /\ e2.queue = (IF e.queue = 2 THEN 2 ELSE 0)
  BY DEF Queues, Owns, Same, Slots
<1>2. h \in Handles /\ h # Null /\ \A r \in Slots(e) : regs[r] # h
  BY NullIsNoHandle DEF Holds
<1>3. IsFiniteSet(left) /\ left \subseteq Handles
  BY FS_RemoveElement DEF Holds
<1>4. Owned(regs, left, e2) = Owned(regs, queue, e) \ {h} /\ h \in Owned(regs, queue, e)
  BY <1>1, <1>2 DEF Owned
<1>5. e2.queue \in 0 .. 2 /\ (e2.queue = 0 => left = {}) /\ e2.queue # 1
  BY <1>1 DEF Holds
<1>6. QED
  BY <1>1, <1>2, <1>3, <1>4, <1>5 DEF Holds

LEMMA QueueFreed ==
  ASSUME NEW regs, NEW queue, NEW members, NEW e, NEW below, NEW entry,
         Holds(regs, queue, members, e, below, entry), NEW e2,
         Queues(e, e2, 0)
  PROVE  /\ Holds(regs, {}, members, e2, below, entry)
         /\ Owned(regs, {}, e2) = Owned(regs, queue, e) \ queue
         /\ queue \subseteq Owned(regs, queue, e)
<1>1. /\ Slots(e2) = Slots(e) /\ e2.own = e.own /\ e2.ref = e.ref /\ e2.near = e.near
      /\ e2.entry = e.entry /\ e2.many = e.many /\ e2.over = 0 /\ e2.queue = 0
  BY DEF Queues, Owns, Same, Slots
<1>2. Null \notin queue /\ \A r \in Slots(e) : regs[r] \notin queue
  BY NullIsNoHandle DEF Holds
<1>3. Owned(regs, {}, e2) = Owned(regs, queue, e) \ queue /\ queue \subseteq Owned(regs, queue, e)
  BY <1>1, <1>2 DEF Owned
<1>4. IsFiniteSet({})
  BY FS_EmptySet
<1>5. QED
  BY <1>1, <1>2, <1>3, <1>4 DEF Holds

LEMMA Weakened ==
  ASSUME NEW regs, NEW queue, NEW members, NEW e, NEW below, NEW entry,
         Holds(regs, queue, members, e, below, entry), NEW e2,
         Weaker(e, e2)
  PROVE  /\ Holds(regs, queue, members, e2, below, entry)
         /\ Owned(regs, queue, e2) = Owned(regs, queue, e)
<1>1. Slots(e2) = Slots(e) /\ e2.own \subseteq e.own /\ e2.over = 0
  BY DEF Weaker, Holds
<1>2. Owned(regs, queue, e2) = Owned(regs, queue, e)
  BY <1>1 DEF Owned
<1>3. \A s \in e2.near : regs[s] \in below
                         \/ (regs[s] = regs["final"] /\ regs[s] # Null /\ "final" \in Slots(e2))
  BY <1>1 DEF Weaker, Holds
<1>4. Slots(e2) \cup e2.ref \cup e2.near \cup e2.entry \subseteq Variables
  BY <1>1 DEF Weaker, Holds
<1>5. (e2.queue = 0 => e.queue = 0) /\ (e2.queue = 1 => e.queue = 0 \/ e.queue = 1)
      /\ (e2.many = 1 => e.many = 1)
  BY DEF Weaker, Holds
<1>6. QED
  BY <1>1, <1>2, <1>3, <1>4, <1>5 DEF Holds, Weaker

(* A variable that may be Null is, or is not.                               *)
Present(e, e2, r) ==
  /\ e2.own = e.own \cup {r} /\ e2.opt = e.opt /\ e2.ref = e.ref /\ e2.near = e.near
  /\ e2.entry = e.entry /\ e2.queue = e.queue /\ e2.many = e.many /\ e2.over = 0
Absent(e, e2, r) ==
  /\ e2.own = e.own \ {r} /\ e2.opt = e.opt \ {r} /\ e2.ref = e.ref /\ e2.near = e.near
  /\ e2.entry = e.entry /\ e2.queue = e.queue /\ e2.many = e.many /\ e2.over = 0

LEMMA PresentHolds ==
  ASSUME NEW regs, NEW queue, NEW members, NEW e, NEW below, NEW entry,
         Holds(regs, queue, members, e, below, entry), NEW r \in Slots(e), regs[r] # Null,
         NEW e2, Present(e, e2, r)
  PROVE  /\ Holds(regs, queue, members, e2, below, entry)
         /\ Owned(regs, queue, e2) = Owned(regs, queue, e)
<1>1. Slots(e2) = Slots(e) /\ e2.own = e.own \cup {r}
  BY DEF Present, Slots
<1>2. Owned(regs, queue, e2) = Owned(regs, queue, e)
  BY <1>1 DEF Owned
<1>3. QED
  BY <1>1, <1>2 DEF Holds, Present

LEMMA AbsentHolds ==
  ASSUME NEW regs, NEW queue, NEW members, NEW e, NEW below, NEW entry,
         Holds(regs, queue, members, e, below, entry), NEW r \in Slots(e), regs[r] = Null,
         NEW e2, Absent(e, e2, r)
  PROVE  /\ Holds(regs, queue, members, e2, below, entry)
         /\ Owned(regs, queue, e2) = Owned(regs, queue, e)
<1>1. Slots(e2) = Slots(e) \ {r} /\ e2.own \subseteq e.own
  BY DEF Absent, Slots
<1>2. Owned(regs, queue, e2) = Owned(regs, queue, e)
  BY <1>1 DEF Owned
<1>3. \A s \in e2.near : regs[s] \in below
                         \/ (regs[s] = regs["final"] /\ regs[s] # Null /\ "final" \in Slots(e2))
  BY <1>1 DEF Absent, Holds
<1>4. QED
  BY <1>1, <1>2, <1>3 DEF Holds, Absent

-----------------------------------------------------------------------------
(* R is a set of triples, of a statement and the ownerships before and      *)
(* after it.  A program runs through triples of R, from e to e2.            *)
Runs(R, p, e, e2) ==
  \E S, A :
    /\ p \in Seq(S) /\ A[1] = e /\ A[Len(p) + 1] = e2
    /\ \A k \in 1 .. Len(p) : <<p[k], A[k], A[k + 1]>> \in R

(* The rules.  keep are the variables that have the body when the call      *)
(* returns.                                                                 *)
Creates(s, e, e2) == s.op = "new" /\ Gains(e, e2, s.to)
Looks(s, e, e2) == s.op = "read" /\ e2 = e
Frees(s, e, e2) == s.op = "free" /\ \E r \in e.own : s.reads = {r} /\ Drops(e, e2, r)
FreesAll(s, e, e2) == s.op = "free_all" /\ s.reads = {"queue"} /\ Queues(e, e2, 0)
Moves(s, e, e2) ==
  s.op = "move" /\ s.to \notin Slots(e) /\ \E d : Drops(e, d, s.from) /\ Gains(d, e2, s.to)
Renames(s, e, e2) ==
  /\ s.op = "alias" /\ s.to \in Variables \ Slots(e) /\ s.to # "final" /\ s.from \in Variables
  /\ Aliases(e, e2, s.to, s.from)
Pushes(s, e, e2) == s.op = "push" /\ \E d : Drops(e, d, s.from) /\ Queues(d, e2, 2)
Pops(s, e, e2) ==
  s.op = "pop" /\ \E d, q : Queues(e, d, q) /\ q = (IF e.queue = 2 THEN 2 ELSE 0) /\ Gains(d, e2, s.to)
Applies(s, e, e2) ==
  /\ s.op = "apply" /\ s.family \in {"ldlf", "regex", "prop"} /\ Gains(e, e2, s.to)
  /\ s.family = "regex" => "current_formula" \in Valid(e)
  /\ SameVisitor(s.family) => s.to # "current_formula"
Calls(s, e, e2) ==
  /\ s.op = "call" /\ Gains(e, e2, s.to)
  /\ s.function \in {"star", "dfa_accept_empty", "dfa_closure", "dfa_concatenate"}
  /\ s.args[1] \in Valid(e)
  /\ IF s.function = "dfa_concatenate" THEN Len(s.args) = 2 /\ s.args[2] \in Valid(e)
     ELSE Len(s.args) = 1
Returns(keep, s, e, e2) ==
  /\ s.op = "return" /\ s.from \in e.own /\ Slots(e) = {s.from} /\ e.queue = 0
  /\ keep \subseteq e.entry /\ e2.over = 1
Tests(R, s, e, e2) ==
  /\ s.op = "if_sink" /\ e2 = e
  /\ \E end : end.over = 1 /\ Runs(R, s.exit, e, end)
Guards(R, s, e, e2) ==
  /\ s.op = "if_not_null" /\ s.of \in Slots(e)
  /\ \E d : Present(e, d, s.of) /\ Runs(R, s.then, d, e2)
  /\ \E d : Absent(e, d, s.of) /\ Weaker(d, e2)
(* The members: a loop is entered if there is one, and entered again with   *)
(* what is known after a member.                                            *)
Visiting(R, s, e, e2) ==
  /\ s.op = "for_each" /\ e2.many = 0 /\ <<s, e2, e2>> \in R
  /\ e.many = 1 \/ Weaker(e, e2)
  /\ \E d : d.many = 0 /\ Weaker(e, d) /\ Runs(R, s.body, d, e2)
Repeats(R, s, e, e2) == s.op = "repeat" /\ e2 = e /\ Runs(R, s.body, e, e)
Merges(R, s, e, e2) == s.op = "while_several" /\ Queues(e, e2, 1) /\ Runs(R, s.body, e, e)

Rule(R, keep, s, e, e2) ==
  /\ s.reads \subseteq Valid(e) \cup {"queue"}
  /\ \/ Creates(s, e, e2) \/ Looks(s, e, e2) \/ Frees(s, e, e2) \/ FreesAll(s, e, e2)
     \/ Moves(s, e, e2) \/ Renames(s, e, e2) \/ Pushes(s, e, e2) \/ Pops(s, e, e2)
     \/ Applies(s, e, e2) \/ Calls(s, e, e2) \/ Returns(keep, s, e, e2)
     \/ Tests(R, s, e, e2) \/ Guards(R, s, e, e2) \/ Visiting(R, s, e, e2)
     \/ Repeats(R, s, e, e2) \/ Merges(R, s, e, e2)

Sound(R, keep) == \A s, e, e2 : <<s, e, e2>> \in R => Rule(R, keep, s, e, e2)
Step(keep, s, e, e2) == \E R : Sound(R, keep) /\ <<s, e, e2>> \in R
Typed(keep, p, e, e2) == \E R : Sound(R, keep) /\ Runs(R, p, e, e2)

-----------------------------------------------------------------------------
(* Runs.                                                                    *)
LEMMA RunsEmpty ==
  ASSUME NEW R, NEW e, NEW e2, Runs(R, <<>>, e, e2)
  PROVE  e = e2
<1>1. PICK S, A : /\ <<>> \in Seq(S) /\ A[1] = e /\ A[Len(<<>>) + 1] = e2
  BY DEF Runs
<1>2. Len(<<>>) = 0
  BY EmptySeq
<1>3. QED
  BY <1>1, <1>2

LEMMA RunsHead ==
  ASSUME NEW R, NEW p, NEW e, NEW e2, Runs(R, p, e, e2), p # <<>>
  PROVE  \E d : <<Head(p), e, d>> \in R /\ Runs(R, Tail(p), d, e2)
<1>1. PICK S, A : /\ p \in Seq(S) /\ A[1] = e /\ A[Len(p) + 1] = e2
                  /\ \A k \in 1 .. Len(p) : <<p[k], A[k], A[k + 1]>> \in R
  BY DEF Runs
<1>2. Len(p) \in Nat \ {0} /\ Head(p) = p[1]
  BY <1>1, EmptySeq
<1>3. /\ Tail(p) \in Seq(S) /\ Len(Tail(p)) = Len(p) - 1
      /\ \A k \in 1 .. Len(Tail(p)) : Tail(p)[k] = p[k + 1]
  BY <1>1, HeadTailProperties
<1> DEFINE B == [k \in Nat |-> A[k + 1]]
<1>4. <<Head(p), e, A[2]>> \in R
  BY <1>1, <1>2
<1>5. B[1] = A[2] /\ B[Len(Tail(p)) + 1] = e2
  BY <1>1, <1>2, <1>3
<1>6. \A k \in 1 .. Len(Tail(p)) : <<Tail(p)[k], B[k], B[k + 1]>> \in R
  <2> SUFFICES ASSUME NEW k \in 1 .. Len(Tail(p)) PROVE <<Tail(p)[k], B[k], B[k + 1]>> \in R
    OBVIOUS
  <2>1. k \in Nat /\ k + 1 \in Nat /\ k + 1 \in 1 .. Len(p)
    BY <1>2, <1>3
  <2>2. Tail(p)[k] = p[k + 1] /\ B[k] = A[k + 1] /\ B[k + 1] = A[(k + 1) + 1]
    BY <1>3, <2>1
  <2>3. QED
    BY <1>1, <2>1, <2>2
<1> HIDE DEF B
<1>7. Runs(R, Tail(p), A[2], e2)
  BY <1>3, <1>5, <1>6 DEF Runs
<1>8. QED
  BY <1>4, <1>7

LEMMA RunsConcat ==
  ASSUME NEW R, NEW p, NEW q, NEW e, NEW d, NEW e2, Runs(R, p, e, d), Runs(R, q, d, e2)
  PROVE  Runs(R, p \o q, e, e2)
<1>1. PICK S, A : /\ p \in Seq(S) /\ A[1] = e /\ A[Len(p) + 1] = d
                  /\ \A k \in 1 .. Len(p) : <<p[k], A[k], A[k + 1]>> \in R
  BY DEF Runs
<1>2. PICK T, B : /\ q \in Seq(T) /\ B[1] = d /\ B[Len(q) + 1] = e2
                  /\ \A k \in 1 .. Len(q) : <<q[k], B[k], B[k + 1]>> \in R
  BY DEF Runs
<1> DEFINE m == Len(p)
           n == Len(q)
           C == [k \in Nat |-> IF k <= m THEN A[k] ELSE B[k - m]]
<1>3. m \in Nat /\ n \in Nat
  BY <1>1, <1>2, LenProperties
<1>4. p \in Seq(S \cup T) /\ q \in Seq(S \cup T)
  BY <1>1, <1>2, SeqMonotonic
<1>5. /\ p \o q \in Seq(S \cup T) /\ Len(p \o q) = m + n
      /\ \A i \in 1 .. m + n : (p \o q)[i] = IF i <= m THEN p[i] ELSE q[i - m]
  BY <1>4, ConcatProperties
<1> HIDE DEF m, n
<1>6. \A k \in Nat : C[k] = IF k <= m THEN A[k] ELSE B[k - m]
  OBVIOUS
<1> HIDE DEF C
<1>7. A[m + 1] = d /\ B[1] = d
  BY <1>1, <1>2 DEF m
<1>8. C[1] = e
  <2>1. CASE m = 0
    <3>1. C[1] = B[1] /\ A[1] = d
      BY <1>6, <1>7, <2>1
    <3>2. QED
      BY <1>1, <1>7, <3>1
  <2>2. CASE m # 0
    <3>1. 1 \in Nat /\ 1 <= m
      BY <1>3, <2>2
    <3>2. QED
      BY <1>1, <1>6, <3>1
  <2>3. QED
    BY <2>1, <2>2
<1>9. C[(m + n) + 1] = e2
  <2>1. (m + n) + 1 \in Nat /\ ~((m + n) + 1 <= m) /\ ((m + n) + 1) - m = n + 1
    BY <1>3
  <2>2. C[(m + n) + 1] = B[((m + n) + 1) - m]
    BY <1>6, <2>1
  <2>3. B[n + 1] = e2
    BY <1>2 DEF n
  <2>4. QED
    BY <2>1, <2>2, <2>3
<1>10. ASSUME NEW k \in 1 .. m + n
       PROVE  <<(p \o q)[k], C[k], C[k + 1]>> \in R
  <2>1. CASE k < m
    <3>1. k \in 1 .. m /\ k \in Nat /\ k + 1 \in Nat /\ k <= m /\ k + 1 <= m
      BY <1>3, <2>1
    <3>2. (p \o q)[k] = p[k] /\ C[k] = A[k] /\ C[k + 1] = A[k + 1]
      BY <1>5, <1>6, <3>1
    <3>3. <<p[k], A[k], A[k + 1]>> \in R
      BY <1>1, <3>1 DEF m
    <3>4. QED
      BY <3>2, <3>3
  <2>2. CASE k = m
    <3>1. k \in 1 .. m /\ k \in Nat /\ k + 1 \in Nat /\ k <= m /\ ~(k + 1 <= m) /\ (k + 1) - m = 1
      BY <1>3, <2>2
    <3>2. (p \o q)[k] = p[k] /\ C[k] = A[k]
      BY <1>5, <1>6, <3>1
    <3>3. C[k + 1] = B[(k + 1) - m]
      BY <1>6, <3>1
    <3>4. <<p[k], A[k], A[k + 1]>> \in R
      BY <1>1, <3>1 DEF m
    <3>5. C[k + 1] = A[k + 1]
      BY <1>7, <2>2, <3>1, <3>3
    <3>6. QED
      BY <3>2, <3>4, <3>5
  <2>3. CASE k > m
    <3>1. /\ k - m \in 1 .. n /\ k \in Nat /\ k + 1 \in Nat /\ ~(k <= m) /\ ~(k + 1 <= m)
          /\ (k + 1) - m = (k - m) + 1
      BY <1>3, <2>3
    <3>2. (p \o q)[k] = q[k - m]
      BY <1>5, <3>1
    <3>3. C[k] = B[k - m] /\ C[k + 1] = B[(k + 1) - m]
      BY <1>6, <3>1
    <3>4. <<q[k - m], B[k - m], B[(k - m) + 1]>> \in R
      BY <1>2, <3>1 DEF n
    <3>5. C[k + 1] = B[(k - m) + 1]
      BY <3>1, <3>3
    <3>6. QED
      BY <3>2, <3>3, <3>4, <3>5
  <2>4. k < m \/ k = m \/ k > m
    BY <1>3
  <2>5. QED
    BY <2>1, <2>2, <2>3, <2>4
<1>11. QED
  BY <1>5, <1>8, <1>9, <1>10 DEF Runs

LEMMA RunsCons ==
  ASSUME NEW R, NEW s, NEW p, NEW S, p \in Seq(S), NEW e, NEW d, NEW e2,
         <<s, e, d>> \in R, Runs(R, p, d, e2)
  PROVE  Runs(R, <<s>> \o p, e, e2)
<1> DEFINE A == [k \in Nat |-> IF k = 1 THEN e ELSE d]
<1>1. <<s>> \in Seq({s}) /\ Len(<<s>>) = 1 /\ <<s>>[1] = s
  OBVIOUS
<1>2. A[1] = e /\ A[1 + 1] = d
  OBVIOUS
<1> HIDE DEF A
<1>3. \A k \in 1 .. 1 : <<<<s>>[k], A[k], A[k + 1]>> \in R
  BY <1>1, <1>2
<1>4. Runs(R, <<s>>, e, d)
  BY <1>1, <1>2, <1>3 DEF Runs
<1>5. QED
  BY <1>4, RunsConcat

LEMMA RunsWithin ==
  ASSUME NEW R, NEW T, R \subseteq T, NEW p, NEW e, NEW e2, Runs(R, p, e, e2)
  PROVE  Runs(T, p, e, e2)
  BY DEF Runs

(* Programs are sequences.                                                  *)
LEMMA RunsSequence ==
  ASSUME NEW R, NEW p, NEW e, NEW e2, Runs(R, p, e, e2)
  PROVE  \E S : p \in Seq(S)
  BY DEF Runs

LEMMA RunsAgain ==
  ASSUME NEW R, NEW p, p # <<>>, NEW e, NEW d, NEW e2, NEW S, p \in Seq(S),
         <<Head(p), e, d>> \in R, Runs(R, Tail(p), d, e2)
  PROVE  Runs(R, p, e, e2)
<1>1. Tail(p) \in Seq(S) /\ Head(p) \in S
  BY HeadTailProperties
<1>2. Runs(R, <<Head(p)>> \o Tail(p), e, e2)
  BY <1>1, RunsCons
<1>3. <<Head(p)>> \o Tail(p) = p
  <2>1. <<Head(p)>> \in Seq(S) /\ Len(<<Head(p)>>) = 1 /\ <<Head(p)>>[1] = Head(p)
    BY <1>1
  <2>2. /\ Len(Tail(p)) = Len(p) - 1 /\ Len(p) \in Nat
        /\ \A i \in 1 .. Len(Tail(p)) : Tail(p)[i] = p[i + 1]
    BY HeadTailProperties, LenProperties
  <2>3. /\ <<Head(p)>> \o Tail(p) \in Seq(S)
        /\ Len(<<Head(p)>> \o Tail(p)) = 1 + Len(Tail(p))
        /\ \A i \in 1 .. 1 + Len(Tail(p)) : (<<Head(p)>> \o Tail(p))[i] =
             IF i <= 1 THEN <<Head(p)>>[i] ELSE Tail(p)[i - 1]
    BY <1>1, <2>1, ConcatProperties
  <2>4. \A i \in 1 .. Len(p) : (<<Head(p)>> \o Tail(p))[i] = p[i]
    BY <2>1, <2>2, <2>3
  <2>5. QED
    BY <2>2, <2>3, <2>4, SeqEqual
<1>4. QED
  BY <1>2, <1>3

LEMMA RuleWithin ==
  ASSUME NEW R, NEW T, R \subseteq T, NEW keep, NEW s, NEW e, NEW e2, Rule(R, keep, s, e, e2)
  PROVE  Rule(T, keep, s, e, e2)
<1>1. \A p, d, d2 : Runs(R, p, d, d2) => Runs(T, p, d, d2)
  BY RunsWithin
<1>2. Tests(R, s, e, e2) => Tests(T, s, e, e2)
  BY <1>1 DEF Tests
<1>3. Guards(R, s, e, e2) => Guards(T, s, e, e2)
  BY <1>1 DEF Guards
<1>4. Visiting(R, s, e, e2) => Visiting(T, s, e, e2)
  BY <1>1 DEF Visiting
<1>5. Repeats(R, s, e, e2) => Repeats(T, s, e, e2)
  BY <1>1 DEF Repeats
<1>6. Merges(R, s, e, e2) => Merges(T, s, e, e2)
  BY <1>1 DEF Merges
<1>7. QED
  BY <1>2, <1>3, <1>4, <1>5, <1>6 DEF Rule

-----------------------------------------------------------------------------
(* Sound sets, and programs put together from statements.                   *)
LEMMA SoundUnion ==
  ASSUME NEW keep, NEW I, NEW f, \A i \in I : Sound(f[i], keep)
  PROVE  Sound(UNION {f[i] : i \in I}, keep)
<1> DEFINE R == UNION {f[i] : i \in I}
<1>1. ASSUME NEW s, NEW e, NEW e2, <<s, e, e2>> \in R
      PROVE  Rule(R, keep, s, e, e2)
  <2>1. PICK i \in I : <<s, e, e2>> \in f[i]
    BY <1>1
  <2>2. f[i] \subseteq R
    OBVIOUS
  <2> HIDE DEF R
  <2>3. Rule(f[i], keep, s, e, e2)
    BY <2>1 DEF Sound
  <2>4. QED
    BY <2>2, <2>3, RuleWithin
<1> HIDE DEF R
<1>2. Sound(R, keep)
  BY <1>1 DEF Sound
<1>3. QED
  BY <1>2 DEF R

(* A program of n statements, and the ownerships A before, between and      *)
(* behind them.                                                             *)
Tuple(p, n) == Len(p) = n /\ p \in Seq({p[k] : k \in 1 .. n})
Steps(keep, p, A, n) == \A k \in 1 .. n : Step(keep, p[k], A[k], A[k + 1])

LEMMA Straight ==
  ASSUME NEW keep, NEW p, NEW n, Tuple(p, n), NEW A, Steps(keep, p, A, n)
  PROVE  Typed(keep, p, A[1], A[n + 1])
<1> DEFINE Sets(k, R) == Sound(R, keep) /\ <<p[k], A[k], A[k + 1]>> \in R
           f == [k \in 1 .. Len(p) |-> CHOOSE R : Sets(k, R)]
           T == UNION {f[k] : k \in 1 .. Len(p)}
<1>0. n = Len(p) /\ \A k \in 1 .. Len(p) : Step(keep, p[k], A[k], A[k + 1])
  BY DEF Tuple, Steps
<1>1. ASSUME NEW k \in 1 .. Len(p)
      PROVE  Sets(k, f[k])
  <2>1. \E R : Sets(k, R)
    BY <1>0 DEF Step
  <2>2. f[k] = CHOOSE R : Sets(k, R)
    OBVIOUS
  <2> HIDE DEF Sets, f
  <2>3. QED
    BY <2>1, <2>2
<1>2. \A k \in 1 .. Len(p) : Sound(f[k], keep) /\ <<p[k], A[k], A[k + 1]>> \in f[k]
  BY <1>1
<1> HIDE DEF Sets, f
<1>3. Sound(T, keep)
  <2> HIDE DEF T
  <2>1. Sound(UNION {f[k] : k \in 1 .. Len(p)}, keep)
    BY <1>2, SoundUnion, ZenonT(30)
  <2>2. QED
    BY <2>1 DEF T
<1>4. \A k \in 1 .. Len(p) : <<p[k], A[k], A[k + 1]>> \in T
  BY <1>2
<1> HIDE DEF T
<1>5. Runs(T, p, A[1], A[Len(p) + 1])
  BY <1>4 DEF Runs, Tuple
<1>6. QED
  BY <1>0, <1>3, <1>5 DEF Typed

LEMMA Added ==
  ASSUME NEW keep, NEW R, Sound(R, keep), NEW s, NEW e, NEW e2, NEW more,
         more = {<<s, e, e2>>, <<s, e2, e2>>} \/ more = {<<s, e, e2>>},
         Rule(R \cup more, keep, s, e, e2),
         <<s, e2, e2>> \in more => Rule(R \cup more, keep, s, e2, e2)
  PROVE  Step(keep, s, e, e2)
<1>1. Sound(R \cup more, keep)
  <2> SUFFICES ASSUME NEW t, NEW d, NEW d2, <<t, d, d2>> \in R \cup more
               PROVE  Rule(R \cup more, keep, t, d, d2)
    BY DEF Sound
  <2>1. CASE <<t, d, d2>> \in R
    <3>1. Rule(R, keep, t, d, d2)
      BY <2>1 DEF Sound
    <3>2. R \subseteq R \cup more
      OBVIOUS
    <3>3. QED
      BY <3>1, <3>2, RuleWithin
  <2>2. CASE <<t, d, d2>> \in more
    <3>1. t = s /\ d2 = e2 /\ (d = e \/ d = e2)
      BY <2>2
    <3>2. QED
      BY <2>2, <3>1
  <2>3. QED
    BY <2>1, <2>2
<1>2. <<s, e, e2>> \in R \cup more
  OBVIOUS
<1>3. QED
  BY <1>1, <1>2 DEF Step

LEMMA Plain ==
  ASSUME NEW keep, NEW s, NEW e, NEW e2, Rule({}, keep, s, e, e2)
  PROVE  Step(keep, s, e, e2)
<1> DEFINE more == {<<s, e, e2>>}
<1>1. Sound({}, keep)
  BY DEF Sound
<1>2. Rule({} \cup more, keep, s, e, e2)
  <2>1. {} \subseteq {} \cup more
    OBVIOUS
  <2>2. QED
    BY <2>1, RuleWithin
<1>3. <<s, e2, e2>> \in more => Rule({} \cup more, keep, s, e2, e2)
  <2>1. <<s, e2, e2>> \in more => e2 = e
    OBVIOUS
  <2>2. QED
    BY <1>2, <2>1
<1> HIDE DEF more
<1>4. more = {<<s, e, e2>>}
  BY DEF more
<1>5. QED
  BY <1>1, <1>2, <1>3, <1>4, Added

(* A statement with one more triple, for itself.                            *)
LEMMA Itself ==
  ASSUME NEW keep, NEW R, Sound(R, keep), NEW s, NEW e, NEW e2, Rule(R, keep, s, e, e2)
  PROVE  Step(keep, s, e, e2)
<1> DEFINE more == {<<s, e, e2>>}
<1>1. Rule(R \cup more, keep, s, e, e2)
  <2>1. R \subseteq R \cup more
    OBVIOUS
  <2>2. QED
    BY <2>1, RuleWithin
<1>2. <<s, e2, e2>> \in more => Rule(R \cup more, keep, s, e2, e2)
  <2>1. <<s, e2, e2>> \in more => e2 = e
    OBVIOUS
  <2>2. QED
    BY <1>1, <2>1
<1>3. more = {<<s, e, e2>>}
  OBVIOUS
<1> HIDE DEF more
<1>4. QED
  BY <1>1, <1>2, <1>3, Added

LEMMA IfSinkStep ==
  ASSUME NEW keep, NEW r, NEW exit, NEW e, NEW end, r \in Valid(e),
         Typed(keep, exit, e, end), end.over = 1
  PROVE  Step(keep, IfSink(r, exit), e, e)
<1> DEFINE s == IfSink(r, exit)
<1>1. s.op = "if_sink" /\ s.exit = exit /\ s.reads = {r}
  BY DEF IfSink
<1>2. PICK R : Sound(R, keep) /\ Runs(R, exit, e, end)
  BY DEF Typed
<1> HIDE DEF s
<1>3. Tests(R, s, e, e)
  BY <1>1, <1>2 DEF Tests
<1>4. Rule(R, keep, s, e, e)
  BY <1>1, <1>3 DEF Rule
<1>5. Step(keep, s, e, e)
  BY <1>2, <1>4, Itself
<1>6. QED
  BY <1>5 DEF s

LEMMA IfNotNullStep ==
  ASSUME NEW keep, NEW r, NEW then, NEW e, NEW d, NEW d2, NEW e2, r \in Slots(e),
         Present(e, d, r), Typed(keep, then, d, e2), Absent(e, d2, r), Weaker(d2, e2)
  PROVE  Step(keep, IfNotNull(r, then), e, e2)
<1> DEFINE s == IfNotNull(r, then)
<1>1. s.op = "if_not_null" /\ s.then = then /\ s.of = r /\ s.reads = {}
  BY DEF IfNotNull
<1>2. PICK R : Sound(R, keep) /\ Runs(R, then, d, e2)
  BY DEF Typed
<1> HIDE DEF s
<1>3. Guards(R, s, e, e2)
  BY <1>1, <1>2 DEF Guards
<1>4. Rule(R, keep, s, e, e2)
  BY <1>1, <1>3 DEF Rule
<1>5. Step(keep, s, e, e2)
  BY <1>2, <1>4, Itself
<1>6. QED
  BY <1>5 DEF s

LEMMA ForEachStep ==
  ASSUME NEW keep, NEW body, NEW e, NEW d, NEW e2, Typed(keep, body, d, e2),
         Weaker(e, d), Weaker(e2, d), Weaker(e2, e2), e2.many = 0, d.many = 0,
         e.many = 1 \/ Weaker(e, e2)
  PROVE  Step(keep, ForEach(body), e, e2)
<1> DEFINE s == ForEach(body)
           more == {<<s, e, e2>>, <<s, e2, e2>>}
<1>1. s.op = "for_each" /\ s.body = body /\ s.reads = {}
  BY DEF ForEach
<1>2. PICK R : Sound(R, keep) /\ Runs(R, body, d, e2)
  BY DEF Typed
<1> HIDE DEF s
<1>3. R \subseteq R \cup more /\ <<s, e2, e2>> \in more
  OBVIOUS
<1>4. more = {<<s, e, e2>>, <<s, e2, e2>>}
  OBVIOUS
<1> HIDE DEF more
<1>5. Runs(R \cup more, s.body, d, e2)
  BY <1>1, <1>2, <1>3, RunsWithin
<1>6. Visiting(R \cup more, s, e, e2) /\ Visiting(R \cup more, s, e2, e2)
  BY <1>1, <1>3, <1>5 DEF Visiting
<1>7. Rule(R \cup more, keep, s, e, e2) /\ Rule(R \cup more, keep, s, e2, e2)
  BY <1>1, <1>6 DEF Rule
<1>8. Step(keep, s, e, e2)
  BY <1>2, <1>4, <1>7, Added
<1>9. QED
  BY <1>8 DEF s

LEMMA RepeatStep ==
  ASSUME NEW keep, NEW body, NEW e, Typed(keep, body, e, e)
  PROVE  Step(keep, Repeat(body), e, e)
<1> DEFINE s == Repeat(body)
<1>1. s.op = "repeat" /\ s.body = body /\ s.reads = {}
  BY DEF Repeat
<1>2. PICK R : Sound(R, keep) /\ Runs(R, body, e, e)
  BY DEF Typed
<1> HIDE DEF s
<1>3. Repeats(R, s, e, e)
  BY <1>1, <1>2 DEF Repeats
<1>4. Rule(R, keep, s, e, e)
  BY <1>1, <1>3 DEF Rule
<1>5. Step(keep, s, e, e)
  BY <1>2, <1>4, Itself
<1>6. QED
  BY <1>5 DEF s

LEMMA WhileSeveralStep ==
  ASSUME NEW keep, NEW body, NEW e, NEW e2, Typed(keep, body, e, e), Queues(e, e2, 1)
  PROVE  Step(keep, WhileSeveral(body), e, e2)
<1> DEFINE s == WhileSeveral(body)
<1>1. s.op = "while_several" /\ s.body = body /\ s.reads = {}
  BY DEF WhileSeveral
<1>2. PICK R : Sound(R, keep) /\ Runs(R, body, e, e)
  BY DEF Typed
<1> HIDE DEF s
<1>3. Merges(R, s, e, e2)
  BY <1>1, <1>2 DEF Merges
<1>4. Rule(R, keep, s, e, e2)
  BY <1>1, <1>3 DEF Rule
<1>5. Step(keep, s, e, e2)
  BY <1>2, <1>4, Itself
<1>6. QED
  BY <1>5 DEF s

-----------------------------------------------------------------------------
(* The statement that is next.                                              *)
LEMMA Kinds ==
  ASSUME NEW R, NEW keep, NEW s, NEW e, NEW d, Rule(R, keep, s, e, d)
  PROVE  /\ s.op = "new" => Creates(s, e, d)
         /\ s.op = "read" => Looks(s, e, d)
         /\ s.op = "free" => Frees(s, e, d)
         /\ s.op = "free_all" => FreesAll(s, e, d)
         /\ s.op = "move" => Moves(s, e, d)
         /\ s.op = "alias" => Renames(s, e, d)
         /\ s.op = "push" => Pushes(s, e, d)
         /\ s.op = "pop" => Pops(s, e, d)
         /\ s.op = "apply" => Applies(s, e, d)
         /\ s.op = "call" => Calls(s, e, d)
         /\ s.op = "return" => Returns(keep, s, e, d)
         /\ s.op = "if_sink" => Tests(R, s, e, d)
         /\ s.op = "if_not_null" => Guards(R, s, e, d)
         /\ s.op = "for_each" => Visiting(R, s, e, d)
         /\ s.op = "repeat" => Repeats(R, s, e, d)
         /\ s.op = "while_several" => Merges(R, s, e, d)
<1>1. Creates(s, e, d) => s.op = "new"
  BY DEF Creates
<1>2. Looks(s, e, d) => s.op = "read"
  BY DEF Looks
<1>3. Frees(s, e, d) => s.op = "free"
  BY DEF Frees
<1>4. FreesAll(s, e, d) => s.op = "free_all"
  BY DEF FreesAll
<1>5. Moves(s, e, d) => s.op = "move"
  BY DEF Moves
<1>6. Renames(s, e, d) => s.op = "alias"
  BY DEF Renames
<1>7. Pushes(s, e, d) => s.op = "push"
  BY DEF Pushes
<1>8. Pops(s, e, d) => s.op = "pop"
  BY DEF Pops
<1>9. Applies(s, e, d) => s.op = "apply"
  BY DEF Applies
<1>10. Calls(s, e, d) => s.op = "call"
  BY DEF Calls
<1>11. Returns(keep, s, e, d) => s.op = "return"
  BY DEF Returns
<1>12. Tests(R, s, e, d) => s.op = "if_sink"
  BY DEF Tests
<1>13. Guards(R, s, e, d) => s.op = "if_not_null"
  BY DEF Guards
<1>14. Visiting(R, s, e, d) => s.op = "for_each"
  BY DEF Visiting
<1>15. Repeats(R, s, e, d) => s.op = "repeat"
  BY DEF Repeats
<1>16. Merges(R, s, e, d) => s.op = "while_several"
  BY DEF Merges
<1>17. QED
  BY <1>1, <1>2, <1>3, <1>4, <1>5, <1>6, <1>7, <1>8, <1>9, <1>10, <1>11, <1>12, <1>13, <1>14, <1>15, <1>16 DEF Rule

-----------------------------------------------------------------------------
(* Frames.  A call that has returned, or the client, that has freed all, is *)
(* finished.                                                                *)
IsFrame(f) == DOMAIN f = {"todo", "regs", "queue", "members"}
Consists(f, t, regs, queue, members) ==
  IsFrame(f) /\ f.todo = t /\ f.regs = regs /\ f.queue = queue /\ f.members = members
Released(e) == e.over = 0 /\ Slots(e) = {} /\ e.queue = 0
Finished(i, end) == end.over = 1 \/ (i = 1 /\ Released(end))
Program(keep, p, e, i) == \E end : Typed(keep, p, e, end) /\ Finished(i, end)
Has(f, e) == Owned(f.regs, f.queue, e)
Knows(f, e, below, entry) == Holds(f.regs, f.queue, f.members, e, below, entry)
Fits(f, e, below, entry, keep, i) ==
  IsFrame(f) /\ Knows(f, e, below, entry) /\ Program(keep, f.todo, e, i)

(* Behind the first statement of a program, what is known is d.             *)
Begins(R, keep, p, e, d, i) ==
  /\ p # <<>> /\ \E S : p \in Seq(S)
  /\ Sound(R, keep) /\ <<Head(p), e, d>> \in R /\ Rule(R, keep, Head(p), e, d)
  /\ \E end : Runs(R, Tail(p), d, end) /\ Finished(i, end)

Ready(f, e, below, entry, keep, i, R, d) ==
  Fits(f, e, below, entry, keep, i) /\ Begins(R, keep, f.todo, e, d, i)

LEMMA FirstStatement ==
  ASSUME NEW keep, NEW p, NEW e, NEW i, Program(keep, p, e, i), p # <<>>
  PROVE  \E R, d : Begins(R, keep, p, e, d, i)
<1>1. PICK end : Typed(keep, p, e, end) /\ Finished(i, end)
  BY DEF Program
<1>2. PICK R : Sound(R, keep) /\ Runs(R, p, e, end)
  BY <1>1 DEF Typed
<1>3. PICK d : <<Head(p), e, d>> \in R /\ Runs(R, Tail(p), d, end)
  BY <1>2, RunsHead
<1>4. Rule(R, keep, Head(p), e, d)
  BY <1>2, <1>3 DEF Sound
<1>5. \E S : p \in Seq(S)
  BY <1>2, RunsSequence
<1>6. QED
  BY <1>1, <1>2, <1>3, <1>4, <1>5 DEF Begins

LEMMA TheRest ==
  ASSUME NEW R, NEW keep, NEW p, NEW e, NEW d, NEW i, Begins(R, keep, p, e, d, i)
  PROVE  Program(keep, Tail(p), d, i)
  BY DEF Begins, Program, Typed

LEMMA NotOver ==
  ASSUME NEW f, NEW e, NEW below, NEW entry, NEW keep, NEW i,
         Fits(f, e, below, entry, keep, i), f.todo = <<>>
  PROVE  i = 1 /\ Released(e)
<1>1. PICK end : Typed(keep, f.todo, e, end) /\ Finished(i, end)
  BY DEF Fits, Program
<1>2. PICK R : Runs(R, <<>>, e, end)
  BY <1>1 DEF Typed
<1>3. e = end
  BY <1>2, RunsEmpty
<1>4. e.over = 0
  BY DEF Fits, Knows, Holds
<1>5. QED
  BY <1>1, <1>3, <1>4 DEF Finished

LEMMA FrameShape ==
  ASSUME NEW f, IsFrame(f), NEW t, NEW r, NEW h, NEW q, NEW m
  PROVE  /\ Consists([f EXCEPT !.todo = t, !.regs[r] = h],
                     t, Put(f.regs, r, h), f.queue, f.members)
         /\ Consists([f EXCEPT !.todo = t, !.queue = q], t, f.regs, q, f.members)
         /\ Consists([f EXCEPT !.todo = t], t, f.regs, f.queue, f.members)
         /\ Consists([f EXCEPT !.todo = t, !.members = m], t, f.regs, f.queue, m)
         /\ Consists([f EXCEPT !.todo = t, !.queue = q, !.regs[r] = h],
                     t, Put(f.regs, r, h), q, f.members)
         /\ Consists([f EXCEPT !.todo = t, !.regs = h], t, h, f.queue, f.members)
  BY DEF IsFrame, Consists, Put

-----------------------------------------------------------------------------
(* The statements of a frame: f becomes g, of which d is known.             *)
LEMMA Fitting ==
  ASSUME NEW g, NEW t, NEW regs, NEW queue, NEW members, NEW d, NEW below, NEW entry, NEW keep, NEW i,
         Consists(g, t, regs, queue, members), Holds(regs, queue, members, d, below, entry),
         Program(keep, t, d, i)
  PROVE  Fits(g, d, below, entry, keep, i) /\ Has(g, d) = Owned(regs, queue, d)
  BY DEF Consists, Fits, Knows, Has

Into(f, r) == r = Head(f.todo).to
Fresh(h, below, held) == h \in Handles /\ h \notin below /\ h \notin held

LEMMA Created ==
  ASSUME NEW f, NEW e, NEW below, NEW entry, NEW keep, NEW i, NEW R, NEW d, NEW g,
         Ready(f, e, below, entry, keep, i, R, d), NEW h,
         NEW r, Into(f, r), Gains(e, d, r), Fresh(h, below, Has(f, e)),
         Consists(g, Tail(f.todo), Put(f.regs, r, h), f.queue, f.members)
  PROVE  Fits(g, d, below, entry, keep, i) /\ Has(g, d) = Has(f, e) \cup {h}
<1>1. Program(keep, Tail(f.todo), d, i)
  BY TheRest DEF Ready
<1>2. Knows(f, e, below, entry)
  BY DEF Ready, Fits
<1>3. /\ Holds(Put(f.regs, r, h), f.queue, f.members, d, below, entry)
      /\ Owned(Put(f.regs, r, h), f.queue, d) = Has(f, e) \cup {h}
  BY <1>2, Assigned DEF Fresh, Into, Knows, Has
<1>4. QED
  BY <1>1, <1>3, Fitting

LEMMA Looked ==
  ASSUME NEW f, NEW e, NEW below, NEW entry, NEW keep, NEW i, NEW R, NEW d, NEW g,
         Ready(f, e, below, entry, keep, i, R, d),
         e = d, Consists(g, Tail(f.todo), f.regs, f.queue, f.members)
  PROVE  Fits(g, d, below, entry, keep, i) /\ Has(g, d) = Has(f, e)
<1>1. Program(keep, Tail(f.todo), d, i)
  BY TheRest DEF Ready
<1>2. QED
  BY <1>1, Fitting DEF Ready, Fits, Knows, Has

LEMMA Freed ==
  ASSUME NEW f, NEW e, NEW below, NEW entry, NEW keep, NEW i, NEW R, NEW d, NEW g,
         Ready(f, e, below, entry, keep, i, R, d), NEW r,
         Frees(Head(f.todo), e, d), r \in Head(f.todo).reads,
         Consists(g, Tail(f.todo), Put(f.regs, r, Null), f.queue, f.members)
  PROVE  /\ Fits(g, d, below, entry, keep, i) /\ Has(g, d) = Has(f, e) \ {f.regs[r]}
         /\ f.regs[r] \notin below
<1>1. Program(keep, Tail(f.todo), d, i)
  BY TheRest DEF Ready
<1>2. Knows(f, e, below, entry)
  BY DEF Ready, Fits
<1>3. r \in e.own /\ Drops(e, d, r)
  BY DEF Frees
<1>4. /\ Holds(Put(f.regs, r, Null), f.queue, f.members, d, below, entry)
      /\ Owned(Put(f.regs, r, Null), f.queue, d) = Has(f, e) \ {f.regs[r]}
      /\ f.regs[r] \in Has(f, e)
  BY <1>2, <1>3, Dropped DEF Knows, Has
<1>5. f.regs[r] \notin below
  BY <1>2, <1>4 DEF Knows, Holds, Has
<1>6. QED
  BY <1>1, <1>4, <1>5, Fitting

LEMMA FreedAll ==
  ASSUME NEW f, NEW e, NEW below, NEW entry, NEW keep, NEW i, NEW R, NEW d, NEW g,
         Ready(f, e, below, entry, keep, i, R, d),
         Queues(e, d, 0), Consists(g, Tail(f.todo), f.regs, {}, f.members)
  PROVE  /\ Fits(g, d, below, entry, keep, i) /\ Has(g, d) = Has(f, e) \ f.queue
         /\ f.queue \cap below = {}
<1>1. Program(keep, Tail(f.todo), d, i)
  BY TheRest DEF Ready
<1>2. Knows(f, e, below, entry)
  BY DEF Ready, Fits
<1>3. /\ Holds(f.regs, {}, f.members, d, below, entry)
      /\ Owned(f.regs, {}, d) = Has(f, e) \ f.queue /\ f.queue \subseteq Has(f, e)
  BY <1>2, QueueFreed DEF Knows, Has
<1>4. f.queue \cap below = {}
  BY <1>2, <1>3 DEF Knows, Holds, Has
<1>5. QED
  BY <1>1, <1>3, <1>4, Fitting

LEMMA Moved ==
  ASSUME NEW f, NEW e, NEW below, NEW entry, NEW keep, NEW i, NEW R, NEW d, NEW g,
         Ready(f, e, below, entry, keep, i, R, d), NEW to, NEW from,
         to = Head(f.todo).to, from = Head(f.todo).from, Moves(Head(f.todo), e, d),
         Consists(g, Tail(f.todo), Put(Put(f.regs, to, f.regs[from]), from, Null),
                  f.queue, f.members)
  PROVE  Fits(g, d, below, entry, keep, i) /\ Has(g, d) = Has(f, e)
<1>1. Program(keep, Tail(f.todo), d, i)
  BY TheRest DEF Ready
<1>2. Knows(f, e, below, entry)
  BY DEF Ready, Fits
<1>3. PICK c : Drops(e, c, from) /\ Gains(c, d, to) /\ to \notin Slots(e)
  BY DEF Moves
<1> DEFINE h == f.regs[from]
           a == Put(f.regs, from, Null)
<1>4. /\ Holds(a, f.queue, f.members, c, below, entry)
      /\ Owned(a, f.queue, c) = Has(f, e) \ {h} /\ h \in Has(f, e) /\ h \in Handles
  BY <1>2, <1>3, Dropped DEF Knows, Has
<1>5. h \notin below /\ h \notin Owned(a, f.queue, c)
  BY <1>2, <1>4 DEF Knows, Holds, Has
<1> HIDE DEF h, a
<1>6. /\ Holds(Put(a, to, h), f.queue, f.members, d, below, entry)
      /\ Owned(Put(a, to, h), f.queue, d) = Owned(a, f.queue, c) \cup {h}
  BY <1>3, <1>4, <1>5, Assigned
<1>7. from # to
  BY <1>3 DEF Drops, Slots
<1>8. from \in Variables /\ to \in Variables /\ f.regs \in [Variables -> Handles \cup {Null}]
  BY <1>2, <1>3 DEF Drops, Gains, Knows, Holds, Slots
<1>9. Put(a, to, h) = Put(Put(f.regs, to, f.regs[from]), from, Null)
  BY <1>7, <1>8 DEF a, h, Put
<1>10. Owned(Put(a, to, h), f.queue, d) = Has(f, e)
  BY <1>4, <1>6
<1>11. Consists(g, Tail(f.todo), Put(a, to, h), f.queue, f.members)
  BY <1>9
<1>12. QED
  BY <1>1, <1>6, <1>10, <1>11, Fitting

LEMMA Renamed ==
  ASSUME NEW f, NEW e, NEW below, NEW entry, NEW keep, NEW i, NEW R, NEW d, NEW g,
         Ready(f, e, below, entry, keep, i, R, d), NEW to, NEW from,
         to = Head(f.todo).to, from = Head(f.todo).from, Renames(Head(f.todo), e, d),
         Consists(g, Tail(f.todo), Put(f.regs, to, f.regs[from]), f.queue, f.members)
  PROVE  Fits(g, d, below, entry, keep, i) /\ Has(g, d) = Has(f, e)
<1>1. Program(keep, Tail(f.todo), d, i)
  BY TheRest DEF Ready
<1>2. Knows(f, e, below, entry)
  BY DEF Ready, Fits
<1>3. to \in Variables \ Slots(e) /\ to # "final" /\ from \in Variables /\ Aliases(e, d, to, from)
  BY DEF Renames
<1>4. /\ Holds(Put(f.regs, to, f.regs[from]), f.queue, f.members, d, below, entry)
      /\ Owned(Put(f.regs, to, f.regs[from]), f.queue, d) = Has(f, e)
  BY <1>2, <1>3, Aliased DEF Knows, Has
<1>5. QED
  BY <1>1, <1>4, Fitting

Adds(f, from, more) == from = Head(f.todo).from /\ more = f.queue \cup {f.regs[from]}
Takes(f, to, h, left) == to = Head(f.todo).to /\ h \in f.queue /\ left = f.queue \ {h}

LEMMA Pushed ==
  ASSUME NEW f, NEW e, NEW below, NEW entry, NEW keep, NEW i, NEW R, NEW d, NEW g,
         Ready(f, e, below, entry, keep, i, R, d), NEW from,
         NEW more, Adds(f, from, more), Pushes(Head(f.todo), e, d),
         Consists(g, Tail(f.todo), Put(f.regs, from, Null), more, f.members)
  PROVE  Fits(g, d, below, entry, keep, i) /\ Has(g, d) = Has(f, e)
<1>1. Program(keep, Tail(f.todo), d, i)
  BY TheRest DEF Ready
<1>2. Knows(f, e, below, entry)
  BY DEF Ready, Fits
<1>3. PICK c : Drops(e, c, from) /\ Queues(c, d, 2)
  BY DEF Pushes, Adds
<1> DEFINE h == f.regs[from]
           a == Put(f.regs, from, Null)
<1>4. /\ Holds(a, f.queue, f.members, c, below, entry)
      /\ Owned(a, f.queue, c) = Has(f, e) \ {h} /\ h \in Has(f, e) /\ h \in Handles
  BY <1>2, <1>3, Dropped DEF Knows, Has
<1>5. h \notin below /\ h \notin Owned(a, f.queue, c)
  BY <1>2, <1>4 DEF Knows, Holds, Has
<1> HIDE DEF h, a
<1>6. /\ Holds(a, f.queue \cup {h}, f.members, d, below, entry)
      /\ Owned(a, f.queue \cup {h}, d) = Owned(a, f.queue, c) \cup {h}
  BY <1>3, <1>4, <1>5, Enqueued
<1>7. Owned(a, f.queue, c) \cup {h} = Has(f, e)
  BY <1>4
<1>8. Consists(g, Tail(f.todo), a, f.queue \cup {h}, f.members)
  BY DEF a, h, Adds
<1>9. QED
  BY <1>1, <1>6, <1>7, <1>8, Fitting

LEMMA Popped ==
  ASSUME NEW f, NEW e, NEW below, NEW entry, NEW keep, NEW i, NEW R, NEW d, NEW g,
         Ready(f, e, below, entry, keep, i, R, d), NEW to, NEW h,
         NEW left, Takes(f, to, h, left), Pops(Head(f.todo), e, d),
         Consists(g, Tail(f.todo), Put(f.regs, to, h), left, f.members)
  PROVE  Fits(g, d, below, entry, keep, i) /\ Has(g, d) = Has(f, e)
<1>1. Program(keep, Tail(f.todo), d, i)
  BY TheRest DEF Ready
<1>2. Knows(f, e, below, entry)
  BY DEF Ready, Fits
<1>3. PICK c, q : Queues(e, c, q) /\ q = (IF e.queue = 2 THEN 2 ELSE 0) /\ Gains(c, d, to)
  BY DEF Pops, Takes
<1>4. /\ Holds(f.regs, left, f.members, c, below, entry)
      /\ Owned(f.regs, left, c) = Has(f, e) \ {h} /\ h \in Has(f, e) /\ h \in Handles
  BY <1>2, <1>3, Dequeued DEF Knows, Has, Takes
<1>5. h \notin below /\ h \notin Owned(f.regs, left, c)
  BY <1>2, <1>4 DEF Knows, Holds, Has
<1>6. /\ Holds(Put(f.regs, to, h), left, f.members, d, below, entry)
      /\ Owned(Put(f.regs, to, h), left, d) = Owned(f.regs, left, c) \cup {h}
  BY <1>3, <1>4, <1>5, Assigned
<1>7. Owned(f.regs, left, c) \cup {h} = Has(f, e)
  BY <1>4
<1>8. Owned(Put(f.regs, to, h), left, d) = Has(f, e)
  BY <1>6, <1>7
<1>9. QED
  BY <1>1, <1>6, <1>8, Fitting

(* Loops: the body, and then the loop again.                                *)
LEMMA Iteration ==
  ASSUME NEW keep, NEW p, NEW e, NEW i, NEW R, NEW d, NEW body, NEW c, NEW x,
         Begins(R, keep, p, e, d, i), Runs(R, body, c, x), <<Head(p), x, d>> \in R
  PROVE  Program(keep, body \o p, c, i)
<1>1. PICK end : Runs(R, Tail(p), d, end) /\ Finished(i, end)
  BY DEF Begins
<1>2. PICK S : p \in Seq(S) /\ p # <<>>
  BY DEF Begins
<1>3. Runs(R, p, x, end)
  BY <1>1, <1>2, RunsAgain
<1>4. Runs(R, body \o p, c, end)
  BY <1>3, RunsConcat
<1>5. QED
  BY <1>1, <1>4 DEF Begins, Program, Typed

LEMMA Visited ==
  ASSUME NEW f, NEW e, NEW below, NEW entry, NEW keep, NEW i, NEW R, NEW d, NEW g,
         Ready(f, e, below, entry, keep, i, R, d), NEW s, s = Head(f.todo), Visiting(R, s, e, d), f.members > 0,
         Consists(g, s.body \o f.todo, f.regs, f.queue, f.members - 1)
  PROVE  \E c : Fits(g, c, below, entry, keep, i) /\ Has(g, c) = Has(f, e)
<1>1. PICK c : c.many = 0 /\ Weaker(e, c) /\ Runs(R, s.body, c, d)
  BY DEF Visiting
<1>2. Program(keep, s.body \o f.todo, c, i)
  BY <1>1, Iteration DEF Ready, Visiting
<1>3. Knows(f, e, below, entry)
  BY DEF Ready, Fits
<1>4. /\ Holds(f.regs, f.queue, f.members, c, below, entry)
      /\ Owned(f.regs, f.queue, c) = Has(f, e)
  BY <1>1, <1>3, Weakened DEF Knows, Has
<1>5. f.members - 1 \in Nat
  BY <1>4 DEF Holds
<1>6. Holds(f.regs, f.queue, f.members - 1, c, below, entry)
  BY <1>1, <1>4, <1>5 DEF Holds
<1>7. QED
  BY <1>2, <1>4, <1>6, Fitting

LEMMA AllVisited ==
  ASSUME NEW f, NEW e, NEW below, NEW entry, NEW keep, NEW i, NEW R, NEW d, NEW g,
         Ready(f, e, below, entry, keep, i, R, d), Visiting(R, Head(f.todo), e, d), f.members = 0,
         Consists(g, Tail(f.todo), f.regs, f.queue, f.members)
  PROVE  Fits(g, d, below, entry, keep, i) /\ Has(g, d) = Has(f, e)
<1>1. Program(keep, Tail(f.todo), d, i)
  BY TheRest DEF Ready
<1>2. Knows(f, e, below, entry)
  BY DEF Ready, Fits
<1>3. Weaker(e, d)
  BY <1>2 DEF Visiting, Knows, Holds
<1>4. /\ Holds(f.regs, f.queue, f.members, d, below, entry)
      /\ Owned(f.regs, f.queue, d) = Has(f, e)
  BY <1>2, <1>3, Weakened DEF Knows, Has
<1>5. QED
  BY <1>1, <1>4, Fitting

LEMMA Repeated ==
  ASSUME NEW f, NEW e, NEW below, NEW entry, NEW keep, NEW i, NEW R, NEW d, NEW g,
         Ready(f, e, below, entry, keep, i, R, d), NEW s, s = Head(f.todo),
         Repeats(R, s, e, d) \/ Merges(R, s, e, d),
         Consists(g, s.body \o f.todo, f.regs, f.queue, f.members)
  PROVE  Fits(g, e, below, entry, keep, i) /\ Has(g, e) = Has(f, e)
<1>1. Runs(R, s.body, e, e) /\ <<Head(f.todo), e, d>> \in R
  BY DEF Ready, Repeats, Merges, Begins
<1>2. Program(keep, s.body \o f.todo, e, i)
  BY <1>1, Iteration DEF Ready
<1>3. QED
  BY <1>2, Fitting DEF Ready, Fits, Knows, Has

LEMMA Merged ==
  ASSUME NEW f, NEW e, NEW below, NEW entry, NEW keep, NEW i, NEW R, NEW d, NEW g,
         Ready(f, e, below, entry, keep, i, R, d), Merges(R, Head(f.todo), e, d), Cardinality(f.queue) <= 1,
         Consists(g, Tail(f.todo), f.regs, f.queue, f.members)
  PROVE  Fits(g, d, below, entry, keep, i) /\ Has(g, d) = Has(f, e)
<1>1. Program(keep, Tail(f.todo), d, i)
  BY TheRest DEF Ready
<1>2. Holds(f.regs, f.queue, f.members, e, below, entry)
  BY DEF Ready, Fits, Knows
<1>3. /\ d.own = e.own /\ d.opt = e.opt /\ d.queue = 1 /\ d.ref = e.ref /\ d.near = e.near
      /\ d.entry = e.entry /\ d.many = e.many /\ d.over = 0 /\ Slots(d) = Slots(e)
  BY DEF Merges, Queues, Owns, Same, Slots
<1>4. \A h, k \in f.queue : h = k
  <2>1. IsFiniteSet(f.queue) /\ Cardinality(f.queue) \in Nat
    BY <1>2, FS_CardinalityType DEF Holds
  <2>2. CASE Cardinality(f.queue) = 0
    BY <2>1, <2>2, FS_EmptySet
  <2>3. CASE Cardinality(f.queue) = 1
    BY <2>1, <2>3, FS_Singleton
  <2>4. QED
    BY <2>1, <2>2, <2>3
<1>5. Owned(f.regs, f.queue, d) = Has(f, e)
  BY <1>3 DEF Owned, Has
<1>6. Holds(f.regs, f.queue, f.members, d, below, entry)
  BY <1>2, <1>3, <1>4, <1>5 DEF Holds, Has
<1>7. QED
  BY <1>1, <1>5, <1>6, Fitting

LEMMA SinkFound ==
  ASSUME NEW f, NEW e, NEW below, NEW entry, NEW keep, NEW i, NEW R, NEW d, NEW g,
         Ready(f, e, below, entry, keep, i, R, d), NEW s, s = Head(f.todo), Tests(R, s, e, d),
         Consists(g, s.exit, f.regs, f.queue, f.members)
  PROVE  Fits(g, e, below, entry, keep, i) /\ Has(g, e) = Has(f, e)
<1>1. Program(keep, s.exit, e, i)
  BY DEF Ready, Tests, Begins, Program, Typed, Finished
<1>2. QED
  BY <1>1, Fitting DEF Ready, Fits, Knows, Has

LEMMA NotNull ==
  ASSUME NEW f, NEW e, NEW below, NEW entry, NEW keep, NEW i, NEW R, NEW d, NEW g,
         Ready(f, e, below, entry, keep, i, R, d), NEW s, s = Head(f.todo), Guards(R, s, e, d), f.regs[s.of] # Null,
         Consists(g, s.then \o Tail(f.todo), f.regs, f.queue, f.members)
  PROVE  \E c : Fits(g, c, below, entry, keep, i) /\ Has(g, c) = Has(f, e)
<1>1. PICK c : Present(e, c, s.of) /\ Runs(R, s.then, c, d)
  BY DEF Guards
<1>2. s.of \in Slots(e)
  BY DEF Guards
<1>3. PICK end : Runs(R, Tail(f.todo), d, end) /\ Finished(i, end)
  BY DEF Ready, Begins
<1>4. Runs(R, s.then \o Tail(f.todo), c, end)
  BY <1>1, <1>3, RunsConcat
<1>5. Program(keep, s.then \o Tail(f.todo), c, i)
  BY <1>3, <1>4 DEF Ready, Begins, Program, Typed
<1>6. Knows(f, e, below, entry)
  BY DEF Ready, Fits
<1>7. /\ Holds(f.regs, f.queue, f.members, c, below, entry)
      /\ Owned(f.regs, f.queue, c) = Has(f, e)
  BY <1>1, <1>2, <1>6, PresentHolds DEF Knows, Has
<1>8. QED
  BY <1>5, <1>7, Fitting

LEMMA IsNull ==
  ASSUME NEW f, NEW e, NEW below, NEW entry, NEW keep, NEW i, NEW R, NEW d, NEW g,
         Ready(f, e, below, entry, keep, i, R, d), NEW s, s = Head(f.todo), Guards(R, s, e, d), f.regs[s.of] = Null,
         Consists(g, Tail(f.todo), f.regs, f.queue, f.members)
  PROVE  Fits(g, d, below, entry, keep, i) /\ Has(g, d) = Has(f, e)
<1>1. PICK c : Absent(e, c, s.of) /\ Weaker(c, d)
  BY DEF Guards
<1>2. s.of \in Slots(e)
  BY DEF Guards
<1>3. Program(keep, Tail(f.todo), d, i)
  BY TheRest DEF Ready
<1>4. Knows(f, e, below, entry)
  BY DEF Ready, Fits
<1>5. /\ Holds(f.regs, f.queue, f.members, c, below, entry)
      /\ Owned(f.regs, f.queue, c) = Has(f, e)
  BY <1>1, <1>2, <1>4, AbsentHolds DEF Knows, Has
<1>6. /\ Holds(f.regs, f.queue, f.members, d, below, entry)
      /\ Owned(f.regs, f.queue, d) = Has(f, e)
  BY <1>1, <1>5, Weakened
<1>7. QED
  BY <1>3, <1>6, Fitting

(* What a call hands on.                                                    *)
LEMMA Returned ==
  ASSUME NEW f, NEW e, NEW below, NEW entry, NEW keep, NEW s, NEW d,
         Knows(f, e, below, entry), Returns(keep, s, e, d)
  PROVE  /\ f.regs[s.from] \in Handles /\ Has(f, e) = {f.regs[s.from]}
         /\ f.regs[s.from] \notin below
         /\ \A r \in keep : f.regs[r] = entry
<1>1. /\ s.from \in Slots(e) /\ s.from \in e.own /\ Slots(e) = {s.from} /\ f.queue = {}
      /\ keep \subseteq e.entry
  BY DEF Returns, Slots, Knows, Holds
<1>2. s.from \in Variables /\ f.regs[s.from] # Null /\ f.regs[s.from] \in Handles
  BY <1>1 DEF Knows, Holds
<1>3. Has(f, e) = {f.regs[s.from]}
  BY <1>1, <1>2 DEF Has, Owned
<1>4. QED
  BY <1>1, <1>2, <1>3 DEF Knows, Holds, Has

-----------------------------------------------------------------------------
(* The stack.  env gives each call its ownership.  The calls below the      *)
(* innermost one wait for the value of a visit or of a function.            *)
Below(s, env, i) == UNION {Has(s[j], env[j]) : j \in 1 .. i - 1}
Sharing(s, i) ==
  i > 1 /\ Head(s[i - 1].todo).op = "apply" /\ SameVisitor(Head(s[i - 1].todo).family)
Entry(s, i) == IF Sharing(s, i) THEN s[i - 1].regs["current_formula"] ELSE Null
Keep(s, i) ==
  IF i = 1 THEN {"nobody"} ELSE IF Sharing(s, i) THEN {"current_formula"} ELSE {}
Fine(s, env, i) ==
  Fits(s[i], env[i], Below(s, env, i), Entry(s, i), Keep(s, i), i)
Suspended(f) == f.todo # <<>> /\ Head(f.todo).op \in {"apply", "call"}
IsStack(s) == \E S : s \in Seq(S)
Owning(s, env, allocated) ==
  /\ IsStack(s) /\ Len(s) \in Nat /\ Len(s) >= 1
  /\ \A i \in 1 .. Len(s) : Fine(s, env, i)
  /\ \A i \in 1 .. Len(s) : i < Len(s) => Suspended(s[i])
  /\ allocated = Below(s, env, Len(s) + 1)

(* Every automaton that is allocated belongs to one call.                   *)
Inv == \E env : Owning(stack, env, live)

Alike(s, env, t, env2, i) == \A j \in 1 .. i : j < i => s[j] = t[j] /\ env[j] = env2[j]
SameBelow(s, env, t, env2, i) ==
  Below(s, env, i) = Below(t, env2, i) /\ Entry(s, i) = Entry(t, i) /\ Keep(s, i) = Keep(t, i)

LEMMA Agreeing ==
  ASSUME NEW s, NEW t, NEW env, NEW env2, NEW i \in Nat, i >= 1, Alike(s, env, t, env2, i)
  PROVE  SameBelow(s, env, t, env2, i)
<1>1. \A j \in 1 .. i - 1 : Has(s[j], env[j]) = Has(t[j], env2[j])
  BY DEF Alike
<1>2. Below(s, env, i) = Below(t, env2, i)
  BY <1>1 DEF Below
<1>3. i > 1 => s[i - 1] = t[i - 1]
  BY DEF Alike
<1>4. Sharing(s, i) = Sharing(t, i)
  BY <1>3 DEF Sharing
<1>5. Entry(s, i) = Entry(t, i)
  BY <1>3, <1>4 DEF Entry, Sharing
<1>6. Keep(s, i) = Keep(t, i)
  BY <1>4 DEF Keep
<1>7. QED
  BY <1>2, <1>5, <1>6 DEF SameBelow

LEMMA BelowNext ==
  ASSUME NEW s, NEW env, NEW i \in Nat, i >= 1, NEW k, k = i + 1
  PROVE  Below(s, env, k) = Below(s, env, i) \cup Has(s[i], env[i])
<1>1. 1 .. k - 1 = (1 .. i - 1) \cup {i}
  OBVIOUS
<1>2. QED
  BY <1>1 DEF Below

LEMMA FrontOf ==
  ASSUME NEW s, IsStack(s), Len(s) \in Nat, Len(s) >= 1
  PROVE  /\ IsStack(Front(s)) /\ Len(Front(s)) = Len(s) - 1
         /\ \A j \in 1 .. Len(s) : j < Len(s) => Front(s)[j] = s[j]
<1>1. PICK S : s \in Seq(S)
  BY DEF IsStack
<1>2. /\ Len(s) - 1 \in Int /\ 1 \in Int /\ \A i \in 1 .. Len(s) - 1 : s[i] \in S
  BY <1>1, ElementOfSeq
<1> DEFINE k == Len(s) - 1
<1>3. /\ SubSeq(s, 1, k) \in Seq(S) /\ Len(SubSeq(s, 1, k)) = (IF 1 <= k THEN k - 1 + 1 ELSE 0)
      /\ \A i \in 1 .. k - 1 + 1 : SubSeq(s, 1, k)[i] = s[1 + i - 1]
  <2> HIDE DEF k
  <2>1. k \in Int /\ 1 \in Int /\ \A i \in 1 .. k : s[i] \in S
    BY <1>2 DEF k
  <2>2. QED
    BY <2>1, SubSeqProperties
<1>4. k \in Nat /\ k = Len(s) - 1 /\ Front(s) = SubSeq(s, 1, k)
  BY DEF Front
<1> HIDE DEF k
<1>5. Len(Front(s)) = k /\ Front(s) \in Seq(S)
  <2>1. (IF 1 <= k THEN k - 1 + 1 ELSE 0) = k
    BY <1>4
  <2>2. Len(SubSeq(s, 1, k)) = k /\ SubSeq(s, 1, k) \in Seq(S)
    BY <1>3, <2>1
  <2>3. QED
    BY <1>4, <2>2
<1>6. \A j \in 1 .. Len(s) : j < Len(s) => Front(s)[j] = s[j]
  <2> SUFFICES ASSUME NEW j \in 1 .. Len(s), j < Len(s) PROVE Front(s)[j] = s[j]
    OBVIOUS
  <2>1. j \in 1 .. k - 1 + 1 /\ 1 + j - 1 = j
    BY <1>4
  <2>2. QED
    BY <1>3, <1>4, <2>1
<1>7. QED
  BY <1>4, <1>5, <1>6 DEF IsStack

LEMMA AppendOf ==
  ASSUME NEW s, IsStack(s), Len(s) \in Nat, NEW f
  PROVE  /\ IsStack(Append(s, f)) /\ Len(Append(s, f)) = Len(s) + 1
         /\ Append(s, f)[Len(s) + 1] = f
         /\ \A j \in 1 .. Len(s) : Append(s, f)[j] = s[j]
<1>1. PICK S : s \in Seq(S)
  BY DEF IsStack
<1>2. s \in Seq(S \cup {f}) /\ f \in S \cup {f}
  BY <1>1, SeqMonotonic
<1>3. QED
  BY <1>2, AppendProperties DEF IsStack

LEMMA PushStep ==
  ASSUME NEW s, NEW env, NEW l, Owning(s, env, l), NEW n, n = Len(s), NEW f, NEW e, NEW t,
         t = Append(s, f), Suspended(s[n]), NEW l2, l2 = l \cup Has(f, e),
         Fits(f, e, l, Entry(t, n + 1), Keep(t, n + 1), n + 1)
  PROVE  \E env2 : Owning(t, env2, l2)
<1> DEFINE env2 == [i \in Nat |-> IF i = n + 1 THEN e ELSE env[i]]
<1>1. IsStack(s) /\ n \in Nat /\ n >= 1 /\ l = Below(s, env, n + 1)
  BY DEF Owning
<1>2. /\ IsStack(t) /\ Len(t) = n + 1 /\ t[n + 1] = f
      /\ \A j \in 1 .. n : t[j] = s[j]
  BY <1>1, AppendOf
<1>3. env2[n + 1] = e /\ \A j \in 1 .. n : env2[j] = env[j]
  BY <1>1
<1> HIDE DEF env2
<1>4. ASSUME NEW i \in 1 .. n + 1
      PROVE  SameBelow(s, env, t, env2, i)
  <2>1. i \in Nat /\ i >= 1 /\ \A j \in 1 .. i : j < i => s[j] = t[j] /\ env[j] = env2[j]
    BY <1>1, <1>2, <1>3
  <2>2. QED
    BY <2>1, Agreeing DEF Alike
<1>5. ASSUME NEW i \in 1 .. n + 1
      PROVE  Fine(t, env2, i)
  <2>1. CASE i = n + 1
    <3>1. Below(t, env2, i) = l /\ t[i] = f /\ env2[i] = e
      BY <1>1, <1>2, <1>3, <1>4, <2>1 DEF SameBelow
    <3>2. QED
      BY <2>1, <3>1 DEF Fine
  <2>2. CASE i # n + 1
    <3>1. i \in 1 .. n
      BY <1>1, <2>2
    <3>2. Fine(s, env, i)
      BY <3>1 DEF Owning
    <3>3. t[i] = s[i] /\ env2[i] = env[i]
      BY <1>2, <1>3, <3>1
    <3>4. QED
      BY <1>4, <3>2, <3>3 DEF Fine, SameBelow
  <2>3. QED
    BY <2>1, <2>2
<1>6. ASSUME NEW i \in 1 .. n + 1, i < n + 1
      PROVE  Suspended(t[i])
  <2>1. i \in 1 .. n
    BY <1>1, <1>6
  <2>2. t[i] = s[i]
    BY <1>2, <2>1
  <2>3. i < n => Suspended(s[i])
    BY <2>1 DEF Owning
  <2>4. i = n \/ i < n
    BY <1>1, <2>1
  <2>5. QED
    BY <2>2, <2>3, <2>4
<1>7. l2 = Below(t, env2, (n + 1) + 1)
  <2>1. Below(t, env2, (n + 1) + 1) = Below(t, env2, n + 1) \cup Has(t[n + 1], env2[n + 1])
    <3>1. n + 1 \in Nat /\ n + 1 >= 1 /\ (n + 1) + 1 = (n + 1) + 1
      BY <1>1
    <3> DEFINE i == n + 1
               k == i + 1
    <3>2. i \in Nat /\ i >= 1 /\ k = i + 1
      BY <3>1
    <3> HIDE DEF i, k
    <3>3. Below(t, env2, k) = Below(t, env2, i) \cup Has(t[i], env2[i])
      BY <3>2, BelowNext, ZenonT(30)
    <3>4. QED
      BY <3>3 DEF i, k
  <2>2. Below(t, env2, n + 1) = l
    BY <1>1, <1>4 DEF SameBelow
  <2>3. QED
    BY <1>2, <1>3, <2>1, <2>2
<1>8. Owning(t, env2, l2)
  BY <1>1, <1>2, <1>5, <1>6, <1>7 DEF Owning
<1>9. QED
  BY <1>8

LEMMA FrontStep ==
  ASSUME NEW s, NEW env, NEW l, Owning(s, env, l), NEW n, n = Len(s), n > 1
  PROVE  /\ Owning(Front(s), env, Below(s, env, n)) /\ Len(Front(s)) = n - 1
         /\ Front(s)[n - 1] = s[n - 1]
         /\ \A i \in 1 .. n - 1 : SameBelow(s, env, Front(s), env, i)
<1> DEFINE t == Front(s)
<1>1. IsStack(s) /\ n \in Nat
  BY DEF Owning
<1>2. /\ IsStack(t) /\ Len(t) = n - 1
      /\ \A j \in 1 .. n : j < n => t[j] = s[j]
  BY <1>1, FrontOf
<1> HIDE DEF t
<1>3. ASSUME NEW i \in 1 .. n
      PROVE  SameBelow(s, env, t, env, i)
  <2>1. i \in Nat /\ i >= 1 /\ \A j \in 1 .. i : j < i => s[j] = t[j] /\ env[j] = env[j]
    BY <1>1, <1>2
  <2>2. QED
    BY <2>1, Agreeing DEF Alike
<1>4. ASSUME NEW i \in 1 .. n - 1
      PROVE  Fine(t, env, i) /\ (i < n - 1 => Suspended(t[i]))
  <2>1. i \in 1 .. n /\ i < n
    BY <1>1
  <2>2. Fine(s, env, i) /\ Suspended(s[i]) /\ t[i] = s[i]
    BY <1>2, <2>1 DEF Owning
  <2>3. QED
    BY <1>3, <2>1, <2>2 DEF Fine, SameBelow
<1>5. (n - 1) + 1 = n /\ n \in 1 .. n /\ n - 1 \in 1 .. n /\ n - 1 < n /\ n - 1 \in Nat /\ n - 1 >= 1
  BY <1>1
<1>6. Below(s, env, n) = Below(t, env, (n - 1) + 1)
  BY <1>3, <1>5 DEF SameBelow
<1>7. Owning(t, env, Below(s, env, n))
  BY <1>2, <1>4, <1>5, <1>6 DEF Owning
<1>8. t[n - 1] = s[n - 1] /\ 1 .. n - 1 \subseteq 1 .. n
  BY <1>1, <1>2, <1>5
<1>9. QED
  BY <1>2, <1>3, <1>7, <1>8 DEF t

(* The innermost call takes a step.                                         *)
LEMMA TopStep ==
  ASSUME NEW s, NEW env, NEW l, Owning(s, env, l), NEW n, n = Len(s), NEW f, NEW e, NEW t,
         t = Append(Front(s), f), NEW l2, l2 = Below(s, env, n) \cup Has(f, e),
         Fits(f, e, Below(s, env, n), Entry(s, n), Keep(s, n), n)
  PROVE  \E env2 : Owning(t, env2, l2)
<1>1. IsStack(s) /\ n \in Nat /\ n >= 1
  BY DEF Owning
<1>2. CASE n > 1
  <2> DEFINE r == Front(s)
  <2>1. Owning(r, env, Below(s, env, n)) /\ Len(r) = n - 1 /\ r[n - 1] = s[n - 1]
    BY <1>2, FrontStep
  <2>2. Suspended(r[n - 1])
    BY <1>1, <1>2, <2>1 DEF Owning
  <2> HIDE DEF r
  <2>3. t = Append(r, f) /\ (n - 1) + 1 = n
    BY <1>1 DEF r
  <2>4. IsStack(r)
    BY <2>1 DEF Owning
  <2>5. Alike(s, env, t, env, n)
    <3>1. \A j \in 1 .. n : j < n => r[j] = s[j]
      BY <1>1, FrontOf DEF r
    <3>2. \A j \in 1 .. Len(r) : t[j] = r[j]
      BY <1>1, <1>2, <2>1, <2>3, <2>4, AppendOf
    <3>3. ASSUME NEW j \in 1 .. n, j < n PROVE s[j] = t[j]
      <4>1. j \in 1 .. Len(r)
        BY <1>1, <2>1, <3>3
      <4>2. QED
        BY <3>1, <3>2, <3>3, <4>1
    <3>4. QED
      BY <3>3 DEF Alike
  <2>6. Entry(s, n) = Entry(t, n) /\ Keep(s, n) = Keep(t, n)
    BY <1>1, <2>5, Agreeing DEF SameBelow
  <2>7. Fits(f, e, Below(s, env, n), Entry(t, (n - 1) + 1), Keep(t, (n - 1) + 1), (n - 1) + 1)
    BY <2>3, <2>6
  <2> DEFINE m == n - 1
             b == Below(s, env, n)
  <2>8. /\ m = Len(r) /\ Owning(r, env, b) /\ Suspended(r[m]) /\ t = Append(r, f)
        /\ l2 = b \cup Has(f, e) /\ Fits(f, e, b, Entry(t, m + 1), Keep(t, m + 1), m + 1)
    BY <2>1, <2>2, <2>3, <2>7
  <2> HIDE DEF m, b
  <2>9. QED
    BY <2>8, PushStep
<1>3. CASE n = 1
  <2> DEFINE env2 == [i \in Nat |-> e]
           r == Front(s)
  <2>0. t = Append(r, f)
    OBVIOUS
  <2>1. IsStack(r) /\ Len(r) = 0
    <3>1. IsStack(r) /\ Len(r) = n - 1
      BY <1>1, FrontOf
    <3>2. QED
      BY <1>3, <3>1
  <2> HIDE DEF r
  <2>2. IsStack(t) /\ Len(t) = 1 /\ t[1] = f
    <3>1. Len(r) \in Nat
      BY <2>1
    <3>2. /\ IsStack(Append(r, f)) /\ Len(Append(r, f)) = Len(r) + 1
          /\ Append(r, f)[Len(r) + 1] = f
      BY <2>1, <3>1, AppendOf
    <3>3. Len(r) + 1 = 1
      BY <2>1
    <3>4. QED
      BY <2>0, <3>2, <3>3
  <2>3. env2[1] = e
    OBVIOUS
  <2> HIDE DEF env2
  <2>4. SameBelow(s, env, t, env2, 1)
    <3>1. Alike(s, env, t, env2, 1) /\ 1 \in Nat /\ 1 >= 1
      BY DEF Alike
    <3>2. QED
      BY <3>1, Agreeing
  <2>5. Fine(t, env2, 1)
    BY <1>3, <2>2, <2>3, <2>4 DEF Fine, SameBelow
  <2>6. l2 = Below(t, env2, 2)
    <3> DEFINE i == 1
               k == 2
    <3>1. i \in Nat /\ i >= 1 /\ k = i + 1
      OBVIOUS
    <3> HIDE DEF i, k
    <3>2. Below(t, env2, k) = Below(t, env2, i) \cup Has(t[i], env2[i])
      BY <3>1, BelowNext, ZenonT(30)
    <3>3. QED
      BY <1>3, <2>2, <2>3, <2>4, <3>2 DEF SameBelow, i, k
  <2>7. Owning(t, env2, l2)
    BY <2>2, <2>5, <2>6 DEF Owning
  <2>8. QED
    BY <2>7
<1>4. n > 1 \/ n = 1
  BY <1>1
<1>5. QED
  BY <1>2, <1>3, <1>4
-----------------------------------------------------------------------------
(* The statements obey the rules.                                           *)

LEMMA NewStep ==
  ASSUME NEW keep, NEW r, NEW reads, NEW e, NEW e2,
         Gains(e, e2, r), reads \subseteq Valid(e) \cup {"queue"}
  PROVE  Step(keep, New(r, reads), e, e2)
<1> DEFINE s == New(r, reads)
<1>1. s.op = "new" /\ s.to = r /\ s.reads = reads
  BY DEF New
<1> HIDE DEF s
<1>2. s.reads \subseteq Valid(e) \cup {"queue"}
  BY <1>1
<1>3. Creates(s, e, e2)
  BY <1>1 DEF Creates
<1>4. Rule({}, keep, s, e, e2)
  BY <1>2, <1>3 DEF Rule
<1>5. Step(keep, s, e, e2)
  BY <1>4, Plain
<1>6. QED
  BY <1>5 DEF s

LEMMA ReadStep ==
  ASSUME NEW keep, NEW reads, NEW e,
         reads \subseteq Valid(e)
  PROVE  Step(keep, Read(reads), e, e)
<1> DEFINE s == Read(reads)
<1>1. s.op = "read" /\ s.reads = reads
  BY DEF Read
<1> HIDE DEF s
<1>2. s.reads \subseteq Valid(e) \cup {"queue"}
  BY <1>1
<1>3. Looks(s, e, e)
  BY <1>1 DEF Looks
<1>4. Rule({}, keep, s, e, e)
  BY <1>2, <1>3 DEF Rule
<1>5. Step(keep, s, e, e)
  BY <1>4, Plain
<1>6. QED
  BY <1>5 DEF s

LEMMA FreeStep ==
  ASSUME NEW keep, NEW r, NEW e, NEW e2,
         Drops(e, e2, r)
  PROVE  Step(keep, Free(r), e, e2)
<1> DEFINE s == Free(r)
<1>1. s.op = "free" /\ s.reads = {r}
  BY DEF Free
<1> HIDE DEF s
<1>2. s.reads \subseteq Valid(e) \cup {"queue"}
  BY <1>1 DEF Drops, Valid
<1>3. Frees(s, e, e2)
  BY <1>1 DEF Frees, Drops
<1>4. Rule({}, keep, s, e, e2)
  BY <1>2, <1>3 DEF Rule
<1>5. Step(keep, s, e, e2)
  BY <1>4, Plain
<1>6. QED
  BY <1>5 DEF s

LEMMA FreeAllStep ==
  ASSUME NEW keep, NEW e, NEW e2,
         Queues(e, e2, 0)
  PROVE  Step(keep, FreeAll, e, e2)
<1> DEFINE s == FreeAll
<1>1. s.op = "free_all" /\ s.reads = {"queue"}
  BY DEF FreeAll
<1> HIDE DEF s
<1>2. s.reads \subseteq Valid(e) \cup {"queue"}
  BY <1>1
<1>3. FreesAll(s, e, e2)
  BY <1>1 DEF FreesAll
<1>4. Rule({}, keep, s, e, e2)
  BY <1>2, <1>3 DEF Rule
<1>5. Step(keep, s, e, e2)
  BY <1>4, Plain
<1>6. QED
  BY <1>5 DEF s

LEMMA MoveStep ==
  ASSUME NEW keep, NEW r, NEW t, NEW e, NEW d, NEW e2,
         Drops(e, d, t), Gains(d, e2, r), r \notin Slots(e)
  PROVE  Step(keep, Move(r, t), e, e2)
<1> DEFINE s == Move(r, t)
<1>1. s.op = "move" /\ s.to = r /\ s.from = t /\ s.reads = {t}
  BY DEF Move
<1> HIDE DEF s
<1>2. s.reads \subseteq Valid(e) \cup {"queue"}
  BY <1>1 DEF Drops, Valid
<1>3. Moves(s, e, e2)
  BY <1>1 DEF Moves
<1>4. Rule({}, keep, s, e, e2)
  BY <1>2, <1>3 DEF Rule
<1>5. Step(keep, s, e, e2)
  BY <1>4, Plain
<1>6. QED
  BY <1>5 DEF s

LEMMA AliasStep ==
  ASSUME NEW keep, NEW r, NEW t, NEW e, NEW e2,
         r \in Variables \ Slots(e), r # "final", t \in Variables, Aliases(e, e2, r, t)
  PROVE  Step(keep, Alias(r, t), e, e2)
<1> DEFINE s == Alias(r, t)
<1>1. s.op = "alias" /\ s.to = r /\ s.from = t /\ s.reads = {}
  BY DEF Alias
<1> HIDE DEF s
<1>2. s.reads \subseteq Valid(e) \cup {"queue"}
  BY <1>1
<1>3. Renames(s, e, e2)
  BY <1>1 DEF Renames
<1>4. Rule({}, keep, s, e, e2)
  BY <1>2, <1>3 DEF Rule
<1>5. Step(keep, s, e, e2)
  BY <1>4, Plain
<1>6. QED
  BY <1>5 DEF s

LEMMA PushOne ==
  ASSUME NEW keep, NEW r, NEW e, NEW d, NEW e2,
         Drops(e, d, r), Queues(d, e2, 2)
  PROVE  Step(keep, Push(r), e, e2)
<1> DEFINE s == Push(r)
<1>1. s.op = "push" /\ s.from = r /\ s.reads = {r}
  BY DEF Push
<1> HIDE DEF s
<1>2. s.reads \subseteq Valid(e) \cup {"queue"}
  BY <1>1 DEF Drops, Valid
<1>3. Pushes(s, e, e2)
  BY <1>1 DEF Pushes
<1>4. Rule({}, keep, s, e, e2)
  BY <1>2, <1>3 DEF Rule
<1>5. Step(keep, s, e, e2)
  BY <1>4, Plain
<1>6. QED
  BY <1>5 DEF s

LEMMA PopOne ==
  ASSUME NEW keep, NEW r, NEW e, NEW d, NEW e2, NEW q,
         q = (IF e.queue = 2 THEN 2 ELSE 0), Queues(e, d, q), Gains(d, e2, r)
  PROVE  Step(keep, Pop(r), e, e2)
<1> DEFINE s == Pop(r)
<1>1. s.op = "pop" /\ s.to = r /\ s.reads = {}
  BY DEF Pop
<1> HIDE DEF s
<1>2. s.reads \subseteq Valid(e) \cup {"queue"}
  BY <1>1
<1>3. Pops(s, e, e2)
  BY <1>1 DEF Pops
<1>4. Rule({}, keep, s, e, e2)
  BY <1>2, <1>3 DEF Rule
<1>5. Step(keep, s, e, e2)
  BY <1>4, Plain
<1>6. QED
  BY <1>5 DEF s

LEMMA ApplyStep ==
  ASSUME NEW keep, NEW family, NEW r, NEW e, NEW e2,
         family \in {"ldlf", "regex", "prop"}, Gains(e, e2, r),
         family = "regex" => "current_formula" \in Valid(e), SameVisitor(family) => r # "current_formula"
  PROVE  Step(keep, Apply(family, r), e, e2)
<1> DEFINE s == Apply(family, r)
<1>1. s.op = "apply" /\ s.family = family /\ s.to = r /\ s.reads = {}
  BY DEF Apply
<1> HIDE DEF s
<1>2. s.reads \subseteq Valid(e) \cup {"queue"}
  BY <1>1
<1>3. Applies(s, e, e2)
  BY <1>1 DEF Applies
<1>4. Rule({}, keep, s, e, e2)
  BY <1>2, <1>3 DEF Rule
<1>5. Step(keep, s, e, e2)
  BY <1>4, Plain
<1>6. QED
  BY <1>5 DEF s

LEMMA ReturnStep ==
  ASSUME NEW keep, NEW r, NEW e,
         r \in e.own, Slots(e) = {r}, e.queue = 0, keep \subseteq e.entry
  PROVE  Step(keep, Return(r), e, Over)
<1> DEFINE s == Return(r)
<1>1. s.op = "return" /\ s.from = r /\ s.reads = {r}
  BY DEF Return
<1> HIDE DEF s
<1>2. s.reads \subseteq Valid(e) \cup {"queue"}
  BY <1>1 DEF Valid
<1>3. Returns(keep, s, e, Over)
  BY <1>1 DEF Returns, Over, Ownership
<1>4. Rule({}, keep, s, e, Over)
  BY <1>2, <1>3 DEF Rule
<1>5. Step(keep, s, e, Over)
  BY <1>4, Plain
<1>6. QED
  BY <1>5 DEF s

LEMMA CallStep ==
  ASSUME NEW keep, NEW e, NEW e2, NEW r, NEW f \in {"star", "dfa_accept_empty", "dfa_closure"},
         NEW a1 \in Valid(e), Gains(e, e2, r)
  PROVE  Step(keep, Call(f, r, <<a1>>), e, e2)
<1> DEFINE s == Call(f, r, <<a1>>)
<1>1. /\ s.op = "call" /\ s.function = f /\ s.to = r /\ s.args = <<a1>>
      /\ s.reads = ToSet(<<a1>>)
  BY DEF Call
<1>2. Len(<<a1>>) = 1 /\ DOMAIN <<a1>> = 1 .. 1
  OBVIOUS
<1>3. Len(s.args) = 1 /\ s.args[1] = a1
  BY <1>1
<1>4. s.reads \subseteq Valid(e)
  BY <1>1, <1>2 DEF ToSet
<1> HIDE DEF s
<1>5. Calls(s, e, e2)
  BY <1>1, <1>3 DEF Calls
<1>6. Rule({}, keep, s, e, e2)
  BY <1>4, <1>5 DEF Rule
<1>7. Step(keep, s, e, e2)
  BY <1>6, Plain
<1>8. QED
  BY <1>7 DEF s

LEMMA CallTwoStep ==
  ASSUME NEW keep, NEW e, NEW e2, NEW r, NEW f \in {"dfa_concatenate"},
         NEW a1 \in Valid(e), NEW a2 \in Valid(e), Gains(e, e2, r)
  PROVE  Step(keep, Call(f, r, <<a1, a2>>), e, e2)
<1> DEFINE s == Call(f, r, <<a1, a2>>)
<1>1. /\ s.op = "call" /\ s.function = f /\ s.to = r /\ s.args = <<a1, a2>>
      /\ s.reads = ToSet(<<a1, a2>>)
  BY DEF Call
<1>2. Len(<<a1, a2>>) = 2 /\ DOMAIN <<a1, a2>> = 1 .. 2
  OBVIOUS
<1>3. Len(s.args) = 2 /\ s.args[1] = a1 /\ s.args[2] = a2
  BY <1>1
<1>4. s.reads \subseteq Valid(e)
  BY <1>1, <1>2 DEF ToSet
<1> HIDE DEF s
<1>5. Calls(s, e, e2)
  BY <1>1, <1>3 DEF Calls
<1>6. Rule({}, keep, s, e, e2)
  BY <1>4, <1>5 DEF Rule
<1>7. Step(keep, s, e, e2)
  BY <1>6, Plain
<1>8. QED
  BY <1>7 DEF s

-----------------------------------------------------------------------------
(* The programs.                                                            *)
(* Programs that are written in parts.                                      *)
Parts(S, p, q, r, m, n) ==
  /\ p \in Seq(S) /\ q \in Seq(S) /\ r \in Seq(S)
  /\ Len(p) = m /\ Len(q) = n /\ Len(r) = m + n
  /\ \A i \in 1 .. m + n : r[i] = IF i <= m THEN p[i] ELSE q[i - m]

LEMMA Joined ==
  ASSUME NEW S, NEW p, NEW q, NEW r, NEW m, NEW n, Parts(S, p, q, r, m, n)
  PROVE  p \o q = r
<1>1. p \in Seq(S) /\ q \in Seq(S)
  BY DEF Parts
<1>2. /\ p \o q \in Seq(S) /\ Len(p \o q) = Len(p) + Len(q)
      /\ \A i \in 1 .. Len(p) + Len(q) : (p \o q)[i] = IF i <= Len(p) THEN p[i] ELSE q[i - Len(p)]
  BY <1>1, ConcatProperties
<1>3. \A i \in 1 .. Len(r) : (p \o q)[i] = r[i]
  BY <1>2 DEF Parts
<1>4. QED
  BY <1>2, <1>3, SeqEqual DEF Parts


(* The client.  It returns to nobody.                                       *)
LEMMA TranslateTyped ==
  Typed({"nobody"}, Translate, Ownership({}, {}, {}, {}, {}, 0, 0),
    Ownership({}, {}, {}, {}, {}, 0, 0))
<1> DEFINE e1 == Ownership({}, {}, {}, {}, {}, 0, 0)
           e2 == Ownership({"result"}, {}, {}, {}, {}, 0, 0)
<1> HIDE DEF e1, e2
<1>1. Typed({"nobody"}, << Apply("ldlf", "result"), Read({"result"}),
  Free("result") >>, e1, e1)
  <2>1. Step({"nobody"}, Apply("ldlf", "result"), e1, e2)
    <3>1. Gains(e1, e2, "result")
      BY DEF e1, e2, Gains, Ownership, Owns, Written, Slots, Variables
    <3>2. QED
      BY <3>1, ApplyStep DEF SameVisitor
  <2>2. Step({"nobody"}, Read({"result"}), e2, e2)
    <3>1. {"result"} \subseteq Valid(e2)
      BY DEF e2, Valid, Slots, Ownership
    <3>2. QED
      BY <3>1, ReadStep
  <2>3. Step({"nobody"}, Free("result"), e2, e1)
    <3>1. Drops(e2, e1, "result")
      BY DEF e2, e1, Drops, Ownership, Owns, Written, Slots, Variables
    <3>2. QED
      BY <3>1, FreeStep
  <2> DEFINE p == << Apply("ldlf", "result"), Read({"result"}),
    Free("result") >>
             A == <<e1, e2, e2, e1>>
  <2>4. Tuple(p, 3)
    BY DEF Tuple
  <2>5. Steps({"nobody"}, p, A, 3)
    BY <2>1, <2>2, <2>3 DEF Steps
  <2>6. A[1] = e1 /\ A[3 + 1] = e1
    OBVIOUS
  <2> HIDE DEF p, A
  <2>7. Typed({"nobody"}, p, e1, e1)
    BY <2>4, <2>5, <2>6, Straight
  <2>8. QED
    BY <2>7 DEF p
<1>2. QED
  BY <1>1 DEF e1, Translate

(* The visitors of formulas.                                                *)
LEMMA AndOrTyped ==
  ASSUME NEW family \in {"ldlf", "prop"}, NEW keep,
    keep \subseteq {"current_formula"}
  PROVE  Typed(keep, dfa_and_or(family), Ownership({}, {}, {}, {}, keep, 0,
    0), Over)
<1> DEFINE e1 == Ownership({}, {}, {}, {}, keep, 0, 0)
           e2 == Ownership({}, {}, {}, {}, keep, 2, 0)
           e3 == Ownership({"tmp1"}, {}, {}, {}, keep, 2, 0)
           e4 == Ownership({"tmp1"}, {}, {}, {}, keep, 0, 0)
           e5 == Ownership({}, {}, {}, {}, keep, 1, 0)
           e6 == Ownership({"lhs"}, {}, {}, {}, keep, 2, 0)
           e7 == Ownership({"lhs", "rhs"}, {}, {}, {}, keep, 2, 0)
           e8 == Ownership({"tmp1", "lhs", "rhs"}, {}, {}, {}, keep, 2, 0)
           e9 == Ownership({"tmp1", "final", "lhs", "rhs"}, {}, {}, {}, keep,
             2, 0)
           e10 == Ownership({"tmp1", "final", "rhs"}, {}, {}, {}, keep, 2, 0)
           e11 == Ownership({"tmp1", "final"}, {}, {}, {}, keep, 2, 0)
           e12 == Ownership({"final"}, {}, {}, {}, keep, 2, 0)
           e13 == Ownership({"final"}, {}, {}, {}, keep, 0, 0)
<1> HIDE DEF e1, e2, e3, e4, e5, e6, e7, e8, e9, e10, e11, e12, e13
<1>1. Typed(keep, << ForEach(<< Apply(family, "tmp1"), IfSink("tmp1",
  << FreeAll, Return("tmp1") >>), Push("tmp1") >>),
  WhileSeveral(<< Pop("lhs"), Pop("rhs"), New("tmp1", {"lhs", "rhs"}),
  New("final", {"tmp1"}), Free("lhs"), Free("rhs"), Free("tmp1"),
  IfSink("final", << FreeAll, Return("final") >>), Push("final") >>),
  Pop("final"), Return("final") >>, e1, Over)
  <2>1. Step(keep, ForEach(<< Apply(family, "tmp1"), IfSink("tmp1",
    << FreeAll, Return("tmp1") >>), Push("tmp1") >>), e1, e2)
    <3>1. Typed(keep, << Apply(family, "tmp1"), IfSink("tmp1", << FreeAll,
      Return("tmp1") >>), Push("tmp1") >>, e2, e2)
      <4>1. Step(keep, Apply(family, "tmp1"), e2, e3)
        <5>1. Gains(e2, e3, "tmp1")
          BY DEF e2, e3, Gains, Ownership, Owns, Written, Slots, Variables
        <5>2. QED
          BY <5>1, ApplyStep
      <4>2. Step(keep, IfSink("tmp1", << FreeAll, Return("tmp1") >>), e3, e3)
        <5>1. "tmp1" \in Valid(e3)
          BY DEF e3, Valid, Slots, Ownership
        <5>2. Typed(keep, << FreeAll, Return("tmp1") >>, e3, Over)
          <6>1. Step(keep, FreeAll, e3, e4)
            <7>1. Queues(e3, e4, 0)
              BY DEF e3, e4, Queues, Owns, Same, Ownership
            <7>2. QED
              BY <7>1, FreeAllStep
          <6>2. Step(keep, Return("tmp1"), e4, Over)
            <7>1. "tmp1" \in e4.own /\ Slots(e4) = {"tmp1"}
              /\ e4.queue = 0 /\ keep \subseteq e4.entry
              BY DEF e4, Slots, Ownership
            <7>2. QED
              BY <7>1, ReturnStep
          <6> DEFINE p == << FreeAll, Return("tmp1") >>
                     A == <<e3, e4, Over>>
          <6>3. Tuple(p, 2)
            BY DEF Tuple
          <6>4. Steps(keep, p, A, 2)
            BY <6>1, <6>2 DEF Steps
          <6>5. A[1] = e3 /\ A[2 + 1] = Over
            OBVIOUS
          <6> HIDE DEF p, A
          <6>6. Typed(keep, p, e3, Over)
            BY <6>3, <6>4, <6>5, Straight
          <6>7. QED
            BY <6>6 DEF p
        <5>3. Over.over = 1
          BY DEF Over, Ownership
        <5>4. QED
          BY <5>1, <5>2, <5>3, IfSinkStep
      <4>3. Step(keep, Push("tmp1"), e3, e2)
        <5>1. Drops(e3, e2, "tmp1")
          BY DEF e3, e2, Drops, Ownership, Owns, Written, Slots, Variables
        <5>2. Queues(e2, e2, 2)
          BY DEF e2, Queues, Owns, Same, Ownership
        <5>3. QED
          BY <5>1, <5>2, PushOne
      <4> DEFINE p == << Apply(family, "tmp1"), IfSink("tmp1", << FreeAll,
        Return("tmp1") >>), Push("tmp1") >>
                 A == <<e2, e3, e3, e2>>
      <4>4. Tuple(p, 3)
        BY DEF Tuple
      <4>5. Steps(keep, p, A, 3)
        BY <4>1, <4>2, <4>3 DEF Steps
      <4>6. A[1] = e2 /\ A[3 + 1] = e2
        OBVIOUS
      <4> HIDE DEF p, A
      <4>7. Typed(keep, p, e2, e2)
        BY <4>4, <4>5, <4>6, Straight
      <4>8. QED
        BY <4>7 DEF p
    <3>2. Weaker(e1, e2)
      BY DEF e1, e2, Weaker, Slots, Ownership
    <3>3. Weaker(e2, e2)
      BY DEF e2, Weaker, Slots, Ownership
    <3>4. e2.many = 0 /\ e2.many = 0
      BY DEF e2, Ownership
    <3>5. QED
      BY <3>1, <3>2, <3>3, <3>4, ForEachStep
  <2>2. Step(keep, WhileSeveral(<< Pop("lhs"), Pop("rhs"), New("tmp1",
    {"lhs", "rhs"}), New("final", {"tmp1"}), Free("lhs"), Free("rhs"),
    Free("tmp1"), IfSink("final", << FreeAll, Return("final") >>),
    Push("final") >>), e2, e5)
    <3>1. Typed(keep, << Pop("lhs"), Pop("rhs"), New("tmp1", {"lhs", "rhs"}),
      New("final", {"tmp1"}), Free("lhs"), Free("rhs"), Free("tmp1"),
      IfSink("final", << FreeAll, Return("final") >>), Push("final") >>, e2,
      e2)
      <4>1. Step(keep, Pop("lhs"), e2, e6)
        <5>1. 2 = (IF e2.queue = 2 THEN 2 ELSE 0)
          BY DEF e2, Ownership
        <5>2. Queues(e2, e2, 2)
          BY DEF e2, Queues, Owns, Same, Ownership
        <5>3. Gains(e2, e6, "lhs")
          BY DEF e2, e6, Gains, Ownership, Owns, Written, Slots, Variables
        <5>4. QED
          BY <5>1, <5>2, <5>3, PopOne
      <4>2. Step(keep, Pop("rhs"), e6, e7)
        <5>1. 2 = (IF e6.queue = 2 THEN 2 ELSE 0)
          BY DEF e6, Ownership
        <5>2. Queues(e6, e6, 2)
          BY DEF e6, Queues, Owns, Same, Ownership
        <5>3. Gains(e6, e7, "rhs")
          BY DEF e6, e7, Gains, Ownership, Owns, Written, Slots, Variables
        <5>4. QED
          BY <5>1, <5>2, <5>3, PopOne
      <4>3. Step(keep, New("tmp1", {"lhs", "rhs"}), e7, e8)
        <5>1. Gains(e7, e8, "tmp1")
          BY DEF e7, e8, Gains, Ownership, Owns, Written, Slots, Variables
        <5>2. {"lhs", "rhs"} \subseteq Valid(e7) \cup {"queue"}
          BY DEF e7, Valid, Slots, Ownership
        <5>3. QED
          BY <5>1, <5>2, NewStep
      <4>4. Step(keep, New("final", {"tmp1"}), e8, e9)
        <5>1. Gains(e8, e9, "final")
          BY DEF e8, e9, Gains, Ownership, Owns, Written, Slots, Variables
        <5>2. {"tmp1"} \subseteq Valid(e8) \cup {"queue"}
          BY DEF e8, Valid, Slots, Ownership
        <5>3. QED
          BY <5>1, <5>2, NewStep
      <4>5. Step(keep, Free("lhs"), e9, e10)
        <5>1. Drops(e9, e10, "lhs")
          BY DEF e9, e10, Drops, Ownership, Owns, Written, Slots, Variables
        <5>2. QED
          BY <5>1, FreeStep
      <4>6. Step(keep, Free("rhs"), e10, e11)
        <5>1. Drops(e10, e11, "rhs")
          BY DEF e10, e11, Drops, Ownership, Owns, Written, Slots, Variables
        <5>2. QED
          BY <5>1, FreeStep
      <4>7. Step(keep, Free("tmp1"), e11, e12)
        <5>1. Drops(e11, e12, "tmp1")
          BY DEF e11, e12, Drops, Ownership, Owns, Written, Slots, Variables
        <5>2. QED
          BY <5>1, FreeStep
      <4>8. Step(keep, IfSink("final", << FreeAll, Return("final") >>), e12,
        e12)
        <5>1. "final" \in Valid(e12)
          BY DEF e12, Valid, Slots, Ownership
        <5>2. Typed(keep, << FreeAll, Return("final") >>, e12, Over)
          <6>1. Step(keep, FreeAll, e12, e13)
            <7>1. Queues(e12, e13, 0)
              BY DEF e12, e13, Queues, Owns, Same, Ownership
            <7>2. QED
              BY <7>1, FreeAllStep
          <6>2. Step(keep, Return("final"), e13, Over)
            <7>1. "final" \in e13.own /\ Slots(e13) = {"final"}
              /\ e13.queue = 0 /\ keep \subseteq e13.entry
              BY DEF e13, Slots, Ownership
            <7>2. QED
              BY <7>1, ReturnStep
          <6> DEFINE p == << FreeAll, Return("final") >>
                     A == <<e12, e13, Over>>
          <6>3. Tuple(p, 2)
            BY DEF Tuple
          <6>4. Steps(keep, p, A, 2)
            BY <6>1, <6>2 DEF Steps
          <6>5. A[1] = e12 /\ A[2 + 1] = Over
            OBVIOUS
          <6> HIDE DEF p, A
          <6>6. Typed(keep, p, e12, Over)
            BY <6>3, <6>4, <6>5, Straight
          <6>7. QED
            BY <6>6 DEF p
        <5>3. Over.over = 1
          BY DEF Over, Ownership
        <5>4. QED
          BY <5>1, <5>2, <5>3, IfSinkStep
      <4>9. Step(keep, Push("final"), e12, e2)
        <5>1. Drops(e12, e2, "final")
          BY DEF e12, e2, Drops, Ownership, Owns, Written, Slots, Variables
        <5>2. Queues(e2, e2, 2)
          BY DEF e2, Queues, Owns, Same, Ownership
        <5>3. QED
          BY <5>1, <5>2, PushOne
      <4> DEFINE p == << Pop("lhs"), Pop("rhs"), New("tmp1", {"lhs", "rhs"}),
        New("final", {"tmp1"}), Free("lhs"), Free("rhs"), Free("tmp1"),
        IfSink("final", << FreeAll, Return("final") >>), Push("final") >>
                 A == <<e2, e6, e7, e8, e9, e10, e11, e12, e12, e2>>
      <4>10. Tuple(p, 9)
        BY DEF Tuple
      <4>11. Steps(keep, p, A, 9)
        BY <4>1, <4>2, <4>3, <4>4, <4>5, <4>6, <4>7, <4>8, <4>9 DEF Steps
      <4>12. A[1] = e2 /\ A[9 + 1] = e2
        OBVIOUS
      <4> HIDE DEF p, A
      <4>13. Typed(keep, p, e2, e2)
        BY <4>10, <4>11, <4>12, Straight
      <4>14. QED
        BY <4>13 DEF p
    <3>2. Queues(e2, e5, 1)
      BY DEF e2, e5, Queues, Owns, Same, Ownership
    <3>3. QED
      BY <3>1, <3>2, WhileSeveralStep
  <2>3. Step(keep, Pop("final"), e5, e13)
    <3>1. 0 = (IF e5.queue = 2 THEN 2 ELSE 0)
      BY DEF e5, Ownership
    <3>2. Queues(e5, e1, 0)
      BY DEF e5, e1, Queues, Owns, Same, Ownership
    <3>3. Gains(e1, e13, "final")
      BY DEF e1, e13, Gains, Ownership, Owns, Written, Slots, Variables
    <3>4. QED
      BY <3>1, <3>2, <3>3, PopOne
  <2>4. Step(keep, Return("final"), e13, Over)
    <3>1. "final" \in e13.own /\ Slots(e13) = {"final"} /\ e13.queue = 0
      /\ keep \subseteq e13.entry
      BY DEF e13, Slots, Ownership
    <3>2. QED
      BY <3>1, ReturnStep
  <2> DEFINE p == << ForEach(<< Apply(family, "tmp1"), IfSink("tmp1",
    << FreeAll, Return("tmp1") >>), Push("tmp1") >>),
    WhileSeveral(<< Pop("lhs"), Pop("rhs"), New("tmp1", {"lhs", "rhs"}),
    New("final", {"tmp1"}), Free("lhs"), Free("rhs"), Free("tmp1"),
    IfSink("final", << FreeAll, Return("final") >>), Push("final") >>),
    Pop("final"), Return("final") >>
             A == <<e1, e2, e5, e13, Over>>
  <2>5. Tuple(p, 4)
    BY DEF Tuple
  <2>6. Steps(keep, p, A, 4)
    BY <2>1, <2>2, <2>3, <2>4 DEF Steps
  <2>7. A[1] = e1 /\ A[4 + 1] = Over
    OBVIOUS
  <2> HIDE DEF p, A
  <2>8. Typed(keep, p, e1, Over)
    BY <2>5, <2>6, <2>7, Straight
  <2>9. QED
    BY <2>8 DEF p
<1>2. QED
  BY <1>1 DEF e1, dfa_and_or, dfaProduct, dfaMinimize

LEMMA NotTyped ==
  Typed({}, visit_LDLfNot, Ownership({}, {}, {}, {}, {}, 0, 0), Over)
<1> DEFINE e1 == Ownership({}, {}, {}, {}, {}, 0, 0)
           e2 == Ownership({"tmp"}, {}, {}, {}, {}, 0, 0)
           e3 == Ownership({"result", "tmp"}, {}, {}, {}, {}, 0, 0)
           e4 == Ownership({"result"}, {}, {}, {}, {}, 0, 0)
<1> HIDE DEF e1, e2, e3, e4
<1>1. Typed({}, << Apply("ldlf", "tmp"), Read({"tmp"}), New("result",
  {"tmp"}), Free("tmp"), Return("result") >>, e1, Over)
  <2>1. Step({}, Apply("ldlf", "tmp"), e1, e2)
    <3>1. Gains(e1, e2, "tmp")
      BY DEF e1, e2, Gains, Ownership, Owns, Written, Slots, Variables
    <3>2. QED
      BY <3>1, ApplyStep DEF SameVisitor
  <2>2. Step({}, Read({"tmp"}), e2, e2)
    <3>1. {"tmp"} \subseteq Valid(e2)
      BY DEF e2, Valid, Slots, Ownership
    <3>2. QED
      BY <3>1, ReadStep
  <2>3. Step({}, New("result", {"tmp"}), e2, e3)
    <3>1. Gains(e2, e3, "result")
      BY DEF e2, e3, Gains, Ownership, Owns, Written, Slots, Variables
    <3>2. {"tmp"} \subseteq Valid(e2) \cup {"queue"}
      BY DEF e2, Valid, Slots, Ownership
    <3>3. QED
      BY <3>1, <3>2, NewStep
  <2>4. Step({}, Free("tmp"), e3, e4)
    <3>1. Drops(e3, e4, "tmp")
      BY DEF e3, e4, Drops, Ownership, Owns, Written, Slots, Variables
    <3>2. QED
      BY <3>1, FreeStep
  <2>5. Step({}, Return("result"), e4, Over)
    <3>1. "result" \in e4.own /\ Slots(e4) = {"result"} /\ e4.queue = 0
      /\ {} \subseteq e4.entry
      BY DEF e4, Slots, Ownership
    <3>2. QED
      BY <3>1, ReturnStep
  <2> DEFINE p == << Apply("ldlf", "tmp"), Read({"tmp"}), New("result",
    {"tmp"}), Free("tmp"), Return("result") >>
             A == <<e1, e2, e2, e3, e4, Over>>
  <2>6. Tuple(p, 5)
    BY DEF Tuple
  <2>7. Steps({}, p, A, 5)
    BY <2>1, <2>2, <2>3, <2>4, <2>5 DEF Steps
  <2>8. A[1] = e1 /\ A[5 + 1] = Over
    OBVIOUS
  <2> HIDE DEF p, A
  <2>9. Typed({}, p, e1, Over)
    BY <2>6, <2>7, <2>8, Straight
  <2>10. QED
    BY <2>9 DEF p
<1>2. QED
  BY <1>1 DEF e1, visit_LDLfNot, dfaNegation, dfaMinimize

LEMMA ModalityTyped ==
  Typed({}, visit_LDLfModality, Ownership({}, {}, {}, {}, {}, 0, 0), Over)
<1> DEFINE e1 == Ownership({}, {}, {}, {}, {}, 0, 0)
           e2 == Ownership({"current_formula"}, {}, {}, {}, {}, 0, 0)
           e3 == Ownership({"result", "current_formula"}, {}, {}, {}, {}, 0, 0)
           e4 == Ownership({"result"}, {}, {}, {}, {}, 0, 0)
<1> HIDE DEF e1, e2, e3, e4
<1>1. Typed({}, << Apply("ldlf", "current_formula"), Apply("regex",
  "result"), IfNotNull("current_formula", << Free("current_formula") >>),
  Return("result") >>, e1, Over)
  <2>1. Step({}, Apply("ldlf", "current_formula"), e1, e2)
    <3>1. Gains(e1, e2, "current_formula")
      BY DEF e1, e2, Gains, Ownership, Owns, Written, Slots, Variables
    <3>2. QED
      BY <3>1, ApplyStep DEF SameVisitor
  <2>2. Step({}, Apply("regex", "result"), e2, e3)
    <3>1. Gains(e2, e3, "result")
      BY DEF e2, e3, Gains, Ownership, Owns, Written, Slots, Variables
    <3>2. "current_formula" \in Valid(e2)
      BY DEF e2, Valid, Slots, Ownership
    <3>3. QED
      BY <3>1, <3>2, ApplyStep
  <2>3. Step({}, IfNotNull("current_formula", << Free("current_formula") >>),
    e3, e4)
    <3>1. Present(e3, e3, "current_formula")
      BY DEF e3, Present, Ownership
    <3>2. Typed({}, << Free("current_formula") >>, e3, e4)
      <4>1. Step({}, Free("current_formula"), e3, e4)
        <5>1. Drops(e3, e4, "current_formula")
          BY DEF e3, e4, Drops, Ownership, Owns, Written, Slots, Variables
        <5>2. QED
          BY <5>1, FreeStep
      <4> DEFINE p == << Free("current_formula") >>
                 A == <<e3, e4>>
      <4>2. Tuple(p, 1)
        BY DEF Tuple
      <4>3. Steps({}, p, A, 1)
        BY <4>1 DEF Steps
      <4>4. A[1] = e3 /\ A[1 + 1] = e4
        OBVIOUS
      <4> HIDE DEF p, A
      <4>5. Typed({}, p, e3, e4)
        BY <4>2, <4>3, <4>4, Straight
      <4>6. QED
        BY <4>5 DEF p
    <3>3. Absent(e3, e4, "current_formula")
      BY DEF e3, e4, Absent, Ownership
    <3>4. Weaker(e4, e4)
      BY DEF e4, Weaker, Slots, Ownership
    <3>5. "current_formula" \in Slots(e3)
      BY DEF e3, Slots, Ownership
    <3>6. QED
      BY <3>1, <3>2, <3>3, <3>4, <3>5, IfNotNullStep
  <2>4. Step({}, Return("result"), e4, Over)
    <3>1. "result" \in e4.own /\ Slots(e4) = {"result"} /\ e4.queue = 0
      /\ {} \subseteq e4.entry
      BY DEF e4, Slots, Ownership
    <3>2. QED
      BY <3>1, ReturnStep
  <2> DEFINE p == << Apply("ldlf", "current_formula"), Apply("regex",
    "result"), IfNotNull("current_formula", << Free("current_formula") >>),
    Return("result") >>
             A == <<e1, e2, e3, e4, Over>>
  <2>5. Tuple(p, 4)
    BY DEF Tuple
  <2>6. Steps({}, p, A, 4)
    BY <2>1, <2>2, <2>3, <2>4 DEF Steps
  <2>7. A[1] = e1 /\ A[4 + 1] = Over
    OBVIOUS
  <2> HIDE DEF p, A
  <2>8. Typed({}, p, e1, Over)
    BY <2>5, <2>6, <2>7, Straight
  <2>9. QED
    BY <2>8 DEF p
<1>2. visit_LDLfModality = << Apply("ldlf", "current_formula"),
  Apply("regex", "result"), IfNotNull("current_formula",
  << Free("current_formula") >>), Return("result") >>
  <2> DEFINE S == {Apply("ldlf", "current_formula"), Apply("regex",
    "result"), IfNotNull("current_formula", << Free("current_formula") >>),
    Return("result")}
             a1 == << Apply("ldlf", "current_formula"), Apply("regex",
               "result") >>
             a2 == << IfNotNull("current_formula",
               << Free("current_formula") >>) >>
             a3 == << Return("result") >>
             b2 == << Apply("ldlf", "current_formula"), Apply("regex",
               "result"), IfNotNull("current_formula",
               << Free("current_formula") >>) >>
             b3 == << Apply("ldlf", "current_formula"), Apply("regex",
               "result"), IfNotNull("current_formula",
               << Free("current_formula") >>), Return("result") >>
  <2>1. Parts(S, a1, a2, b2, 2, 1)
    BY DEF Parts
  <2>2. Parts(S, b2, a3, b3, 3, 1)
    BY DEF Parts
  <2> HIDE DEF S, a1, a2, a3, b2, b3
  <2>3. a1 \o a2 = b2 /\ b2 \o a3 = b3
    BY <2>1, <2>2, Joined
  <2>4. visit_LDLfModality = (a1 \o a2) \o a3
    BY DEF visit_LDLfModality, Destructor, a1, a2, a3
  <2>5. QED
    BY <2>3, <2>4 DEF b3
<1>3. QED
  BY <1>1, <1>2 DEF e1

(* The visitors of expressions.                                              *)
LEMMA UnionTyped ==
  Typed({"current_formula"}, visit_UnionRegExp, Ownership({}, {},
    {"current_formula"}, {}, {"current_formula"}, 0, 0), Over)
<1> DEFINE e1 == Ownership({}, {}, {"current_formula"}, {},
  {"current_formula"}, 0, 0)
           e2 == Ownership({"final"}, {}, {"current_formula"}, {},
             {"current_formula"}, 0, 0)
           e3 == Ownership({"tmp1"}, {}, {"current_formula"}, {},
             {"current_formula"}, 0, 0)
           e4 == Ownership({"tmp1", "tmp2"}, {}, {"current_formula"}, {},
             {"current_formula"}, 0, 0)
           e5 == Ownership({"tmp1", "tmp2", "tmp3"}, {}, {"current_formula"},
             {}, {"current_formula"}, 0, 0)
           e6 == Ownership({"tmp1", "tmp2", "tmp3", "final"}, {},
             {"current_formula"}, {}, {"current_formula"}, 0, 0)
           e7 == Ownership({"tmp2", "tmp3", "final"}, {},
             {"current_formula"}, {}, {"current_formula"}, 0, 0)
           e8 == Ownership({"tmp3", "final"}, {}, {"current_formula"}, {},
             {"current_formula"}, 0, 0)
<1> HIDE DEF e1, e2, e3, e4, e5, e6, e7, e8
<1>1. Typed({"current_formula"}, << New("final", {}), ForEach(<< Move("tmp1",
  "final"), Apply("regex", "tmp2"), New("tmp3", {"tmp1", "tmp2"}),
  New("final", {"tmp3"}), Free("tmp1"), Free("tmp2"), Free("tmp3"),
  IfSink("final", << Return("final") >>) >>), Return("final") >>, e1, Over)
  <2>1. Step({"current_formula"}, New("final", {}), e1, e2)
    <3>1. Gains(e1, e2, "final")
      BY DEF e1, e2, Gains, Ownership, Owns, Written, Slots, Variables
    <3>2. {} \subseteq Valid(e1) \cup {"queue"}
      BY DEF e1, Valid, Slots, Ownership
    <3>3. QED
      BY <3>1, <3>2, NewStep
  <2>2. Step({"current_formula"}, ForEach(<< Move("tmp1", "final"),
    Apply("regex", "tmp2"), New("tmp3", {"tmp1", "tmp2"}), New("final",
    {"tmp3"}), Free("tmp1"), Free("tmp2"), Free("tmp3"), IfSink("final",
    << Return("final") >>) >>), e2, e2)
    <3>1. Typed({"current_formula"}, << Move("tmp1", "final"), Apply("regex",
      "tmp2"), New("tmp3", {"tmp1", "tmp2"}), New("final", {"tmp3"}),
      Free("tmp1"), Free("tmp2"), Free("tmp3"), IfSink("final",
      << Return("final") >>) >>, e2, e2)
      <4>1. Step({"current_formula"}, Move("tmp1", "final"), e2, e3)
        <5>1. Drops(e2, e1, "final")
          BY DEF e2, e1, Drops, Ownership, Owns, Written, Slots, Variables
        <5>2. Gains(e1, e3, "tmp1")
          BY DEF e1, e3, Gains, Ownership, Owns, Written, Slots, Variables
        <5>3. "tmp1" \notin Slots(e2)
          BY DEF e2, Slots, Ownership
        <5>4. QED
          BY <5>1, <5>2, <5>3, MoveStep
      <4>2. Step({"current_formula"}, Apply("regex", "tmp2"), e3, e4)
        <5>1. Gains(e3, e4, "tmp2")
          BY DEF e3, e4, Gains, Ownership, Owns, Written, Slots, Variables
        <5>2. "current_formula" \in Valid(e3)
          BY DEF e3, Valid, Slots, Ownership
        <5>3. QED
          BY <5>1, <5>2, ApplyStep
      <4>3. Step({"current_formula"}, New("tmp3", {"tmp1", "tmp2"}), e4, e5)
        <5>1. Gains(e4, e5, "tmp3")
          BY DEF e4, e5, Gains, Ownership, Owns, Written, Slots, Variables
        <5>2. {"tmp1", "tmp2"} \subseteq Valid(e4) \cup {"queue"}
          BY DEF e4, Valid, Slots, Ownership
        <5>3. QED
          BY <5>1, <5>2, NewStep
      <4>4. Step({"current_formula"}, New("final", {"tmp3"}), e5, e6)
        <5>1. Gains(e5, e6, "final")
          BY DEF e5, e6, Gains, Ownership, Owns, Written, Slots, Variables
        <5>2. {"tmp3"} \subseteq Valid(e5) \cup {"queue"}
          BY DEF e5, Valid, Slots, Ownership
        <5>3. QED
          BY <5>1, <5>2, NewStep
      <4>5. Step({"current_formula"}, Free("tmp1"), e6, e7)
        <5>1. Drops(e6, e7, "tmp1")
          BY DEF e6, e7, Drops, Ownership, Owns, Written, Slots, Variables
        <5>2. QED
          BY <5>1, FreeStep
      <4>6. Step({"current_formula"}, Free("tmp2"), e7, e8)
        <5>1. Drops(e7, e8, "tmp2")
          BY DEF e7, e8, Drops, Ownership, Owns, Written, Slots, Variables
        <5>2. QED
          BY <5>1, FreeStep
      <4>7. Step({"current_formula"}, Free("tmp3"), e8, e2)
        <5>1. Drops(e8, e2, "tmp3")
          BY DEF e8, e2, Drops, Ownership, Owns, Written, Slots, Variables
        <5>2. QED
          BY <5>1, FreeStep
      <4>8. Step({"current_formula"}, IfSink("final", << Return("final") >>),
        e2, e2)
        <5>1. "final" \in Valid(e2)
          BY DEF e2, Valid, Slots, Ownership
        <5>2. Typed({"current_formula"}, << Return("final") >>, e2, Over)
          <6>1. Step({"current_formula"}, Return("final"), e2, Over)
            <7>1. "final" \in e2.own /\ Slots(e2) = {"final"}
              /\ e2.queue = 0 /\ {"current_formula"} \subseteq e2.entry
              BY DEF e2, Slots, Ownership
            <7>2. QED
              BY <7>1, ReturnStep
          <6> DEFINE p == << Return("final") >>
                     A == <<e2, Over>>
          <6>2. Tuple(p, 1)
            BY DEF Tuple
          <6>3. Steps({"current_formula"}, p, A, 1)
            BY <6>1 DEF Steps
          <6>4. A[1] = e2 /\ A[1 + 1] = Over
            OBVIOUS
          <6> HIDE DEF p, A
          <6>5. Typed({"current_formula"}, p, e2, Over)
            BY <6>2, <6>3, <6>4, Straight
          <6>6. QED
            BY <6>5 DEF p
        <5>3. Over.over = 1
          BY DEF Over, Ownership
        <5>4. QED
          BY <5>1, <5>2, <5>3, IfSinkStep
      <4> DEFINE p == << Move("tmp1", "final"), Apply("regex", "tmp2"),
        New("tmp3", {"tmp1", "tmp2"}), New("final", {"tmp3"}), Free("tmp1"),
        Free("tmp2"), Free("tmp3"), IfSink("final", << Return("final") >>) >>
                 A == <<e2, e3, e4, e5, e6, e7, e8, e2, e2>>
      <4>9. Tuple(p, 8)
        BY DEF Tuple
      <4>10. Steps({"current_formula"}, p, A, 8)
        BY <4>1, <4>2, <4>3, <4>4, <4>5, <4>6, <4>7, <4>8 DEF Steps
      <4>11. A[1] = e2 /\ A[8 + 1] = e2
        OBVIOUS
      <4> HIDE DEF p, A
      <4>12. Typed({"current_formula"}, p, e2, e2)
        BY <4>9, <4>10, <4>11, Straight
      <4>13. QED
        BY <4>12 DEF p
    <3>2. Weaker(e2, e2)
      BY DEF e2, Weaker, Slots, Ownership
    <3>3. e2.many = 0 /\ e2.many = 0
      BY DEF e2, Ownership
    <3>4. QED
      BY <3>1, <3>2, <3>3, ForEachStep
  <2>3. Step({"current_formula"}, Return("final"), e2, Over)
    <3>1. "final" \in e2.own /\ Slots(e2) = {"final"} /\ e2.queue = 0
      /\ {"current_formula"} \subseteq e2.entry
      BY DEF e2, Slots, Ownership
    <3>2. QED
      BY <3>1, ReturnStep
  <2> DEFINE p == << New("final", {}), ForEach(<< Move("tmp1", "final"),
    Apply("regex", "tmp2"), New("tmp3", {"tmp1", "tmp2"}), New("final",
    {"tmp3"}), Free("tmp1"), Free("tmp2"), Free("tmp3"), IfSink("final",
    << Return("final") >>) >>), Return("final") >>
             A == <<e1, e2, e2, Over>>
  <2>4. Tuple(p, 3)
    BY DEF Tuple
  <2>5. Steps({"current_formula"}, p, A, 3)
    BY <2>1, <2>2, <2>3 DEF Steps
  <2>6. A[1] = e1 /\ A[3 + 1] = Over
    OBVIOUS
  <2> HIDE DEF p, A
  <2>7. Typed({"current_formula"}, p, e1, Over)
    BY <2>4, <2>5, <2>6, Straight
  <2>8. QED
    BY <2>7 DEF p
<1>2. QED
  BY <1>1 DEF e1, visit_UnionRegExp, dfaProduct, dfaMinimize

LEMMA SequenceTyped ==
  Typed({"current_formula"}, visit_SequenceRegExp, Ownership({}, {"final"},
    {"current_formula"}, {}, {"current_formula"}, 0, 1), Over)
<1> DEFINE e1 == Ownership({}, {"final"}, {"current_formula"}, {},
  {"current_formula"}, 0, 1)
           e2 == Ownership({}, {"final"}, {"current_formula", "old_formula"},
             {}, {"current_formula", "old_formula"}, 0, 1)
           e3 == Ownership({}, {"final"}, {"old_formula"},
             {"current_formula"}, {"old_formula"}, 0, 0)
           e4 == Ownership({"tmp"}, {"final"}, {"old_formula"},
             {"current_formula"}, {"old_formula"}, 0, 0)
           e5 == Ownership({"tmp", "final"}, {"final"}, {"old_formula"},
             {"current_formula"}, {"old_formula"}, 0, 0)
           e6 == Ownership({"tmp"}, {}, {"old_formula"}, {}, {"old_formula"},
             0, 0)
           e7 == Ownership({"tmp"}, {}, {"old_formula"}, {"current_formula"},
             {"old_formula"}, 0, 0)
           e8 == Ownership({"tmp", "final"}, {}, {"old_formula"}, {},
             {"old_formula"}, 0, 0)
           e9 == Ownership({"tmp", "final"}, {}, {"old_formula"},
             {"current_formula"}, {"old_formula"}, 0, 0)
           e10 == Ownership({"final"}, {}, {"old_formula"},
             {"current_formula"}, {"old_formula"}, 0, 0)
           e11 == Ownership({"result"}, {}, {"old_formula"}, {},
             {"old_formula"}, 0, 0)
           e12 == Ownership({}, {}, {"old_formula"}, {}, {"old_formula"}, 0, 0)
           e13 == Ownership({"result"}, {}, {"current_formula",
             "old_formula"}, {}, {"current_formula", "old_formula"}, 0, 0)
<1> HIDE DEF e1, e2, e3, e4, e5, e6, e7, e8, e9, e10, e11, e12, e13
<1>1. Typed({"current_formula"}, << Alias("old_formula", "current_formula"),
  ForEach(<< Apply("regex", "tmp"), IfNotNull("final", << Free("final") >>),
  New("final", {"tmp"}), Alias("current_formula", "final"), Free("tmp") >>),
  Move("result", "final"), Alias("current_formula", "old_formula"),
  Return("result") >>, e1, Over)
  <2>1. Step({"current_formula"}, Alias("old_formula", "current_formula"),
    e1, e2)
    <3>1. Aliases(e1, e2, "old_formula", "current_formula")
      BY DEF e1, e2, Aliases, Ownership
    <3>2. "old_formula" \in Variables \ Slots(e1)
      /\ "current_formula" \in Variables /\ "old_formula" # "final"
      BY DEF e1, Slots, Ownership, Variables
    <3>3. QED
      BY <3>1, <3>2, AliasStep
  <2>2. Step({"current_formula"}, ForEach(<< Apply("regex", "tmp"),
    IfNotNull("final", << Free("final") >>), New("final", {"tmp"}),
    Alias("current_formula", "final"), Free("tmp") >>), e2, e10)
    <3>1. Typed({"current_formula"}, << Apply("regex", "tmp"),
      IfNotNull("final", << Free("final") >>), New("final", {"tmp"}),
      Alias("current_formula", "final"), Free("tmp") >>, e3, e10)
      <4>1. Step({"current_formula"}, Apply("regex", "tmp"), e3, e4)
        <5>1. Gains(e3, e4, "tmp")
          BY DEF e3, e4, Gains, Ownership, Owns, Written, Slots, Variables
        <5>2. "current_formula" \in Valid(e3)
          BY DEF e3, Valid, Slots, Ownership
        <5>3. QED
          BY <5>1, <5>2, ApplyStep
      <4>2. Step({"current_formula"}, IfNotNull("final",
        << Free("final") >>), e4, e6)
        <5>1. Present(e4, e5, "final")
          BY DEF e4, e5, Present, Ownership
        <5>2. Typed({"current_formula"}, << Free("final") >>, e5, e6)
          <6>1. Step({"current_formula"}, Free("final"), e5, e6)
            <7>1. Drops(e5, e6, "final")
              BY DEF e5, e6, Drops, Ownership, Owns, Written, Slots, Variables
            <7>2. QED
              BY <7>1, FreeStep
          <6> DEFINE p == << Free("final") >>
                     A == <<e5, e6>>
          <6>2. Tuple(p, 1)
            BY DEF Tuple
          <6>3. Steps({"current_formula"}, p, A, 1)
            BY <6>1 DEF Steps
          <6>4. A[1] = e5 /\ A[1 + 1] = e6
            OBVIOUS
          <6> HIDE DEF p, A
          <6>5. Typed({"current_formula"}, p, e5, e6)
            BY <6>2, <6>3, <6>4, Straight
          <6>6. QED
            BY <6>5 DEF p
        <5>3. Absent(e4, e7, "final")
          BY DEF e4, e7, Absent, Ownership
        <5>4. Weaker(e7, e6)
          BY DEF e6, e7, Weaker, Slots, Ownership
        <5>5. "final" \in Slots(e4)
          BY DEF e4, Slots, Ownership
        <5>6. QED
          BY <5>1, <5>2, <5>3, <5>4, <5>5, IfNotNullStep
      <4>3. Step({"current_formula"}, New("final", {"tmp"}), e6, e8)
        <5>1. Gains(e6, e8, "final")
          BY DEF e6, e8, Gains, Ownership, Owns, Written, Slots, Variables
        <5>2. {"tmp"} \subseteq Valid(e6) \cup {"queue"}
          BY DEF e6, Valid, Slots, Ownership
        <5>3. QED
          BY <5>1, <5>2, NewStep
      <4>4. Step({"current_formula"}, Alias("current_formula", "final"), e8,
        e9)
        <5>1. Aliases(e8, e9, "current_formula", "final")
          BY DEF e8, e9, Aliases, Ownership
        <5>2. "current_formula" \in Variables \ Slots(e8)
          /\ "final" \in Variables /\ "current_formula" # "final"
          BY DEF e8, Slots, Ownership, Variables
        <5>3. QED
          BY <5>1, <5>2, AliasStep
      <4>5. Step({"current_formula"}, Free("tmp"), e9, e10)
        <5>1. Drops(e9, e10, "tmp")
          BY DEF e9, e10, Drops, Ownership, Owns, Written, Slots, Variables
        <5>2. QED
          BY <5>1, FreeStep
      <4> DEFINE p == << Apply("regex", "tmp"), IfNotNull("final",
        << Free("final") >>), New("final", {"tmp"}), Alias("current_formula",
        "final"), Free("tmp") >>
                 A == <<e3, e4, e6, e8, e9, e10>>
      <4>6. Tuple(p, 5)
        BY DEF Tuple
      <4>7. Steps({"current_formula"}, p, A, 5)
        BY <4>1, <4>2, <4>3, <4>4, <4>5 DEF Steps
      <4>8. A[1] = e3 /\ A[5 + 1] = e10
        OBVIOUS
      <4> HIDE DEF p, A
      <4>9. Typed({"current_formula"}, p, e3, e10)
        BY <4>6, <4>7, <4>8, Straight
      <4>10. QED
        BY <4>9 DEF p
    <3>2. Weaker(e2, e3)
      BY DEF e2, e3, Weaker, Slots, Ownership
    <3>3. Weaker(e10, e3)
      BY DEF e10, e3, Weaker, Slots, Ownership
    <3>4. Weaker(e10, e10)
      BY DEF e10, Weaker, Slots, Ownership
    <3>5. e10.many = 0 /\ e3.many = 0 /\ e2.many = 1
      BY DEF e10, e2, e3, Ownership
    <3>6. QED
      BY <3>1, <3>2, <3>3, <3>4, <3>5, ForEachStep
  <2>3. Step({"current_formula"}, Move("result", "final"), e10, e11)
    <3>1. Drops(e10, e12, "final")
      BY DEF e10, e12, Drops, Ownership, Owns, Written, Slots, Variables
    <3>2. Gains(e12, e11, "result")
      BY DEF e12, e11, Gains, Ownership, Owns, Written, Slots, Variables
    <3>3. "result" \notin Slots(e10)
      BY DEF e10, Slots, Ownership
    <3>4. QED
      BY <3>1, <3>2, <3>3, MoveStep
  <2>4. Step({"current_formula"}, Alias("current_formula", "old_formula"),
    e11, e13)
    <3>1. Aliases(e11, e13, "current_formula", "old_formula")
      BY DEF e11, e13, Aliases, Ownership
    <3>2. "current_formula" \in Variables \ Slots(e11)
      /\ "old_formula" \in Variables /\ "current_formula" # "final"
      BY DEF e11, Slots, Ownership, Variables
    <3>3. QED
      BY <3>1, <3>2, AliasStep
  <2>5. Step({"current_formula"}, Return("result"), e13, Over)
    <3>1. "result" \in e13.own /\ Slots(e13) = {"result"} /\ e13.queue = 0
      /\ {"current_formula"} \subseteq e13.entry
      BY DEF e13, Slots, Ownership
    <3>2. QED
      BY <3>1, ReturnStep
  <2> DEFINE p == << Alias("old_formula", "current_formula"),
    ForEach(<< Apply("regex", "tmp"), IfNotNull("final",
    << Free("final") >>), New("final", {"tmp"}), Alias("current_formula",
    "final"), Free("tmp") >>), Move("result", "final"),
    Alias("current_formula", "old_formula"), Return("result") >>
             A == <<e1, e2, e10, e11, e13, Over>>
  <2>6. Tuple(p, 5)
    BY DEF Tuple
  <2>7. Steps({"current_formula"}, p, A, 5)
    BY <2>1, <2>2, <2>3, <2>4, <2>5 DEF Steps
  <2>8. A[1] = e1 /\ A[5 + 1] = Over
    OBVIOUS
  <2> HIDE DEF p, A
  <2>9. Typed({"current_formula"}, p, e1, Over)
    BY <2>6, <2>7, <2>8, Straight
  <2>10. QED
    BY <2>9 DEF p
<1>2. QED
  BY <1>1 DEF e1, visit_SequenceRegExp, dfaMinimize

LEMMA TestTyped ==
  Typed({"current_formula"}, visit_TestRegExp, Ownership({}, {},
    {"current_formula"}, {}, {"current_formula"}, 0, 0), Over)
<1> DEFINE e1 == Ownership({}, {}, {"current_formula"}, {},
  {"current_formula"}, 0, 0)
           e2 == Ownership({"regex_dfa"}, {}, {"current_formula"}, {},
             {"current_formula"}, 0, 0)
           e3 == Ownership({"tmp", "regex_dfa"}, {}, {"current_formula"}, {},
             {"current_formula"}, 0, 0)
           e4 == Ownership({"result", "tmp", "regex_dfa"}, {},
             {"current_formula"}, {}, {"current_formula"}, 0, 0)
           e5 == Ownership({"result", "tmp"}, {}, {"current_formula"}, {},
             {"current_formula"}, 0, 0)
           e6 == Ownership({"result"}, {}, {"current_formula"}, {},
             {"current_formula"}, 0, 0)
<1> HIDE DEF e1, e2, e3, e4, e5, e6
<1>1. Typed({"current_formula"}, << Apply("ldlf", "regex_dfa"), New("tmp",
  {"regex_dfa", "current_formula"}), New("result", {"tmp"}),
  Free("regex_dfa"), Free("tmp"), Return("result") >>, e1, Over)
  <2>1. Step({"current_formula"}, Apply("ldlf", "regex_dfa"), e1, e2)
    <3>1. Gains(e1, e2, "regex_dfa")
      BY DEF e1, e2, Gains, Ownership, Owns, Written, Slots, Variables
    <3>2. QED
      BY <3>1, ApplyStep DEF SameVisitor
  <2>2. Step({"current_formula"}, New("tmp", {"regex_dfa",
    "current_formula"}), e2, e3)
    <3>1. Gains(e2, e3, "tmp")
      BY DEF e2, e3, Gains, Ownership, Owns, Written, Slots, Variables
    <3>2. {"regex_dfa", "current_formula"} \subseteq Valid(e2) \cup {"queue"}
      BY DEF e2, Valid, Slots, Ownership
    <3>3. QED
      BY <3>1, <3>2, NewStep
  <2>3. Step({"current_formula"}, New("result", {"tmp"}), e3, e4)
    <3>1. Gains(e3, e4, "result")
      BY DEF e3, e4, Gains, Ownership, Owns, Written, Slots, Variables
    <3>2. {"tmp"} \subseteq Valid(e3) \cup {"queue"}
      BY DEF e3, Valid, Slots, Ownership
    <3>3. QED
      BY <3>1, <3>2, NewStep
  <2>4. Step({"current_formula"}, Free("regex_dfa"), e4, e5)
    <3>1. Drops(e4, e5, "regex_dfa")
      BY DEF e4, e5, Drops, Ownership, Owns, Written, Slots, Variables
    <3>2. QED
      BY <3>1, FreeStep
  <2>5. Step({"current_formula"}, Free("tmp"), e5, e6)
    <3>1. Drops(e5, e6, "tmp")
      BY DEF e5, e6, Drops, Ownership, Owns, Written, Slots, Variables
    <3>2. QED
      BY <3>1, FreeStep
  <2>6. Step({"current_formula"}, Return("result"), e6, Over)
    <3>1. "result" \in e6.own /\ Slots(e6) = {"result"} /\ e6.queue = 0
      /\ {"current_formula"} \subseteq e6.entry
      BY DEF e6, Slots, Ownership
    <3>2. QED
      BY <3>1, ReturnStep
  <2> DEFINE p == << Apply("ldlf", "regex_dfa"), New("tmp", {"regex_dfa",
    "current_formula"}), New("result", {"tmp"}), Free("regex_dfa"),
    Free("tmp"), Return("result") >>
             A == <<e1, e2, e3, e4, e5, e6, Over>>
  <2>7. Tuple(p, 6)
    BY DEF Tuple
  <2>8. Steps({"current_formula"}, p, A, 6)
    BY <2>1, <2>2, <2>3, <2>4, <2>5, <2>6 DEF Steps
  <2>9. A[1] = e1 /\ A[6 + 1] = Over
    OBVIOUS
  <2> HIDE DEF p, A
  <2>10. Typed({"current_formula"}, p, e1, Over)
    BY <2>7, <2>8, <2>9, Straight
  <2>11. QED
    BY <2>10 DEF p
<1>2. QED
  BY <1>1 DEF e1, visit_TestRegExp, dfaProduct, dfaMinimize

LEMMA DiamondTyped ==
  Typed({"current_formula"}, visit_PropositionalRegExp_diamond, Ownership({},
    {}, {"current_formula"}, {}, {"current_formula"}, 0, 0), Over)
<1> DEFINE e1 == Ownership({}, {}, {"current_formula"}, {},
  {"current_formula"}, 0, 0)
           e2 == Ownership({"regex"}, {}, {"current_formula"}, {},
             {"current_formula"}, 0, 0)
           e3 == Ownership({"result", "regex"}, {}, {"current_formula"}, {},
             {"current_formula"}, 0, 0)
           e4 == Ownership({"result"}, {}, {"current_formula"}, {},
             {"current_formula"}, 0, 0)
<1> HIDE DEF e1, e2, e3, e4
<1>1. Typed({"current_formula"}, << Apply("prop", "regex"),
  Call("dfa_concatenate", "result", <<"regex", "current_formula">>),
  Free("regex"), Return("result") >>, e1, Over)
  <2>1. Step({"current_formula"}, Apply("prop", "regex"), e1, e2)
    <3>1. Gains(e1, e2, "regex")
      BY DEF e1, e2, Gains, Ownership, Owns, Written, Slots, Variables
    <3>2. QED
      BY <3>1, ApplyStep
  <2>2. Step({"current_formula"}, Call("dfa_concatenate", "result",
    <<"regex", "current_formula">>), e2, e3)
    <3>1. Gains(e2, e3, "result")
      BY DEF e2, e3, Gains, Ownership, Owns, Written, Slots, Variables
    <3>2. "regex" \in Valid(e2) /\ "current_formula" \in Valid(e2)
      BY DEF e2, Valid, Slots, Ownership
    <3>3. QED
      BY <3>1, <3>2, CallTwoStep
  <2>3. Step({"current_formula"}, Free("regex"), e3, e4)
    <3>1. Drops(e3, e4, "regex")
      BY DEF e3, e4, Drops, Ownership, Owns, Written, Slots, Variables
    <3>2. QED
      BY <3>1, FreeStep
  <2>4. Step({"current_formula"}, Return("result"), e4, Over)
    <3>1. "result" \in e4.own /\ Slots(e4) = {"result"} /\ e4.queue = 0
      /\ {"current_formula"} \subseteq e4.entry
      BY DEF e4, Slots, Ownership
    <3>2. QED
      BY <3>1, ReturnStep
  <2> DEFINE p == << Apply("prop", "regex"), Call("dfa_concatenate",
    "result", <<"regex", "current_formula">>), Free("regex"),
    Return("result") >>
             A == <<e1, e2, e3, e4, Over>>
  <2>5. Tuple(p, 4)
    BY DEF Tuple
  <2>6. Steps({"current_formula"}, p, A, 4)
    BY <2>1, <2>2, <2>3, <2>4 DEF Steps
  <2>7. A[1] = e1 /\ A[4 + 1] = Over
    OBVIOUS
  <2> HIDE DEF p, A
  <2>8. Typed({"current_formula"}, p, e1, Over)
    BY <2>5, <2>6, <2>7, Straight
  <2>9. QED
    BY <2>8 DEF p
<1>2. QED
  BY <1>1 DEF e1, visit_PropositionalRegExp_diamond

LEMMA BoxTyped ==
  Typed({"current_formula"}, visit_PropositionalRegExp_box, Ownership({}, {},
    {"current_formula"}, {}, {"current_formula"}, 0, 0), Over)
<1> DEFINE e1 == Ownership({}, {}, {"current_formula"}, {},
  {"current_formula"}, 0, 0)
           e2 == Ownership({"regex"}, {}, {"current_formula"}, {},
             {"current_formula"}, 0, 0)
           e3 == Ownership({"tmp", "regex"}, {}, {"current_formula"}, {},
             {"current_formula"}, 0, 0)
           e4 == Ownership({"result", "tmp", "regex"}, {},
             {"current_formula"}, {}, {"current_formula"}, 0, 0)
           e5 == Ownership({"result", "regex"}, {}, {"current_formula"}, {},
             {"current_formula"}, 0, 0)
           e6 == Ownership({"result"}, {}, {"current_formula"}, {},
             {"current_formula"}, 0, 0)
<1> HIDE DEF e1, e2, e3, e4, e5, e6
<1>1. Typed({"current_formula"}, << Apply("prop", "regex"), New("tmp",
  {"current_formula"}), Read({"tmp"}), Call("dfa_concatenate", "result",
  <<"regex", "tmp">>), Read({"result"}), Free("tmp"), Free("regex"),
  Return("result") >>, e1, Over)
  <2>1. Step({"current_formula"}, Apply("prop", "regex"), e1, e2)
    <3>1. Gains(e1, e2, "regex")
      BY DEF e1, e2, Gains, Ownership, Owns, Written, Slots, Variables
    <3>2. QED
      BY <3>1, ApplyStep
  <2>2. Step({"current_formula"}, New("tmp", {"current_formula"}), e2, e3)
    <3>1. Gains(e2, e3, "tmp")
      BY DEF e2, e3, Gains, Ownership, Owns, Written, Slots, Variables
    <3>2. {"current_formula"} \subseteq Valid(e2) \cup {"queue"}
      BY DEF e2, Valid, Slots, Ownership
    <3>3. QED
      BY <3>1, <3>2, NewStep
  <2>3. Step({"current_formula"}, Read({"tmp"}), e3, e3)
    <3>1. {"tmp"} \subseteq Valid(e3)
      BY DEF e3, Valid, Slots, Ownership
    <3>2. QED
      BY <3>1, ReadStep
  <2>4. Step({"current_formula"}, Call("dfa_concatenate", "result",
    <<"regex", "tmp">>), e3, e4)
    <3>1. Gains(e3, e4, "result")
      BY DEF e3, e4, Gains, Ownership, Owns, Written, Slots, Variables
    <3>2. "regex" \in Valid(e3) /\ "tmp" \in Valid(e3)
      BY DEF e3, Valid, Slots, Ownership
    <3>3. QED
      BY <3>1, <3>2, CallTwoStep
  <2>5. Step({"current_formula"}, Read({"result"}), e4, e4)
    <3>1. {"result"} \subseteq Valid(e4)
      BY DEF e4, Valid, Slots, Ownership
    <3>2. QED
      BY <3>1, ReadStep
  <2>6. Step({"current_formula"}, Free("tmp"), e4, e5)
    <3>1. Drops(e4, e5, "tmp")
      BY DEF e4, e5, Drops, Ownership, Owns, Written, Slots, Variables
    <3>2. QED
      BY <3>1, FreeStep
  <2>7. Step({"current_formula"}, Free("regex"), e5, e6)
    <3>1. Drops(e5, e6, "regex")
      BY DEF e5, e6, Drops, Ownership, Owns, Written, Slots, Variables
    <3>2. QED
      BY <3>1, FreeStep
  <2>8. Step({"current_formula"}, Return("result"), e6, Over)
    <3>1. "result" \in e6.own /\ Slots(e6) = {"result"} /\ e6.queue = 0
      /\ {"current_formula"} \subseteq e6.entry
      BY DEF e6, Slots, Ownership
    <3>2. QED
      BY <3>1, ReturnStep
  <2> DEFINE p == << Apply("prop", "regex"), New("tmp", {"current_formula"}),
    Read({"tmp"}), Call("dfa_concatenate", "result", <<"regex", "tmp">>),
    Read({"result"}), Free("tmp"), Free("regex"), Return("result") >>
             A == <<e1, e2, e3, e3, e4, e4, e5, e6, Over>>
  <2>9. Tuple(p, 8)
    BY DEF Tuple
  <2>10. Steps({"current_formula"}, p, A, 8)
    BY <2>1, <2>2, <2>3, <2>4, <2>5, <2>6, <2>7, <2>8 DEF Steps
  <2>11. A[1] = e1 /\ A[8 + 1] = Over
    OBVIOUS
  <2> HIDE DEF p, A
  <2>12. Typed({"current_formula"}, p, e1, Over)
    BY <2>9, <2>10, <2>11, Straight
  <2>13. QED
    BY <2>12 DEF p
<1>2. QED
  BY <1>1 DEF e1, visit_PropositionalRegExp_box, dfaCopy, dfaNegation

LEMMA TestFreeStarTyped ==
  Typed({"current_formula"}, test_free_star, Ownership({}, {},
    {"current_formula"}, {}, {"current_formula"}, 0, 0), Over)
<1> DEFINE e1 == Ownership({}, {}, {"current_formula"}, {},
  {"current_formula"}, 0, 0)
           e2 == Ownership({"body"}, {}, {"current_formula"}, {},
             {"current_formula"}, 0, 0)
           e3 == Ownership({"body", "regex"}, {}, {"current_formula"}, {},
             {"current_formula"}, 0, 0)
           e4 == Ownership({"body", "regex", "regex_or_empty"}, {},
             {"current_formula"}, {}, {"current_formula"}, 0, 0)
           e5 == Ownership({"body", "regex", "regex_or_empty", "star"}, {},
             {"current_formula"}, {}, {"current_formula"}, 0, 0)
           e6 == Ownership({"tmp", "body", "regex", "regex_or_empty",
             "star"}, {}, {"current_formula"}, {}, {"current_formula"}, 0, 0)
           e7 == Ownership({"result", "tmp", "body", "regex",
             "regex_or_empty", "star"}, {}, {"current_formula"}, {},
             {"current_formula"}, 0, 0)
           e8 == Ownership({"result", "body", "regex", "regex_or_empty",
             "star"}, {}, {"current_formula"}, {}, {"current_formula"}, 0, 0)
           e9 == Ownership({"result", "body", "regex_or_empty", "star"}, {},
             {"current_formula"}, {}, {"current_formula"}, 0, 0)
           e10 == Ownership({"result", "body", "star"}, {},
             {"current_formula"}, {}, {"current_formula"}, 0, 0)
           e11 == Ownership({"result", "body"}, {}, {"current_formula"}, {},
             {"current_formula"}, 0, 0)
           e12 == Ownership({"result"}, {}, {"current_formula"}, {},
             {"current_formula"}, 0, 0)
<1> HIDE DEF e1, e2, e3, e4, e5, e6, e7, e8, e9, e10, e11, e12
<1>1. Typed({"current_formula"}, << New("body", {"current_formula"}),
  Apply("ldlf", "regex"), Call("dfa_accept_empty", "regex_or_empty",
  <<"regex">>), Call("dfa_closure", "star", <<"regex_or_empty">>),
  Read({"body"}), Call("dfa_concatenate", "tmp", <<"star", "body">>),
  Read({"tmp"}), New("result", {"tmp"}), Free("tmp"), Free("regex"),
  Free("regex_or_empty"), Free("star"), Free("body"), Return("result") >>,
  e1, Over)
  <2>1. Step({"current_formula"}, New("body", {"current_formula"}), e1, e2)
    <3>1. Gains(e1, e2, "body")
      BY DEF e1, e2, Gains, Ownership, Owns, Written, Slots, Variables
    <3>2. {"current_formula"} \subseteq Valid(e1) \cup {"queue"}
      BY DEF e1, Valid, Slots, Ownership
    <3>3. QED
      BY <3>1, <3>2, NewStep
  <2>2. Step({"current_formula"}, Apply("ldlf", "regex"), e2, e3)
    <3>1. Gains(e2, e3, "regex")
      BY DEF e2, e3, Gains, Ownership, Owns, Written, Slots, Variables
    <3>2. QED
      BY <3>1, ApplyStep DEF SameVisitor
  <2>3. Step({"current_formula"}, Call("dfa_accept_empty", "regex_or_empty",
    <<"regex">>), e3, e4)
    <3>1. Gains(e3, e4, "regex_or_empty")
      BY DEF e3, e4, Gains, Ownership, Owns, Written, Slots, Variables
    <3>2. "regex" \in Valid(e3)
      BY DEF e3, Valid, Slots, Ownership
    <3>3. QED
      BY <3>1, <3>2, CallStep
  <2>4. Step({"current_formula"}, Call("dfa_closure", "star",
    <<"regex_or_empty">>), e4, e5)
    <3>1. Gains(e4, e5, "star")
      BY DEF e4, e5, Gains, Ownership, Owns, Written, Slots, Variables
    <3>2. "regex_or_empty" \in Valid(e4)
      BY DEF e4, Valid, Slots, Ownership
    <3>3. QED
      BY <3>1, <3>2, CallStep
  <2>5. Step({"current_formula"}, Read({"body"}), e5, e5)
    <3>1. {"body"} \subseteq Valid(e5)
      BY DEF e5, Valid, Slots, Ownership
    <3>2. QED
      BY <3>1, ReadStep
  <2>6. Step({"current_formula"}, Call("dfa_concatenate", "tmp", <<"star",
    "body">>), e5, e6)
    <3>1. Gains(e5, e6, "tmp")
      BY DEF e5, e6, Gains, Ownership, Owns, Written, Slots, Variables
    <3>2. "star" \in Valid(e5) /\ "body" \in Valid(e5)
      BY DEF e5, Valid, Slots, Ownership
    <3>3. QED
      BY <3>1, <3>2, CallTwoStep
  <2>7. Step({"current_formula"}, Read({"tmp"}), e6, e6)
    <3>1. {"tmp"} \subseteq Valid(e6)
      BY DEF e6, Valid, Slots, Ownership
    <3>2. QED
      BY <3>1, ReadStep
  <2>8. Step({"current_formula"}, New("result", {"tmp"}), e6, e7)
    <3>1. Gains(e6, e7, "result")
      BY DEF e6, e7, Gains, Ownership, Owns, Written, Slots, Variables
    <3>2. {"tmp"} \subseteq Valid(e6) \cup {"queue"}
      BY DEF e6, Valid, Slots, Ownership
    <3>3. QED
      BY <3>1, <3>2, NewStep
  <2>9. Step({"current_formula"}, Free("tmp"), e7, e8)
    <3>1. Drops(e7, e8, "tmp")
      BY DEF e7, e8, Drops, Ownership, Owns, Written, Slots, Variables
    <3>2. QED
      BY <3>1, FreeStep
  <2>10. Step({"current_formula"}, Free("regex"), e8, e9)
    <3>1. Drops(e8, e9, "regex")
      BY DEF e8, e9, Drops, Ownership, Owns, Written, Slots, Variables
    <3>2. QED
      BY <3>1, FreeStep
  <2>11. Step({"current_formula"}, Free("regex_or_empty"), e9, e10)
    <3>1. Drops(e9, e10, "regex_or_empty")
      BY DEF e9, e10, Drops, Ownership, Owns, Written, Slots, Variables
    <3>2. QED
      BY <3>1, FreeStep
  <2>12. Step({"current_formula"}, Free("star"), e10, e11)
    <3>1. Drops(e10, e11, "star")
      BY DEF e10, e11, Drops, Ownership, Owns, Written, Slots, Variables
    <3>2. QED
      BY <3>1, FreeStep
  <2>13. Step({"current_formula"}, Free("body"), e11, e12)
    <3>1. Drops(e11, e12, "body")
      BY DEF e11, e12, Drops, Ownership, Owns, Written, Slots, Variables
    <3>2. QED
      BY <3>1, FreeStep
  <2>14. Step({"current_formula"}, Return("result"), e12, Over)
    <3>1. "result" \in e12.own /\ Slots(e12) = {"result"} /\ e12.queue = 0
      /\ {"current_formula"} \subseteq e12.entry
      BY DEF e12, Slots, Ownership
    <3>2. QED
      BY <3>1, ReturnStep
  <2> DEFINE p == << New("body", {"current_formula"}), Apply("ldlf",
    "regex"), Call("dfa_accept_empty", "regex_or_empty", <<"regex">>),
    Call("dfa_closure", "star", <<"regex_or_empty">>), Read({"body"}),
    Call("dfa_concatenate", "tmp", <<"star", "body">>), Read({"tmp"}),
    New("result", {"tmp"}), Free("tmp"), Free("regex"),
    Free("regex_or_empty"), Free("star"), Free("body"), Return("result") >>
             A == <<e1, e2, e3, e4, e5, e5, e6, e6, e7, e8, e9, e10, e11,
               e12, Over>>
  <2>15. Tuple(p, 14)
    BY DEF Tuple
  <2>16. Steps({"current_formula"}, p, A, 14)
    BY <2>1, <2>2, <2>3, <2>4, <2>5, <2>6, <2>7, <2>8, <2>9, <2>10, <2>11,
      <2>12, <2>13, <2>14 DEF Steps
  <2>17. A[1] = e1 /\ A[14 + 1] = Over
    OBVIOUS
  <2> HIDE DEF p, A
  <2>18. Typed({"current_formula"}, p, e1, Over)
    BY <2>15, <2>16, <2>17, Straight
  <2>19. QED
    BY <2>18 DEF p
<1>2. QED
  BY <1>1 DEF e1, test_free_star, dfaCopy, dfaNegation, dfaMinimize

LEMMA GeneralStarTyped ==
  Typed({"current_formula"}, general_star, Ownership({}, {},
    {"current_formula"}, {}, {"current_formula"}, 0, 0), Over)
<1> DEFINE e1 == Ownership({}, {}, {"current_formula"}, {},
  {"current_formula"}, 0, 0)
           e2 == Ownership({"body"}, {}, {"current_formula"}, {},
             {"current_formula"}, 0, 0)
           e3 == Ownership({"tmp", "body"}, {}, {"current_formula"}, {},
             {"current_formula"}, 0, 0)
           e4 == Ownership({"result", "tmp", "body"}, {},
             {"current_formula"}, {}, {"current_formula"}, 0, 0)
           e5 == Ownership({"result", "body"}, {}, {"current_formula"}, {},
             {"current_formula"}, 0, 0)
           e6 == Ownership({"result"}, {}, {"current_formula"}, {},
             {"current_formula"}, 0, 0)
<1> HIDE DEF e1, e2, e3, e4, e5, e6
<1>1. Typed({"current_formula"}, << New("body", {"current_formula"}),
  Read({"body"}), Call("star", "tmp", <<"body">>), Read({"tmp"}),
  New("result", {"tmp"}), Free("tmp"), Free("body"), Return("result") >>, e1,
  Over)
  <2>1. Step({"current_formula"}, New("body", {"current_formula"}), e1, e2)
    <3>1. Gains(e1, e2, "body")
      BY DEF e1, e2, Gains, Ownership, Owns, Written, Slots, Variables
    <3>2. {"current_formula"} \subseteq Valid(e1) \cup {"queue"}
      BY DEF e1, Valid, Slots, Ownership
    <3>3. QED
      BY <3>1, <3>2, NewStep
  <2>2. Step({"current_formula"}, Read({"body"}), e2, e2)
    <3>1. {"body"} \subseteq Valid(e2)
      BY DEF e2, Valid, Slots, Ownership
    <3>2. QED
      BY <3>1, ReadStep
  <2>3. Step({"current_formula"}, Call("star", "tmp", <<"body">>), e2, e3)
    <3>1. Gains(e2, e3, "tmp")
      BY DEF e2, e3, Gains, Ownership, Owns, Written, Slots, Variables
    <3>2. "body" \in Valid(e2)
      BY DEF e2, Valid, Slots, Ownership
    <3>3. QED
      BY <3>1, <3>2, CallStep
  <2>4. Step({"current_formula"}, Read({"tmp"}), e3, e3)
    <3>1. {"tmp"} \subseteq Valid(e3)
      BY DEF e3, Valid, Slots, Ownership
    <3>2. QED
      BY <3>1, ReadStep
  <2>5. Step({"current_formula"}, New("result", {"tmp"}), e3, e4)
    <3>1. Gains(e3, e4, "result")
      BY DEF e3, e4, Gains, Ownership, Owns, Written, Slots, Variables
    <3>2. {"tmp"} \subseteq Valid(e3) \cup {"queue"}
      BY DEF e3, Valid, Slots, Ownership
    <3>3. QED
      BY <3>1, <3>2, NewStep
  <2>6. Step({"current_formula"}, Free("tmp"), e4, e5)
    <3>1. Drops(e4, e5, "tmp")
      BY DEF e4, e5, Drops, Ownership, Owns, Written, Slots, Variables
    <3>2. QED
      BY <3>1, FreeStep
  <2>7. Step({"current_formula"}, Free("body"), e5, e6)
    <3>1. Drops(e5, e6, "body")
      BY DEF e5, e6, Drops, Ownership, Owns, Written, Slots, Variables
    <3>2. QED
      BY <3>1, FreeStep
  <2>8. Step({"current_formula"}, Return("result"), e6, Over)
    <3>1. "result" \in e6.own /\ Slots(e6) = {"result"} /\ e6.queue = 0
      /\ {"current_formula"} \subseteq e6.entry
      BY DEF e6, Slots, Ownership
    <3>2. QED
      BY <3>1, ReturnStep
  <2> DEFINE p == << New("body", {"current_formula"}), Read({"body"}),
    Call("star", "tmp", <<"body">>), Read({"tmp"}), New("result", {"tmp"}),
    Free("tmp"), Free("body"), Return("result") >>
             A == <<e1, e2, e2, e3, e3, e4, e5, e6, Over>>
  <2>9. Tuple(p, 8)
    BY DEF Tuple
  <2>10. Steps({"current_formula"}, p, A, 8)
    BY <2>1, <2>2, <2>3, <2>4, <2>5, <2>6, <2>7, <2>8 DEF Steps
  <2>11. A[1] = e1 /\ A[8 + 1] = Over
    OBVIOUS
  <2> HIDE DEF p, A
  <2>12. Typed({"current_formula"}, p, e1, Over)
    BY <2>9, <2>10, <2>11, Straight
  <2>13. QED
    BY <2>12 DEF p
<1>2. QED
  BY <1>1 DEF e1, general_star, dfaCopy, dfaNegation, dfaMinimize

(* The functions that are called.                                            *)
LEMMA StarTyped ==
  Typed({}, star, Ownership({}, {}, {"a"}, {}, {}, 2, 0), Over)
<1> DEFINE e1 == Ownership({}, {}, {"a"}, {}, {}, 2, 0)
           e2 == Ownership({"tmp"}, {}, {"a"}, {}, {}, 2, 0)
           e3 == Ownership({"result"}, {}, {"a"}, {}, {}, 2, 0)
           e4 == Ownership({"result", "tmp"}, {}, {"a"}, {}, {}, 2, 0)
           e5 == Ownership({"tmp", "true"}, {}, {"a"}, {}, {}, 2, 0)
           e6 == Ownership({"tmp", "true", "product"}, {}, {"a"}, {}, {}, 2, 0)
           e7 == Ownership({"tmp", "product"}, {}, {"a"}, {}, {}, 2, 0)
           e8 == Ownership({"result"}, {}, {"a"}, {}, {}, 0, 0)
<1> HIDE DEF e1, e2, e3, e4, e5, e6, e7, e8
<1>1. Typed({}, << Repeat(<< Apply("ldlf", "tmp"), Push("tmp") >>),
  New("result", {"queue", "a"}), New("tmp", {"result"}), Free("result"),
  New("true", {}), New("product", {"tmp", "true"}), Free("true"), New("true",
  {"product"}), Free("product"), Move("result", "true"), Free("tmp"),
  Repeat(<< New("tmp", {"result"}), Free("result"), New("result", {"tmp"}),
  Free("tmp") >>), Move("tmp", "result"), New("result", {"tmp"}),
  Free("tmp"), FreeAll, Return("result") >>, e1, Over)
  <2>1. Step({}, Repeat(<< Apply("ldlf", "tmp"), Push("tmp") >>), e1, e1)
    <3>1. Typed({}, << Apply("ldlf", "tmp"), Push("tmp") >>, e1, e1)
      <4>1. Step({}, Apply("ldlf", "tmp"), e1, e2)
        <5>1. Gains(e1, e2, "tmp")
          BY DEF e1, e2, Gains, Ownership, Owns, Written, Slots, Variables
        <5>2. QED
          BY <5>1, ApplyStep DEF SameVisitor
      <4>2. Step({}, Push("tmp"), e2, e1)
        <5>1. Drops(e2, e1, "tmp")
          BY DEF e2, e1, Drops, Ownership, Owns, Written, Slots, Variables
        <5>2. Queues(e1, e1, 2)
          BY DEF e1, Queues, Owns, Same, Ownership
        <5>3. QED
          BY <5>1, <5>2, PushOne
      <4> DEFINE p == << Apply("ldlf", "tmp"), Push("tmp") >>
                 A == <<e1, e2, e1>>
      <4>3. Tuple(p, 2)
        BY DEF Tuple
      <4>4. Steps({}, p, A, 2)
        BY <4>1, <4>2 DEF Steps
      <4>5. A[1] = e1 /\ A[2 + 1] = e1
        OBVIOUS
      <4> HIDE DEF p, A
      <4>6. Typed({}, p, e1, e1)
        BY <4>3, <4>4, <4>5, Straight
      <4>7. QED
        BY <4>6 DEF p
    <3>2. QED
      BY <3>1, RepeatStep
  <2>2. Step({}, New("result", {"queue", "a"}), e1, e3)
    <3>1. Gains(e1, e3, "result")
      BY DEF e1, e3, Gains, Ownership, Owns, Written, Slots, Variables
    <3>2. {"queue", "a"} \subseteq Valid(e1) \cup {"queue"}
      BY DEF e1, Valid, Slots, Ownership
    <3>3. QED
      BY <3>1, <3>2, NewStep
  <2>3. Step({}, New("tmp", {"result"}), e3, e4)
    <3>1. Gains(e3, e4, "tmp")
      BY DEF e3, e4, Gains, Ownership, Owns, Written, Slots, Variables
    <3>2. {"result"} \subseteq Valid(e3) \cup {"queue"}
      BY DEF e3, Valid, Slots, Ownership
    <3>3. QED
      BY <3>1, <3>2, NewStep
  <2>4. Step({}, Free("result"), e4, e2)
    <3>1. Drops(e4, e2, "result")
      BY DEF e4, e2, Drops, Ownership, Owns, Written, Slots, Variables
    <3>2. QED
      BY <3>1, FreeStep
  <2>5. Step({}, New("true", {}), e2, e5)
    <3>1. Gains(e2, e5, "true")
      BY DEF e2, e5, Gains, Ownership, Owns, Written, Slots, Variables
    <3>2. {} \subseteq Valid(e2) \cup {"queue"}
      BY DEF e2, Valid, Slots, Ownership
    <3>3. QED
      BY <3>1, <3>2, NewStep
  <2>6. Step({}, New("product", {"tmp", "true"}), e5, e6)
    <3>1. Gains(e5, e6, "product")
      BY DEF e5, e6, Gains, Ownership, Owns, Written, Slots, Variables
    <3>2. {"tmp", "true"} \subseteq Valid(e5) \cup {"queue"}
      BY DEF e5, Valid, Slots, Ownership
    <3>3. QED
      BY <3>1, <3>2, NewStep
  <2>7. Step({}, Free("true"), e6, e7)
    <3>1. Drops(e6, e7, "true")
      BY DEF e6, e7, Drops, Ownership, Owns, Written, Slots, Variables
    <3>2. QED
      BY <3>1, FreeStep
  <2>8. Step({}, New("true", {"product"}), e7, e6)
    <3>1. Gains(e7, e6, "true")
      BY DEF e7, e6, Gains, Ownership, Owns, Written, Slots, Variables
    <3>2. {"product"} \subseteq Valid(e7) \cup {"queue"}
      BY DEF e7, Valid, Slots, Ownership
    <3>3. QED
      BY <3>1, <3>2, NewStep
  <2>9. Step({}, Free("product"), e6, e5)
    <3>1. Drops(e6, e5, "product")
      BY DEF e6, e5, Drops, Ownership, Owns, Written, Slots, Variables
    <3>2. QED
      BY <3>1, FreeStep
  <2>10. Step({}, Move("result", "true"), e5, e4)
    <3>1. Drops(e5, e2, "true")
      BY DEF e5, e2, Drops, Ownership, Owns, Written, Slots, Variables
    <3>2. Gains(e2, e4, "result")
      BY DEF e2, e4, Gains, Ownership, Owns, Written, Slots, Variables
    <3>3. "result" \notin Slots(e5)
      BY DEF e5, Slots, Ownership
    <3>4. QED
      BY <3>1, <3>2, <3>3, MoveStep
  <2>11. Step({}, Free("tmp"), e4, e3)
    <3>1. Drops(e4, e3, "tmp")
      BY DEF e4, e3, Drops, Ownership, Owns, Written, Slots, Variables
    <3>2. QED
      BY <3>1, FreeStep
  <2>12. Step({}, Repeat(<< New("tmp", {"result"}), Free("result"),
    New("result", {"tmp"}), Free("tmp") >>), e3, e3)
    <3>1. Typed({}, << New("tmp", {"result"}), Free("result"), New("result",
      {"tmp"}), Free("tmp") >>, e3, e3)
      <4>1. Step({}, New("tmp", {"result"}), e3, e4)
        <5>1. Gains(e3, e4, "tmp")
          BY DEF e3, e4, Gains, Ownership, Owns, Written, Slots, Variables
        <5>2. {"result"} \subseteq Valid(e3) \cup {"queue"}
          BY DEF e3, Valid, Slots, Ownership
        <5>3. QED
          BY <5>1, <5>2, NewStep
      <4>2. Step({}, Free("result"), e4, e2)
        <5>1. Drops(e4, e2, "result")
          BY DEF e4, e2, Drops, Ownership, Owns, Written, Slots, Variables
        <5>2. QED
          BY <5>1, FreeStep
      <4>3. Step({}, New("result", {"tmp"}), e2, e4)
        <5>1. Gains(e2, e4, "result")
          BY DEF e2, e4, Gains, Ownership, Owns, Written, Slots, Variables
        <5>2. {"tmp"} \subseteq Valid(e2) \cup {"queue"}
          BY DEF e2, Valid, Slots, Ownership
        <5>3. QED
          BY <5>1, <5>2, NewStep
      <4>4. Step({}, Free("tmp"), e4, e3)
        <5>1. Drops(e4, e3, "tmp")
          BY DEF e4, e3, Drops, Ownership, Owns, Written, Slots, Variables
        <5>2. QED
          BY <5>1, FreeStep
      <4> DEFINE p == << New("tmp", {"result"}), Free("result"),
        New("result", {"tmp"}), Free("tmp") >>
                 A == <<e3, e4, e2, e4, e3>>
      <4>5. Tuple(p, 4)
        BY DEF Tuple
      <4>6. Steps({}, p, A, 4)
        BY <4>1, <4>2, <4>3, <4>4 DEF Steps
      <4>7. A[1] = e3 /\ A[4 + 1] = e3
        OBVIOUS
      <4> HIDE DEF p, A
      <4>8. Typed({}, p, e3, e3)
        BY <4>5, <4>6, <4>7, Straight
      <4>9. QED
        BY <4>8 DEF p
    <3>2. QED
      BY <3>1, RepeatStep
  <2>13. Step({}, Move("tmp", "result"), e3, e2)
    <3>1. Drops(e3, e1, "result")
      BY DEF e3, e1, Drops, Ownership, Owns, Written, Slots, Variables
    <3>2. Gains(e1, e2, "tmp")
      BY DEF e1, e2, Gains, Ownership, Owns, Written, Slots, Variables
    <3>3. "tmp" \notin Slots(e3)
      BY DEF e3, Slots, Ownership
    <3>4. QED
      BY <3>1, <3>2, <3>3, MoveStep
  <2>14. Step({}, New("result", {"tmp"}), e2, e4)
    <3>1. Gains(e2, e4, "result")
      BY DEF e2, e4, Gains, Ownership, Owns, Written, Slots, Variables
    <3>2. {"tmp"} \subseteq Valid(e2) \cup {"queue"}
      BY DEF e2, Valid, Slots, Ownership
    <3>3. QED
      BY <3>1, <3>2, NewStep
  <2>15. Step({}, Free("tmp"), e4, e3)
    <3>1. Drops(e4, e3, "tmp")
      BY DEF e4, e3, Drops, Ownership, Owns, Written, Slots, Variables
    <3>2. QED
      BY <3>1, FreeStep
  <2>16. Step({}, FreeAll, e3, e8)
    <3>1. Queues(e3, e8, 0)
      BY DEF e3, e8, Queues, Owns, Same, Ownership
    <3>2. QED
      BY <3>1, FreeAllStep
  <2>17. Step({}, Return("result"), e8, Over)
    <3>1. "result" \in e8.own /\ Slots(e8) = {"result"} /\ e8.queue = 0
      /\ {} \subseteq e8.entry
      BY DEF e8, Slots, Ownership
    <3>2. QED
      BY <3>1, ReturnStep
  <2> DEFINE p == << Repeat(<< Apply("ldlf", "tmp"), Push("tmp") >>),
    New("result", {"queue", "a"}), New("tmp", {"result"}), Free("result"),
    New("true", {}), New("product", {"tmp", "true"}), Free("true"),
    New("true", {"product"}), Free("product"), Move("result", "true"),
    Free("tmp"), Repeat(<< New("tmp", {"result"}), Free("result"),
    New("result", {"tmp"}), Free("tmp") >>), Move("tmp", "result"),
    New("result", {"tmp"}), Free("tmp"), FreeAll, Return("result") >>
             A == <<e1, e1, e3, e4, e2, e5, e6, e7, e6, e5, e4, e3, e3, e2,
               e4, e3, e8, Over>>
  <2>18. Tuple(p, 17)
    BY DEF Tuple
  <2>19. Steps({}, p, A, 17)
    BY <2>1, <2>2, <2>3, <2>4, <2>5, <2>6, <2>7, <2>8, <2>9, <2>10, <2>11,
      <2>12, <2>13, <2>14, <2>15, <2>16, <2>17 DEF Steps
  <2>20. A[1] = e1 /\ A[17 + 1] = Over
    OBVIOUS
  <2> HIDE DEF p, A
  <2>21. Typed({}, p, e1, Over)
    BY <2>18, <2>19, <2>20, Straight
  <2>22. QED
    BY <2>21 DEF p
<1>2. star = << Repeat(<< Apply("ldlf", "tmp"), Push("tmp") >>),
  New("result", {"queue", "a"}), New("tmp", {"result"}), Free("result"),
  New("true", {}), New("product", {"tmp", "true"}), Free("true"), New("true",
  {"product"}), Free("product"), Move("result", "true"), Free("tmp"),
  Repeat(<< New("tmp", {"result"}), Free("result"), New("result", {"tmp"}),
  Free("tmp") >>), Move("tmp", "result"), New("result", {"tmp"}),
  Free("tmp"), FreeAll, Return("result") >>
  <2> DEFINE S == {Repeat(<< Apply("ldlf", "tmp"), Push("tmp") >>),
    New("result", {"queue", "a"}), New("tmp", {"result"}), Free("result"),
    New("true", {}), New("product", {"tmp", "true"}), Free("true"),
    New("true", {"product"}), Free("product"), Move("result", "true"),
    Free("tmp"), Repeat(<< New("tmp", {"result"}), Free("result"),
    New("result", {"tmp"}), Free("tmp") >>), Move("tmp", "result"),
    New("result", {"tmp"}), FreeAll, Return("result")}
             a1 == << Repeat(<< Apply("ldlf", "tmp"), Push("tmp") >>),
               New("result", {"queue", "a"}), New("tmp", {"result"}),
               Free("result") >>
             a2 == << New("true", {}), New("product", {"tmp", "true"}),
               Free("true"), New("true", {"product"}), Free("product"),
               Move("result", "true") >>
             a3 == << Free("tmp"), Repeat(<< New("tmp", {"result"}),
               Free("result"), New("result", {"tmp"}), Free("tmp") >>),
               Move("tmp", "result"), New("result", {"tmp"}), Free("tmp"),
               FreeAll, Return("result") >>
             b2 == << Repeat(<< Apply("ldlf", "tmp"), Push("tmp") >>),
               New("result", {"queue", "a"}), New("tmp", {"result"}),
               Free("result"), New("true", {}), New("product", {"tmp",
               "true"}), Free("true"), New("true", {"product"}),
               Free("product"), Move("result", "true") >>
             b3 == << Repeat(<< Apply("ldlf", "tmp"), Push("tmp") >>),
               New("result", {"queue", "a"}), New("tmp", {"result"}),
               Free("result"), New("true", {}), New("product", {"tmp",
               "true"}), Free("true"), New("true", {"product"}),
               Free("product"), Move("result", "true"), Free("tmp"),
               Repeat(<< New("tmp", {"result"}), Free("result"),
               New("result", {"tmp"}), Free("tmp") >>), Move("tmp",
               "result"), New("result", {"tmp"}), Free("tmp"), FreeAll,
               Return("result") >>
  <2>1. Parts(S, a1, a2, b2, 4, 6)
    BY DEF Parts
  <2>2. Parts(S, b2, a3, b3, 10, 7)
    BY DEF Parts
  <2> HIDE DEF S, a1, a2, a3, b2, b3
  <2>3. a1 \o a2 = b2 /\ b2 \o a3 = b3
    BY <2>1, <2>2, Joined
  <2>4. star = (a1 \o a2) \o a3
    BY DEF star, remove_unreachable_states, ProjectOnce, dfaProduct,
      dfaMinimize, dfaProject, a1, a2, a3
  <2>5. QED
    BY <2>3, <2>4 DEF b3
<1>3. QED
  BY <1>1, <1>2 DEF e1

LEMMA AcceptEmptyTyped ==
  Typed({}, dfa_accept_empty, Ownership({}, {}, {"a"}, {}, {}, 0, 0), Over)
<1> DEFINE e1 == Ownership({}, {}, {"a"}, {}, {}, 0, 0)
           e2 == Ownership({"tmp"}, {}, {"a"}, {}, {}, 0, 0)
           e3 == Ownership({"result", "tmp"}, {}, {"a"}, {}, {}, 0, 0)
           e4 == Ownership({"result"}, {}, {"a"}, {}, {}, 0, 0)
<1> HIDE DEF e1, e2, e3, e4
<1>1. Typed({}, << New("tmp", {}), New("result", {"tmp", "a"}), Free("tmp"),
  Return("result") >>, e1, Over)
  <2>1. Step({}, New("tmp", {}), e1, e2)
    <3>1. Gains(e1, e2, "tmp")
      BY DEF e1, e2, Gains, Ownership, Owns, Written, Slots, Variables
    <3>2. {} \subseteq Valid(e1) \cup {"queue"}
      BY DEF e1, Valid, Slots, Ownership
    <3>3. QED
      BY <3>1, <3>2, NewStep
  <2>2. Step({}, New("result", {"tmp", "a"}), e2, e3)
    <3>1. Gains(e2, e3, "result")
      BY DEF e2, e3, Gains, Ownership, Owns, Written, Slots, Variables
    <3>2. {"tmp", "a"} \subseteq Valid(e2) \cup {"queue"}
      BY DEF e2, Valid, Slots, Ownership
    <3>3. QED
      BY <3>1, <3>2, NewStep
  <2>3. Step({}, Free("tmp"), e3, e4)
    <3>1. Drops(e3, e4, "tmp")
      BY DEF e3, e4, Drops, Ownership, Owns, Written, Slots, Variables
    <3>2. QED
      BY <3>1, FreeStep
  <2>4. Step({}, Return("result"), e4, Over)
    <3>1. "result" \in e4.own /\ Slots(e4) = {"result"} /\ e4.queue = 0
      /\ {} \subseteq e4.entry
      BY DEF e4, Slots, Ownership
    <3>2. QED
      BY <3>1, ReturnStep
  <2> DEFINE p == << New("tmp", {}), New("result", {"tmp", "a"}),
    Free("tmp"), Return("result") >>
             A == <<e1, e2, e3, e4, Over>>
  <2>5. Tuple(p, 4)
    BY DEF Tuple
  <2>6. Steps({}, p, A, 4)
    BY <2>1, <2>2, <2>3, <2>4 DEF Steps
  <2>7. A[1] = e1 /\ A[4 + 1] = Over
    OBVIOUS
  <2> HIDE DEF p, A
  <2>8. Typed({}, p, e1, Over)
    BY <2>5, <2>6, <2>7, Straight
  <2>9. QED
    BY <2>8 DEF p
<1>2. QED
  BY <1>1 DEF e1, dfa_accept_empty, dfaProduct

LEMMA ConcatenateTyped ==
  Typed({}, dfa_concatenate, Ownership({}, {}, {"a", "b"}, {}, {}, 0, 0), Over)
<1> DEFINE e1 == Ownership({}, {}, {"a", "b"}, {}, {}, 0, 0)
           e2 == Ownership({"result"}, {}, {"a", "b"}, {}, {}, 0, 0)
           e3 == Ownership({"result", "tmp"}, {}, {"a", "b"}, {}, {}, 0, 0)
           e4 == Ownership({"tmp"}, {}, {"a", "b"}, {}, {}, 0, 0)
<1> HIDE DEF e1, e2, e3, e4
<1>1. Typed({}, << New("result", {"a", "b"}), New("tmp", {"result"}),
  Free("result"), New("result", {"tmp"}), Free("tmp"), Return("result") >>,
  e1, Over)
  <2>1. Step({}, New("result", {"a", "b"}), e1, e2)
    <3>1. Gains(e1, e2, "result")
      BY DEF e1, e2, Gains, Ownership, Owns, Written, Slots, Variables
    <3>2. {"a", "b"} \subseteq Valid(e1) \cup {"queue"}
      BY DEF e1, Valid, Slots, Ownership
    <3>3. QED
      BY <3>1, <3>2, NewStep
  <2>2. Step({}, New("tmp", {"result"}), e2, e3)
    <3>1. Gains(e2, e3, "tmp")
      BY DEF e2, e3, Gains, Ownership, Owns, Written, Slots, Variables
    <3>2. {"result"} \subseteq Valid(e2) \cup {"queue"}
      BY DEF e2, Valid, Slots, Ownership
    <3>3. QED
      BY <3>1, <3>2, NewStep
  <2>3. Step({}, Free("result"), e3, e4)
    <3>1. Drops(e3, e4, "result")
      BY DEF e3, e4, Drops, Ownership, Owns, Written, Slots, Variables
    <3>2. QED
      BY <3>1, FreeStep
  <2>4. Step({}, New("result", {"tmp"}), e4, e3)
    <3>1. Gains(e4, e3, "result")
      BY DEF e4, e3, Gains, Ownership, Owns, Written, Slots, Variables
    <3>2. {"tmp"} \subseteq Valid(e4) \cup {"queue"}
      BY DEF e4, Valid, Slots, Ownership
    <3>3. QED
      BY <3>1, <3>2, NewStep
  <2>5. Step({}, Free("tmp"), e3, e2)
    <3>1. Drops(e3, e2, "tmp")
      BY DEF e3, e2, Drops, Ownership, Owns, Written, Slots, Variables
    <3>2. QED
      BY <3>1, FreeStep
  <2>6. Step({}, Return("result"), e2, Over)
    <3>1. "result" \in e2.own /\ Slots(e2) = {"result"} /\ e2.queue = 0
      /\ {} \subseteq e2.entry
      BY DEF e2, Slots, Ownership
    <3>2. QED
      BY <3>1, ReturnStep
  <2> DEFINE p == << New("result", {"a", "b"}), New("tmp", {"result"}),
    Free("result"), New("result", {"tmp"}), Free("tmp"), Return("result") >>
             A == <<e1, e2, e3, e4, e3, e2, Over>>
  <2>7. Tuple(p, 6)
    BY DEF Tuple
  <2>8. Steps({}, p, A, 6)
    BY <2>1, <2>2, <2>3, <2>4, <2>5, <2>6 DEF Steps
  <2>9. A[1] = e1 /\ A[6 + 1] = Over
    OBVIOUS
  <2> HIDE DEF p, A
  <2>10. Typed({}, p, e1, Over)
    BY <2>7, <2>8, <2>9, Straight
  <2>11. QED
    BY <2>10 DEF p
<1>2. QED
  BY <1>1 DEF e1, dfa_concatenate, BuildAndProject, dfaProject, dfaMinimize

LEMMA ClosureTyped ==
  Typed({}, dfa_closure, Ownership({}, {}, {"a"}, {}, {}, 0, 0), Over)
<1> DEFINE e1 == Ownership({}, {}, {"a"}, {}, {}, 0, 0)
           e2 == Ownership({"result"}, {}, {"a"}, {}, {}, 0, 0)
           e3 == Ownership({"result", "tmp"}, {}, {"a"}, {}, {}, 0, 0)
           e4 == Ownership({"tmp"}, {}, {"a"}, {}, {}, 0, 0)
<1> HIDE DEF e1, e2, e3, e4
<1>1. Typed({}, << New("result", {"a"}), New("tmp", {"result"}),
  Free("result"), New("result", {"tmp"}), Free("tmp"), Return("result") >>,
  e1, Over)
  <2>1. Step({}, New("result", {"a"}), e1, e2)
    <3>1. Gains(e1, e2, "result")
      BY DEF e1, e2, Gains, Ownership, Owns, Written, Slots, Variables
    <3>2. {"a"} \subseteq Valid(e1) \cup {"queue"}
      BY DEF e1, Valid, Slots, Ownership
    <3>3. QED
      BY <3>1, <3>2, NewStep
  <2>2. Step({}, New("tmp", {"result"}), e2, e3)
    <3>1. Gains(e2, e3, "tmp")
      BY DEF e2, e3, Gains, Ownership, Owns, Written, Slots, Variables
    <3>2. {"result"} \subseteq Valid(e2) \cup {"queue"}
      BY DEF e2, Valid, Slots, Ownership
    <3>3. QED
      BY <3>1, <3>2, NewStep
  <2>3. Step({}, Free("result"), e3, e4)
    <3>1. Drops(e3, e4, "result")
      BY DEF e3, e4, Drops, Ownership, Owns, Written, Slots, Variables
    <3>2. QED
      BY <3>1, FreeStep
  <2>4. Step({}, New("result", {"tmp"}), e4, e3)
    <3>1. Gains(e4, e3, "result")
      BY DEF e4, e3, Gains, Ownership, Owns, Written, Slots, Variables
    <3>2. {"tmp"} \subseteq Valid(e4) \cup {"queue"}
      BY DEF e4, Valid, Slots, Ownership
    <3>3. QED
      BY <3>1, <3>2, NewStep
  <2>5. Step({}, Free("tmp"), e3, e2)
    <3>1. Drops(e3, e2, "tmp")
      BY DEF e3, e2, Drops, Ownership, Owns, Written, Slots, Variables
    <3>2. QED
      BY <3>1, FreeStep
  <2>6. Step({}, Return("result"), e2, Over)
    <3>1. "result" \in e2.own /\ Slots(e2) = {"result"} /\ e2.queue = 0
      /\ {} \subseteq e2.entry
      BY DEF e2, Slots, Ownership
    <3>2. QED
      BY <3>1, ReturnStep
  <2> DEFINE p == << New("result", {"a"}), New("tmp", {"result"}),
    Free("result"), New("result", {"tmp"}), Free("tmp"), Return("result") >>
             A == <<e1, e2, e3, e4, e3, e2, Over>>
  <2>7. Tuple(p, 6)
    BY DEF Tuple
  <2>8. Steps({}, p, A, 6)
    BY <2>1, <2>2, <2>3, <2>4, <2>5, <2>6 DEF Steps
  <2>9. A[1] = e1 /\ A[6 + 1] = Over
    OBVIOUS
  <2> HIDE DEF p, A
  <2>10. Typed({}, p, e1, Over)
    BY <2>7, <2>8, <2>9, Straight
  <2>11. QED
    BY <2>10 DEF p
<1>2. QED
  BY <1>1 DEF e1, dfa_closure, BuildAndProject, dfaProject, dfaMinimize

-----------------------------------------------------------------------------
(* A call starts with variables that are Null, but for its arguments and    *)
(* the body that a visitor shares.                                          *)
LEMMA Started ==
  ASSUME NEW regs \in [Variables -> Handles \cup {Null}], NEW members \in Nat, NEW below,
         NEW entry, NEW opt, NEW ref, NEW same, NEW queue \in 0 .. 2, NEW many,
         opt \cup ref \cup same \subseteq Variables,
         \A r \in opt : regs[r] = Null, \A r \in ref : regs[r] \in below,
         \A r \in same : regs[r] = entry, many = 1 => members > 0
  PROVE  /\ Holds(regs, {}, members, Ownership({}, opt, ref, {}, same, queue, many), below, entry)
         /\ Owned(regs, {}, Ownership({}, opt, ref, {}, same, queue, many)) = {}
<1> DEFINE e == Ownership({}, opt, ref, {}, same, queue, many)
<1>1. /\ e.own = {} /\ Slots(e) = opt /\ e.ref = ref /\ e.near = {} /\ e.entry = same
      /\ e.queue = queue /\ e.many = many /\ e.over = 0
  BY DEF Ownership, Slots
<1>2. IsFiniteSet({})
  BY FS_EmptySet
<1> HIDE DEF e
<1>3. Owned(regs, {}, e) = {}
  BY <1>1 DEF Owned
<1>4. Holds(regs, {}, members, e, below, entry)
  BY <1>1, <1>2, <1>3 DEF Holds
<1>5. QED
  BY <1>3, <1>4 DEF e

Kept(family) == IF SameVisitor(family) THEN {"current_formula"} ELSE {}
Given(family) == IF family = "regex" THEN {"current_formula"} ELSE {}
Visit(family, program, opt, many) ==
  /\ Typed(Kept(family), program, Ownership({}, opt, Given(family), {}, Kept(family), 0, many), Over)
  /\ opt \subseteq Variables \ {"current_formula"} /\ many \in 0 .. 1
  /\ many = 1 => Loops(program)

LEMMA VisitsTyped ==
  ASSUME NEW family \in {"ldlf", "regex", "prop"}, NEW program \in Visits(family)
  PROVE  \E opt, many : Visit(family, program, opt, many)
<1>1. CASE family = "ldlf"
  <2>1. Kept(family) = {} /\ Given(family) = {}
    BY <1>1 DEF Kept, Given, SameVisitor
  <2>2. program = dfa_and_or(family) \/ program = visit_LDLfNot \/ program = visit_LDLfModality
    BY <1>1 DEF Visits
  <2>3. Typed({}, program, Ownership({}, {}, {}, {}, {}, 0, 0), Over)
    BY <1>1, <2>2, AndOrTyped, NotTyped, ModalityTyped
  <2>4. Visit(family, program, {}, 0)
    BY <2>1, <2>3 DEF Visit
  <2>5. QED
    BY <2>4
<1>2. CASE family = "prop"
  <2>1. Kept(family) = {"current_formula"} /\ Given(family) = {}
    BY <1>2 DEF Kept, Given, SameVisitor
  <2>2. program = dfa_and_or(family)
    BY <1>2 DEF Visits
  <2>3. Typed({"current_formula"}, program, Ownership({}, {}, {}, {}, {"current_formula"}, 0, 0), Over)
    BY <1>2, <2>2, AndOrTyped
  <2>4. Visit(family, program, {}, 0)
    BY <2>1, <2>3 DEF Visit
  <2>5. QED
    BY <2>4
<1>3. CASE family = "regex"
  <2> DEFINE K == {"current_formula"}
  <2>1. Kept(family) = K /\ Given(family) = K
    BY <1>3 DEF Kept, Given, SameVisitor
  <2>2. \/ program = visit_UnionRegExp \/ program = visit_SequenceRegExp
        \/ program = visit_TestRegExp \/ program = visit_PropositionalRegExp_diamond
        \/ program = visit_PropositionalRegExp_box \/ program = test_free_star
        \/ program = general_star
    BY <1>3 DEF Visits
  <2>3. CASE program = visit_SequenceRegExp
    <3>1. Typed(K, program, Ownership({}, {"final"}, K, {}, K, 0, 1), Over)
      BY <2>3, SequenceTyped
    <3>2. Loops(program)
      <4>1. /\ ForEach(<< Apply("regex", "tmp"), IfNotNull("final", << Free("final") >>),
                dfaMinimize("final", "tmp"), Alias("current_formula", "final"),
                Free("tmp") >>).op = "for_each"
        BY DEF ForEach
      <4>2. program[2] = ForEach(<< Apply("regex", "tmp"), IfNotNull("final", << Free("final") >>),
                dfaMinimize("final", "tmp"), Alias("current_formula", "final"),
                Free("tmp") >>) /\ 2 \in DOMAIN program
        BY <2>3 DEF visit_SequenceRegExp
      <4>3. QED
        BY <4>1, <4>2 DEF Loops, ToSet
    <3>3. {"final"} \subseteq Variables \ {"current_formula"}
      BY DEF Variables
    <3>4. Visit(family, program, {"final"}, 1)
      BY <2>1, <3>1, <3>2, <3>3 DEF Visit
    <3>5. QED
      BY <3>4
  <2>4. CASE program # visit_SequenceRegExp
    <3>1. Typed(K, program, Ownership({}, {}, K, {}, K, 0, 0), Over)
      BY <2>2, <2>4, UnionTyped, TestTyped, DiamondTyped, BoxTyped, TestFreeStarTyped, GeneralStarTyped
    <3>2. Visit(family, program, {}, 0)
      BY <2>1, <3>1 DEF Visit
    <3>3. QED
      BY <3>2
  <2>5. QED
    BY <2>3, <2>4
<1>4. QED
  BY <1>1, <1>2, <1>3

Arguments(function) == IF function = "dfa_concatenate" THEN {"a", "b"} ELSE {"a"}
LEMMA FunctionsTyped ==
  ASSUME NEW function \in {"star", "dfa_accept_empty", "dfa_closure", "dfa_concatenate"}
  PROVE  \E queue \in 0 .. 2 :
           Typed({}, Body(function), Ownership({}, {}, Arguments(function), {}, {}, queue, 0), Over)
<1>1. CASE function = "star"
  BY <1>1, StarTyped DEF Body, Arguments
<1>2. CASE function = "dfa_accept_empty"
  BY <1>2, AcceptEmptyTyped DEF Body, Arguments
<1>3. CASE function = "dfa_closure"
  BY <1>3, ClosureTyped DEF Body, Arguments
<1>4. CASE function = "dfa_concatenate"
  BY <1>4, ConcatenateTyped DEF Body, Arguments
<1>5. QED
  BY <1>1, <1>2, <1>3, <1>4

-----------------------------------------------------------------------------
(* The innermost call, its ownership e, and what is known, d, behind its    *)
(* next statement.                                                          *)
At(env, n, e, b, en, kp, R, d) ==
  /\ Owning(stack, env, live) /\ n = Len(stack) /\ n \in Nat /\ n >= 1 /\ stack[n] = top
  /\ b = Below(stack, env, n) /\ en = Entry(stack, n) /\ kp = Keep(stack, n) /\ e = env[n]
  /\ live = b \cup Has(top, e) /\ Ready(top, e, b, en, kp, n, R, d)

LEMMA Innermost ==
  ASSUME NEW env, Owning(stack, env, live)
  PROVE  /\ Len(stack) \in Nat /\ Len(stack) >= 1 /\ stack[Len(stack)] = top
         /\ live = Below(stack, env, Len(stack)) \cup Has(top, env[Len(stack)])
         /\ Fits(top, env[Len(stack)], Below(stack, env, Len(stack)),
                 Entry(stack, Len(stack)), Keep(stack, Len(stack)), Len(stack))
<1> DEFINE n == Len(stack)
           k == n + 1
<1>1. n \in Nat /\ n >= 1 /\ Fine(stack, env, n) /\ live = Below(stack, env, k)
  BY DEF Owning
<1>2. stack[n] = top
  BY DEF top, Last
<1>3. k = n + 1
  OBVIOUS
<1> HIDE DEF n, k
<1>4. live = Below(stack, env, n) \cup Has(stack[n], env[n])
  BY <1>1, <1>3, BelowNext
<1>5. QED
  BY <1>1, <1>2, <1>4 DEF Fine, n

LEMMA Doing ==
  ASSUME Inv, top.todo # <<>>
  PROVE  \E env, n, e, b, en, kp, R, d : At(env, n, e, b, en, kp, R, d)
<1>1. PICK env : Owning(stack, env, live)
  BY DEF Inv
<1> DEFINE n == Len(stack)
           e == env[n]
           b == Below(stack, env, n)
           en == Entry(stack, n)
           kp == Keep(stack, n)
<1>2. /\ n \in Nat /\ n >= 1 /\ stack[n] = top /\ live = b \cup Has(top, e)
      /\ Fits(top, e, b, en, kp, n)
  BY <1>1, Innermost
<1>3. n = Len(stack) /\ b = Below(stack, env, n) /\ en = Entry(stack, n) /\ kp = Keep(stack, n) /\ e = env[n]
  OBVIOUS
<1> HIDE DEF n, e, b, en, kp
<1>4. Program(kp, top.todo, e, n)
  BY <1>2 DEF Fits
<1>5. PICK R, d : Begins(R, kp, top.todo, e, d, n)
  BY <1>4, FirstStatement
<1>6. At(env, n, e, b, en, kp, R, d)
  BY <1>1, <1>2, <1>3, <1>5 DEF At, Ready
<1>7. QED
  BY <1>6

LEMMA Done ==
  ASSUME NEW env, NEW n, NEW e, NEW b, NEW en, NEW kp, NEW R, NEW d, At(env, n, e, b, en, kp, R, d),
         NEW g, Becomes(g), NEW c, Fits(g, c, b, en, kp, n), live' = b \cup Has(g, c)
  PROVE  Inv'
<1>1. /\ Owning(stack, env, live) /\ n = Len(stack) /\ b = Below(stack, env, n)
      /\ en = Entry(stack, n) /\ kp = Keep(stack, n)
  BY DEF At
<1>2. stack' = Append(Front(stack), g)
  BY DEF Becomes
<1>3. \E env2 : Owning(stack', env2, live')
  <2> DEFINE t == stack'
             l2 == live'
  <2>1. t = Append(Front(stack), g) /\ l2 = Below(stack, env, n) \cup Has(g, c)
    BY <1>1, <1>2
  <2>2. Fits(g, c, Below(stack, env, n), Entry(stack, n), Keep(stack, n), n)
    BY <1>1
  <2> HIDE DEF t, l2
  <2>3. \E env2 : Owning(t, env2, l2)
    BY <1>1, <2>1, <2>2, TopStep
  <2>4. QED
    BY <2>3 DEF t, l2
<1>4. QED
  BY <1>3 DEF Inv

LEMMA Ruled ==
  ASSUME NEW env, NEW n, NEW e, NEW b, NEW en, NEW kp, NEW R, NEW d, At(env, n, e, b, en, kp, R, d)
  PROVE  /\ Ready(top, e, b, en, kp, n, R, d) /\ IsFrame(top)
         /\ Rule(R, kp, statement, e, d) /\ statement = Head(top.todo) /\ rest = Tail(top.todo)
         /\ live = b \cup Has(top, e) /\ Has(top, e) \cap b = {} /\ top.regs \in [Variables -> Handles \cup {Null}]
         /\ top.queue \subseteq Handles
<1>1. Ready(top, e, b, en, kp, n, R, d) /\ live = b \cup Has(top, e)
  BY DEF At
<1>2. Rule(R, kp, statement, e, d)
  BY <1>1 DEF Ready, Begins, statement
<1>3. Knows(top, e, b, en) /\ IsFrame(top)
  BY <1>1 DEF Ready, Fits
<1>4. Has(top, e) \cap b = {} /\ top.regs \in [Variables -> Handles \cup {Null}] /\ top.queue \subseteq Handles
  BY <1>3 DEF Knows, Holds, Has
<1>5. QED
  BY <1>1, <1>2, <1>3, <1>4 DEF statement, rest

LEMMA LiveHandles ==
  ASSUME NEW env, Owning(stack, env, live)
  PROVE  live \subseteq Handles
<1> SUFFICES ASSUME NEW h \in live
             PROVE  h \in Handles
  OBVIOUS
<1>1. live = UNION {Has(stack[j], env[j]) : j \in 1 .. (Len(stack) + 1) - 1} /\ Len(stack) \in Nat
  BY DEF Owning, Below
<1>2. PICK j \in 1 .. (Len(stack) + 1) - 1 : h \in Has(stack[j], env[j])
  BY <1>1
<1>3. j \in 1 .. Len(stack)
  BY <1>1
<1>4. Fits(stack[j], env[j], Below(stack, env, j), Entry(stack, j), Keep(stack, j), j)
  BY <1>3 DEF Owning, Fine
<1>5. Has(stack[j], env[j]) \subseteq Handles
  BY <1>4 DEF Fits, Knows, Holds, Has, Owned
<1>6. QED
  BY <1>2, <1>5

(* The statements, as steps of the innermost call.                          *)
LEMMA AllocateStep ==
  ASSUME NEW env, NEW n, NEW e, NEW b, NEW en, NEW kp, NEW R, NEW d, At(env, n, e, b, en, kp, R, d),
         Gains(e, d, statement.to), Allocate(statement.to)
  PROVE  Inv'
<1>0. Ready(top, e, b, en, kp, n, R, d) /\ statement = Head(top.todo)
  BY Ruled
<1>1. /\ IsFrame(top) /\ statement = Head(top.todo) /\ rest = Tail(top.todo)
      /\ live = b \cup Has(top, e) /\ Has(top, e) \cap b = {}
  BY Ruled
<1>2. PICK h \in Unused(live) : live' = live \cup {h} /\ Set(statement.to, h)
  BY DEF Allocate
<1>3. Fresh(h, b, Has(top, e))
  <2>1. live \subseteq Handles
    BY LiveHandles DEF At
  <2>3. QED
    BY <1>1, <2>1, HandlesAssumption DEF Fresh
<1> DEFINE to == statement.to
           g == [top EXCEPT !.todo = rest, !.regs[to] = h]
<1>4. Becomes(g)
  BY <1>2 DEF Set
<1>5. Consists(g, Tail(top.todo), Put(top.regs, to, h), top.queue, top.members)
  BY <1>1, FrameShape
<1>6. Gains(e, d, to) /\ Into(top, to)
  BY <1>0 DEF Into
<1> HIDE DEF g, to
<1>7. Fits(g, d, b, en, kp, n) /\ Has(g, d) = Has(top, e) \cup {h}
  BY <1>0, <1>3, <1>5, <1>6, Created
<1>8. live' = b \cup Has(g, d)
  BY <1>1, <1>2, <1>7
<1>9. QED
  BY <1>4, <1>7, <1>8, Done

LEMMA LookStep ==
  ASSUME NEW env, NEW n, NEW e, NEW b, NEW en, NEW kp, NEW R, NEW d, At(env, n, e, b, en, kp, R, d),
         Look
  PROVE  Inv'
<1>0. Ready(top, e, b, en, kp, n, R, d) /\ statement = Head(top.todo)
  BY Ruled
<1>1. /\ IsFrame(top) /\ statement = Head(top.todo) /\ rest = Tail(top.todo)
      /\ live = b \cup Has(top, e) /\ Has(top, e) \cap b = {}
  BY Ruled
<1> DEFINE g == [top EXCEPT !.todo = rest]
<1>2. Becomes(g) /\ live' = live
  BY DEF Look, Continue
<1>3. Consists(g, Tail(top.todo), top.regs, top.queue, top.members)
  BY <1>1, FrameShape
<1> HIDE DEF g
<1>4. e = d
  BY Ruled, Kinds DEF Look, Looks
<1>5. Fits(g, d, b, en, kp, n) /\ Has(g, d) = Has(top, e)
  BY <1>0, <1>3, <1>4, Looked
<1>6. QED
  BY <1>1, <1>2, <1>5, Done

LEMMA ReleaseStep ==
  ASSUME NEW env, NEW n, NEW e, NEW b, NEW en, NEW kp, NEW R, NEW d, At(env, n, e, b, en, kp, R, d),
         Release
  PROVE  Inv'
<1>0. Ready(top, e, b, en, kp, n, R, d) /\ statement = Head(top.todo)
  BY Ruled
<1>1. /\ IsFrame(top) /\ statement = Head(top.todo) /\ rest = Tail(top.todo)
      /\ live = b \cup Has(top, e) /\ Has(top, e) \cap b = {}
  BY Ruled
<1>2. PICK r \in statement.reads : live' = live \ {top.regs[r]} /\ Set(r, Null)
  BY DEF Release
<1> DEFINE g == [top EXCEPT !.todo = rest, !.regs[r] = Null]
<1>3. Becomes(g)
  BY <1>2 DEF Set
<1>4. Consists(g, Tail(top.todo), Put(top.regs, r, Null), top.queue, top.members)
  BY <1>1, FrameShape
<1> HIDE DEF g
<1>5. Frees(Head(top.todo), e, d)
  BY <1>1, Ruled, Kinds DEF Release
<1>6. /\ Fits(g, d, b, en, kp, n) /\ Has(g, d) = Has(top, e) \ {top.regs[r]}
      /\ top.regs[r] \notin b
  BY <1>0, <1>4, <1>5, Freed
<1>7. live' = b \cup Has(g, d)
  BY <1>1, <1>2, <1>6
<1>8. QED
  BY <1>3, <1>6, <1>7, Done

LEMMA ReleaseAllStep ==
  ASSUME NEW env, NEW n, NEW e, NEW b, NEW en, NEW kp, NEW R, NEW d, At(env, n, e, b, en, kp, R, d),
         ReleaseAll
  PROVE  Inv'
<1>0. Ready(top, e, b, en, kp, n, R, d) /\ statement = Head(top.todo)
  BY Ruled
<1>1. /\ IsFrame(top) /\ statement = Head(top.todo) /\ rest = Tail(top.todo)
      /\ live = b \cup Has(top, e) /\ Has(top, e) \cap b = {}
  BY Ruled
<1> DEFINE g == [top EXCEPT !.todo = rest, !.queue = {}]
<1>2. Becomes(g) /\ live' = live \ top.queue
  BY DEF ReleaseAll
<1>3. Consists(g, Tail(top.todo), top.regs, {}, top.members)
  BY <1>1, FrameShape
<1> HIDE DEF g
<1>4. Queues(e, d, 0)
  BY Ruled, Kinds DEF ReleaseAll, FreesAll
<1>5. /\ Fits(g, d, b, en, kp, n) /\ Has(g, d) = Has(top, e) \ top.queue
      /\ top.queue \cap b = {}
  BY <1>0, <1>3, <1>4, FreedAll
<1>6. live' = b \cup Has(g, d)
  BY <1>1, <1>2, <1>5
<1>7. QED
  BY <1>2, <1>5, <1>6, Done

LEMMA CopyStep ==
  ASSUME NEW env, NEW n, NEW e, NEW b, NEW en, NEW kp, NEW R, NEW d, At(env, n, e, b, en, kp, R, d),
         Copy
  PROVE  Inv'
<1>0. Ready(top, e, b, en, kp, n, R, d) /\ statement = Head(top.todo)
  BY Ruled
<1>1. /\ IsFrame(top) /\ statement = Head(top.todo) /\ rest = Tail(top.todo)
      /\ live = b \cup Has(top, e) /\ Has(top, e) \cap b = {}
  BY Ruled
<1> DEFINE to == statement.to
           from == statement.from
           regs == Put(top.regs, to, top.regs[from])
           left == IF statement.op = "move" THEN Put(regs, from, Null) ELSE regs
           g == [top EXCEPT !.todo = rest, !.regs = left]
<1>2. Becomes(g) /\ live' = live /\ statement.op \in {"move", "alias"}
  BY DEF Copy, Put
<1>3. Consists(g, Tail(top.todo), left, top.queue, top.members)
  BY <1>1, FrameShape
<1>7. to = Head(top.todo).to /\ from = Head(top.todo).from
  BY <1>0
<1> HIDE DEF g, to, from
<1>4. CASE statement.op = "move"
  <2>1. Moves(Head(top.todo), e, d)
    BY <1>1, <1>4, Ruled, Kinds
  <2>2. Consists(g, Tail(top.todo), Put(Put(top.regs, to, top.regs[from]), from, Null),
                 top.queue, top.members)
    BY <1>3, <1>4
  <2>3. Fits(g, d, b, en, kp, n) /\ Has(g, d) = Has(top, e)
    BY <1>0, <1>7, <2>1, <2>2, Moved
  <2>4. QED
    BY <1>1, <1>2, <2>3, Done
<1>5. CASE statement.op = "alias"
  <2>1. Renames(Head(top.todo), e, d)
    BY <1>1, <1>5, Ruled, Kinds
  <2>2. Consists(g, Tail(top.todo), Put(top.regs, to, top.regs[from]), top.queue, top.members)
    BY <1>3, <1>5
  <2>3. Fits(g, d, b, en, kp, n) /\ Has(g, d) = Has(top, e)
    BY <1>0, <1>7, <2>1, <2>2, Renamed
  <2>4. QED
    BY <1>1, <1>2, <2>3, Done
<1>6. QED
  BY <1>2, <1>4, <1>5

LEMMA EnqueueStep ==
  ASSUME NEW env, NEW n, NEW e, NEW b, NEW en, NEW kp, NEW R, NEW d, At(env, n, e, b, en, kp, R, d),
         Enqueue
  PROVE  Inv'
<1>0. Ready(top, e, b, en, kp, n, R, d) /\ statement = Head(top.todo)
  BY Ruled
<1>1. /\ IsFrame(top) /\ statement = Head(top.todo) /\ rest = Tail(top.todo)
      /\ live = b \cup Has(top, e) /\ Has(top, e) \cap b = {}
  BY Ruled
<1> DEFINE from == statement.from
           more == top.queue \cup {top.regs[from]}
           g == [top EXCEPT !.todo = rest, !.queue = more, !.regs[from] = Null]
<1>2. Becomes(g) /\ live' = live /\ statement.op = "push"
  BY DEF Enqueue
<1>3. Consists(g, Tail(top.todo), Put(top.regs, from, Null), more, top.members)
  BY <1>1, FrameShape
<1>4. Pushes(Head(top.todo), e, d)
  BY <1>1, <1>2, Ruled, Kinds
<1>5. Adds(top, from, more)
  BY <1>0 DEF Adds
<1> HIDE DEF g, more, from
<1>6. Fits(g, d, b, en, kp, n) /\ Has(g, d) = Has(top, e)
  BY <1>0, <1>3, <1>4, <1>5, Pushed
<1>7. QED
  BY <1>1, <1>2, <1>6, Done

LEMMA DequeueStep ==
  ASSUME NEW env, NEW n, NEW e, NEW b, NEW en, NEW kp, NEW R, NEW d, At(env, n, e, b, en, kp, R, d),
         Dequeue
  PROVE  Inv'
<1>0. Ready(top, e, b, en, kp, n, R, d) /\ statement = Head(top.todo)
  BY Ruled
<1>1. /\ IsFrame(top) /\ statement = Head(top.todo) /\ rest = Tail(top.todo)
      /\ live = b \cup Has(top, e) /\ Has(top, e) \cap b = {}
  BY Ruled
<1>2. PICK h \in top.queue :
        Becomes([top EXCEPT !.todo = rest, !.queue = @ \ {h}, !.regs[statement.to] = h])
  BY DEF Dequeue
<1> DEFINE to == statement.to
           left == top.queue \ {h}
           g == [top EXCEPT !.todo = rest, !.queue = left, !.regs[to] = h]
<1>3. Becomes(g) /\ live' = live /\ statement.op = "pop"
  BY <1>2 DEF Dequeue
<1>4. Consists(g, Tail(top.todo), Put(top.regs, to, h), left, top.members)
  BY <1>1, FrameShape
<1>5. Pops(Head(top.todo), e, d)
  BY <1>1, <1>3, Ruled, Kinds
<1>6. Takes(top, to, h, left)
  BY <1>0, <1>2 DEF Takes
<1> HIDE DEF g, left, to
<1>7. Fits(g, d, b, en, kp, n) /\ Has(g, d) = Has(top, e)
  BY <1>0, <1>4, <1>5, <1>6, Popped
<1>8. QED
  BY <1>1, <1>3, <1>7, Done

LEMMA BranchStep ==
  ASSUME NEW env, NEW n, NEW e, NEW b, NEW en, NEW kp, NEW R, NEW d, At(env, n, e, b, en, kp, R, d),
         Branch
  PROVE  Inv'
<1>0. Ready(top, e, b, en, kp, n, R, d) /\ statement = Head(top.todo)
  BY Ruled
<1>1. /\ IsFrame(top) /\ statement = Head(top.todo) /\ rest = Tail(top.todo)
      /\ live = b \cup Has(top, e) /\ Has(top, e) \cap b = {}
  BY Ruled
<1> DEFINE body == statement.body \o top.todo
           next == statement.then \o rest
<1>2. live' = live
  BY DEF Branch
<1>3. ASSUME NEW t, Continue(t)
      PROVE  /\ Becomes([top EXCEPT !.todo = t])
             /\ Consists([top EXCEPT !.todo = t], t, top.regs, top.queue, top.members)
  BY <1>1, <1>3, FrameShape DEF Continue
<1>4. ASSUME NEW g, Becomes(g), NEW c,
             Fits(g, c, b, en, kp, n), Has(g, c) = Has(top, e)
      PROVE  Inv'
  BY <1>1, <1>2, <1>4, Done
<1>5. CASE statement.op = "for_each" /\ top.members > 0
           /\ Becomes([top EXCEPT !.todo = statement.body \o @, !.members = @ - 1])
  <2> DEFINE m == top.members - 1
             g == [top EXCEPT !.todo = body, !.members = m]
  <2>1. Becomes(g)
    BY <1>5
  <2>2. Consists(g, body, top.regs, top.queue, m)
    BY <1>1, FrameShape
  <2> HIDE DEF g
  <2>3. Visiting(R, statement, e, d)
    BY <1>1, <1>5, Ruled, Kinds
  <2>4. PICK c : Fits(g, c, b, en, kp, n) /\ Has(g, c) = Has(top, e)
    BY <1>0, <1>5, <2>2, <2>3, Visited
  <2>5. QED
    BY <1>4, <2>1, <2>4
<1>6. CASE statement.op = "for_each" /\ top.members = 0 /\ Continue(rest)
  <2> DEFINE g == [top EXCEPT !.todo = rest]
  <2>1. Becomes(g) /\ Consists(g, Tail(top.todo), top.regs, top.queue, top.members)
    BY <1>1, <1>3, <1>6
  <2> HIDE DEF g
  <2>2. Visiting(R, Head(top.todo), e, d)
    BY <1>1, <1>6, Ruled, Kinds
  <2>3. Fits(g, d, b, en, kp, n) /\ Has(g, d) = Has(top, e)
    BY <1>0, <1>6, <2>1, <2>2, AllVisited
  <2>4. QED
    BY <1>4, <2>1, <2>3
<1>7. CASE statement.op \in {"repeat", "while_several"} /\ Continue(body)
  <2> DEFINE g == [top EXCEPT !.todo = body]
  <2>1. Becomes(g) /\ Consists(g, body, top.regs, top.queue, top.members)
    BY <1>3, <1>7
  <2> HIDE DEF g
  <2>2. Repeats(R, statement, e, d) \/ Merges(R, statement, e, d)
    BY <1>1, <1>7, Ruled, Kinds
  <2>3. Fits(g, e, b, en, kp, n) /\ Has(g, e) = Has(top, e)
    BY <1>0, <2>1, <2>2, Repeated
  <2>4. QED
    BY <1>4, <2>1, <2>3
<1>8. CASE statement.op \in {"repeat", "if_sink"} /\ Continue(rest)
  <2> DEFINE g == [top EXCEPT !.todo = rest]
  <2>1. Becomes(g) /\ Consists(g, Tail(top.todo), top.regs, top.queue, top.members)
    BY <1>1, <1>3, <1>8
  <2> HIDE DEF g
  <2>2. e = d
    BY <1>1, <1>8, Ruled, Kinds DEF Repeats, Tests
  <2>3. Fits(g, d, b, en, kp, n) /\ Has(g, d) = Has(top, e)
    BY <1>0, <2>1, <2>2, Looked
  <2>4. QED
    BY <1>4, <2>1, <2>3
<1>9. CASE statement.op = "while_several" /\ Cardinality(top.queue) <= 1 /\ Continue(rest)
  <2> DEFINE g == [top EXCEPT !.todo = rest]
  <2>1. Becomes(g) /\ Consists(g, Tail(top.todo), top.regs, top.queue, top.members)
    BY <1>1, <1>3, <1>9
  <2> HIDE DEF g
  <2>2. Merges(R, Head(top.todo), e, d)
    BY <1>1, <1>9, Ruled, Kinds
  <2>3. Fits(g, d, b, en, kp, n) /\ Has(g, d) = Has(top, e)
    BY <1>0, <1>9, <2>1, <2>2, Merged
  <2>4. QED
    BY <1>4, <2>1, <2>3
<1>10. CASE statement.op = "if_sink" /\ Continue(statement.exit)
  <2> DEFINE g == [top EXCEPT !.todo = statement.exit]
  <2>1. Becomes(g) /\ Consists(g, statement.exit, top.regs, top.queue, top.members)
    BY <1>3, <1>10
  <2> HIDE DEF g
  <2>2. Tests(R, statement, e, d)
    BY <1>1, <1>10, Ruled, Kinds
  <2>3. Fits(g, e, b, en, kp, n) /\ Has(g, e) = Has(top, e)
    BY <1>0, <2>1, <2>2, SinkFound
  <2>4. QED
    BY <1>4, <2>1, <2>3
<1>11. CASE statement.op = "if_not_null" /\ top.regs[statement.of] # Null /\ Continue(next)
  <2> DEFINE g == [top EXCEPT !.todo = next]
  <2>1. Becomes(g) /\ Consists(g, statement.then \o Tail(top.todo), top.regs, top.queue, top.members)
    BY <1>1, <1>3, <1>11
  <2> HIDE DEF g
  <2>2. Guards(R, statement, e, d)
    BY <1>1, <1>11, Ruled, Kinds
  <2>3. PICK c : Fits(g, c, b, en, kp, n) /\ Has(g, c) = Has(top, e)
    BY <1>0, <1>11, <2>1, <2>2, NotNull
  <2>4. QED
    BY <1>4, <2>1, <2>3
<1>12. CASE statement.op = "if_not_null" /\ top.regs[statement.of] = Null /\ Continue(rest)
  <2> DEFINE g == [top EXCEPT !.todo = rest]
  <2>1. Becomes(g) /\ Consists(g, Tail(top.todo), top.regs, top.queue, top.members)
    BY <1>1, <1>3, <1>12
  <2> HIDE DEF g
  <2>2. Guards(R, statement, e, d)
    BY <1>1, <1>12, Ruled, Kinds
  <2>3. Fits(g, d, b, en, kp, n) /\ Has(g, d) = Has(top, e)
    BY <1>0, <1>12, <2>1, <2>2, IsNull
  <2>4. QED
    BY <1>4, <2>1, <2>3
<1>13. QED
  BY <1>5, <1>6, <1>7, <1>8, <1>9, <1>10, <1>11, <1>12 DEF Branch

(* A call: its arguments and the body are allocated.                        *)
LEMMA Allocated ==
  ASSUME NEW f, NEW e, NEW below, NEW entry, Knows(f, e, below, entry), NEW r \in Valid(e)
  PROVE  f.regs[r] \in below \cup Has(f, e)
<1>1. CASE r \in e.own
  BY <1>1 DEF Knows, Holds, Has, Owned, Slots
<1>2. CASE r \in e.ref
  BY <1>2 DEF Knows, Holds
<1>3. CASE r \in e.near
  BY <1>3 DEF Knows, Holds, Has, Owned
<1>4. QED
  BY <1>1, <1>2, <1>3 DEF Valid

LEMMA ArgumentsLive ==
  ASSUME NEW env, NEW n, NEW e, NEW b, NEW en, NEW kp, NEW R, NEW d, At(env, n, e, b, en, kp, R, d),
         NEW r \in Valid(e)
  PROVE  top.regs[r] \in live
<1>1. Ready(top, e, b, en, kp, n, R, d) /\ live = b \cup Has(top, e)
  BY Ruled
<1>2. Knows(top, e, b, en)
  BY <1>1 DEF Ready, Fits
<1>3. QED
  BY <1>1, <1>2, Allocated

(* What the visitor of a new call has.                                      *)
LEMMA Entering ==
  ASSUME NEW env, NEW n, NEW e, NEW b, NEW en, NEW kp, NEW R, NEW d, At(env, n, e, b, en, kp, R, d),
         NEW f, stack' = Append(stack, f), NEW k, k = n + 1
  PROVE  /\ Keep(stack', k) = (IF statement.op = "apply" THEN Kept(statement.family) ELSE {})
         /\ statement.op = "apply" /\ SameVisitor(statement.family)
              => Entry(stack', k) = top.regs["current_formula"]
<1>1. n \in Nat /\ n >= 1 /\ IsStack(stack) /\ n = Len(stack) /\ stack[n] = top
  BY DEF At, Owning
<1>2. stack'[n] = top
  BY <1>1, AppendOf
<1>3. k > 1 /\ k # 1 /\ k - 1 = n /\ stack'[k - 1] = top
  BY <1>1, <1>2
<1>4. Sharing(stack', k) <=> statement.op = "apply" /\ SameVisitor(statement.family)
  BY <1>3 DEF Sharing, statement
<1>5. QED
  BY <1>3, <1>4 DEF Keep, Entry, Kept

LEMMA Pushing ==
  ASSUME NEW env, NEW n, NEW e, NEW b, NEW en, NEW kp, NEW R, NEW d, At(env, n, e, b, en, kp, R, d),
         statement.op \in {"apply", "call"}, top.todo # <<>>,
         NEW f, stack' = Append(stack, f), live' = live, NEW c, Has(f, c) = {}, NEW k, k = n + 1,
         Fits(f, c, live, Entry(stack', k), Keep(stack', k), k)
  PROVE  Inv'
<1> DEFINE t == stack'
           l == live
           l2 == live'
           s == stack
<1>1. Owning(s, env, l) /\ n = Len(s) /\ s[n] = top
  BY DEF At
<1>2. Suspended(s[n])
  BY <1>1 DEF Suspended, statement
<1>3. t = Append(s, f) /\ l2 = l \cup Has(f, c)
  OBVIOUS
<1>4. Fits(f, c, l, Entry(t, n + 1), Keep(t, n + 1), n + 1)
  OBVIOUS
<1> HIDE DEF t, l, l2, s
<1>5. \E env2 : Owning(t, env2, l2)
  BY <1>1, <1>2, <1>3, <1>4, PushStep
<1>6. QED
  BY <1>5 DEF Inv, t, l2

LEMMA EnterVisitStep ==
  ASSUME NEW env, NEW n, NEW e, NEW b, NEW en, NEW kp, NEW R, NEW d, At(env, n, e, b, en, kp, R, d),
         top.todo # <<>>, EnterVisit
  PROVE  Inv'
<1> DEFINE family == statement.family
           body == "current_formula"
           regs == IF SameVisitor(family) THEN Put(NoHandles, body, top.regs[body]) ELSE NoHandles
           k == n + 1
<1>1. PICK program \in Visits(family) :
      \E members \in IF Loops(program) THEN 2 .. MaxMembers(Len(stack)) ELSE {0} :
        /\ Len(stack) + (IF Nested(program) THEN 2 ELSE 1) <= MaxDepth
        /\ stack' = Append(stack, Frame(program, regs, members))
  BY DEF EnterVisit, Put
<1>2. PICK members \in IF Loops(program) THEN 2 .. MaxMembers(Len(stack)) ELSE {0} :
        /\ Len(stack) + (IF Nested(program) THEN 2 ELSE 1) <= MaxDepth
        /\ stack' = Append(stack, Frame(program, regs, members))
  BY <1>1
<1>3. /\ family \in {"ldlf", "regex", "prop"} /\ statement.op = "apply" /\ live' = live
      /\ family = "regex" => body \in Valid(e)
  <2>1. Applies(statement, e, d) /\ statement.op = "apply" /\ live' = live
    BY Ruled, Kinds DEF EnterVisit
  <2>2. QED
    BY <2>1 DEF Applies
<1>4. members \in Nat /\ (Loops(program) => members > 0)
  <2>1. n \in Nat /\ n = Len(stack) /\ n >= 1
    BY DEF At
  <2>2. n + 1 <= MaxDepth \/ n + 2 <= MaxDepth
    BY <1>2, <2>1
  <2>3. MaxDepth \in Nat /\ n \in 1 .. MaxDepth + 1
    BY <2>1, <2>2, BoundsAssumption
  <2>4. MaxMembers(n) \in Nat
    BY <2>3, BoundsAssumption
  <2>5. CASE Loops(program)
    <3>1. members \in 2 .. MaxMembers(n)
      BY <1>2, <2>1, <2>5
    <3>2. QED
      BY <2>4, <3>1
  <2>6. CASE ~Loops(program)
    <3>1. members = 0
      BY <1>2, <2>6
    <3>2. QED
      BY <2>6, <3>1
  <2>7. QED
    BY <2>5, <2>6
<1> DEFINE f == Frame(program, regs, members)
<1>5. Consists(f, program, regs, {}, members)
  BY DEF Frame, Consists, IsFrame
<1>6. PICK opt, many : Visit(family, program, opt, many)
  BY <1>1, <1>3, VisitsTyped
<1>7. /\ regs \in [Variables -> Handles \cup {Null}]
      /\ SameVisitor(family) => regs[body] = top.regs[body]
      /\ \A r \in Variables : r # body => regs[r] = Null
  <2>1. body \in Variables /\ NoHandles \in [Variables -> Handles \cup {Null}]
        /\ \A r \in Variables : NoHandles[r] = Null
    BY NullIsNoHandle DEF NoHandles
  <2>2. top.regs[body] \in Handles \cup {Null}
    <3>1. top.regs \in [Variables -> Handles \cup {Null}]
      BY Ruled
    <3>2. QED
      BY <2>1, <3>1
  <2>3. QED
    BY <2>1, <2>2 DEF Put
<1>8. stack' = Append(stack, f) /\ k = n + 1
  BY <1>2
<1> HIDE DEF f, regs, k, family
<1>9. /\ Keep(stack', k) = Kept(family)
      /\ SameVisitor(family) => Entry(stack', k) = top.regs[body]
  BY <1>3, <1>8, Entering DEF family
<1> DEFINE ref == Given(family)
           same == Kept(family)
           entry == Entry(stack', k)
           c == Ownership({}, opt, ref, {}, same, 0, many)
<1>10. /\ opt \cup ref \cup same \subseteq Variables
       /\ \A r \in opt : regs[r] = Null
       /\ \A r \in ref : regs[r] \in live
       /\ \A r \in same : regs[r] = entry
       /\ many = 1 => members > 0
  <2>1. opt \subseteq Variables \ {body} /\ (many = 1 => Loops(program))
    BY <1>6 DEF Visit
  <2>2. (ref = {} \/ ref = {body}) /\ (same = {} \/ same = {body}) /\ body \in Variables
    BY NullIsNoHandle DEF Given, Kept
  <2>3. \A r \in same : regs[r] = entry
    BY <1>7, <1>9 DEF Kept
  <2>4. \A r \in ref : regs[r] \in live
    <3>1. CASE family = "regex"
      <4>1. top.regs[body] \in live
        BY <1>3, <3>1, ArgumentsLive
      <4>2. SameVisitor(family)
        BY <3>1 DEF SameVisitor
      <4>3. QED
        BY <1>7, <2>2, <4>1, <4>2
    <3>2. CASE family # "regex"
      BY <3>2 DEF Given
    <3>3. QED
      BY <3>1, <3>2
  <2>5. \A r \in opt : regs[r] = Null
    BY <1>7, <2>1
  <2>6. QED
    BY <1>4, <2>1, <2>2, <2>3, <2>4, <2>5
<1>11. Holds(regs, {}, members, c, live, entry) /\ Owned(regs, {}, c) = {}
  <2> DEFINE q == 0
             l == live
  <2>1. q \in 0 .. 2 /\ \A r \in ref : regs[r] \in l
    BY <1>10
  <2> HIDE DEF ref, same, entry, q, l
  <2>2. /\ Holds(regs, {}, members, Ownership({}, opt, ref, {}, same, q, many), l, entry)
        /\ Owned(regs, {}, Ownership({}, opt, ref, {}, same, q, many)) = {}
    BY <1>4, <1>7, <1>10, <2>1, Started, ZenonT(30)
  <2>3. QED
    BY <2>2 DEF q, l
<1>12. Program(same, program, c, k)
  <2>1. Typed(same, program, c, Over)
    BY <1>6 DEF Visit
  <2>2. Finished(k, Over)
    BY DEF Finished, Over, Ownership
  <2>3. QED
    BY <2>1, <2>2 DEF Program
<1> HIDE DEF ref, entry, c
<1>13. Fits(f, c, live, entry, same, k) /\ Has(f, c) = {}
  <2> DEFINE l == live
             q == {}
  <2>1. Consists(f, program, regs, q, members) /\ Holds(regs, q, members, c, l, entry) /\ Owned(regs, q, c) = {}
    BY <1>5, <1>11
  <2> HIDE DEF l, q, same
  <2>2. Fits(f, c, l, entry, same, k) /\ Has(f, c) = Owned(regs, q, c)
    BY <1>12, <2>1, Fitting
  <2>3. QED
    BY <2>1, <2>2 DEF l
<1>14. Fits(f, c, live, Entry(stack', k), Keep(stack', k), k)
  BY <1>9, <1>13 DEF entry
<1>15. QED
  BY <1>3, <1>8, <1>13, <1>14, Pushing

LEMMA EnterFunctionStep ==
  ASSUME NEW env, NEW n, NEW e, NEW b, NEW en, NEW kp, NEW R, NEW d, At(env, n, e, b, en, kp, R, d),
         top.todo # <<>>, EnterFunction
  PROVE  Inv'
<1> DEFINE function == statement.function
           args == statement.args
           Arg(i) == IF i <= Len(args) THEN top.regs[args[i]] ELSE Null
           regs == [NoHandles EXCEPT !["a"] = Arg(1), !["b"] = Arg(2)]
           ref == Arguments(function)
           k == n + 1
           f == Frame(Body(function), regs, 0)
<1>1. stack' = Append(stack, f) /\ live' = live /\ statement.op = "call" /\ k = n + 1
  BY DEF EnterFunction
<1>2. /\ function \in {"star", "dfa_accept_empty", "dfa_closure", "dfa_concatenate"}
      /\ args[1] \in Valid(e)
      /\ IF function = "dfa_concatenate" THEN Len(args) = 2 /\ args[2] \in Valid(e) ELSE Len(args) = 1
  BY <1>1, Ruled, Kinds DEF Calls
<1>3. live \subseteq Handles
  BY LiveHandles DEF At
<1>4. Arg(1) \in live
  <2>1. 1 <= Len(args) /\ top.regs[args[1]] \in live
    BY <1>2, ArgumentsLive
  <2>2. QED
    BY <2>1
<1>5. /\ Arg(2) \in live \cup {Null}
      /\ function = "dfa_concatenate" => Arg(2) \in live
  <2>1. CASE function = "dfa_concatenate"
    <3>1. 2 <= Len(args) /\ top.regs[args[2]] \in live
      BY <1>2, <2>1, ArgumentsLive
    <3>2. QED
      BY <3>1
  <2>2. CASE function # "dfa_concatenate"
    BY <1>2, <2>2
  <2>3. QED
    BY <2>1, <2>2
<1> HIDE DEF Arg
<1>6. /\ regs \in [Variables -> Handles \cup {Null}] /\ regs["a"] = Arg(1) /\ regs["b"] = Arg(2)
      /\ {"a", "b"} \subseteq Variables
  <2>1. NoHandles \in [Variables -> Handles \cup {Null}] /\ {"a", "b"} \subseteq Variables
    BY DEF NoHandles, Variables
  <2>2. QED
    BY <1>3, <1>4, <1>5, <2>1
<1>7. ref \subseteq Variables /\ \A r \in ref : regs[r] \in live
  BY <1>4, <1>5, <1>6 DEF Arguments
<1>8. Consists(f, Body(function), regs, {}, 0)
  BY DEF Frame, Consists, IsFrame
<1>9. PICK queue \in 0 .. 2 :
      Typed({}, Body(function), Ownership({}, {}, ref, {}, {}, queue, 0), Over)
  BY <1>2, FunctionsTyped
<1> HIDE DEF f, regs, k, function, ref
<1>10. Keep(stack', k) = {}
  <2>1. Keep(stack', k) = (IF statement.op = "apply" THEN Kept(statement.family) ELSE {})
    BY <1>1, Entering
  <2>2. statement.op # "apply"
    BY <1>1
  <2>3. QED
    BY <2>1, <2>2
<1> DEFINE entry == Entry(stack', k)
           none == {}
           zero == 0
           c == Ownership(none, none, ref, none, none, queue, zero)
           l == live
<1>11. Program(none, Body(function), c, k)
  <2>1. Finished(k, Over)
    BY DEF Finished, Over, Ownership
  <2>2. QED
    BY <1>9, <2>1 DEF Program
<1>12. /\ zero \in Nat /\ none \subseteq Variables /\ zero # 1
       /\ \A r \in none : regs[r] = Null
       /\ \A r \in none : regs[r] = entry
       /\ none \cup ref \cup none \subseteq Variables
       /\ \A r \in ref : regs[r] \in l
  BY <1>7
<1>13. Holds(regs, {}, zero, c, l, entry) /\ Owned(regs, {}, c) = {}
  <2> HIDE DEF entry, zero, l, c
  <2>1. zero = 1 => zero > 0
    BY <1>12
  <2> DEFINE o == none
  <2>2. o = {}
    OBVIOUS
  <2>3. /\ o \cup ref \cup o \subseteq Variables /\ (\A r \in o : regs[r] = Null)
        /\ (\A r \in o : regs[r] = entry)
    BY <1>12
  <2> HIDE DEF o
  <2>4. /\ Holds(regs, {}, zero, Ownership({}, o, ref, {}, o, queue, zero), l, entry)
        /\ Owned(regs, {}, Ownership({}, o, ref, {}, o, queue, zero)) = {}
    BY <1>6, <1>9, <1>12, <2>1, <2>3, Started, ZenonT(30)
  <2>5. QED
    BY <2>2, <2>4 DEF c
<1> HIDE DEF entry, c, l
<1>14. Fits(f, c, l, entry, none, k) /\ Has(f, c) = {}
  <2> DEFINE q == {}
             p == Body(function)
  <2>1. Consists(f, p, regs, q, zero) /\ Holds(regs, q, zero, c, l, entry) /\ Owned(regs, q, c) = {}
    BY <1>8, <1>13
  <2>2. Program(none, p, c, k)
    BY <1>11
  <2> HIDE DEF q, p, none, zero
  <2>3. Fits(f, c, l, entry, none, k) /\ Has(f, c) = Owned(regs, q, c)
    BY <2>1, <2>2, Fitting
  <2>4. QED
    BY <2>1, <2>3
<1>15. Fits(f, c, live, Entry(stack', k), Keep(stack', k), k)
  BY <1>10, <1>14 DEF entry, l
<1>16. QED
  BY <1>1, <1>14, <1>15, Pushing

(* A return: the caller, of which e is known, gets the automaton h that the *)
(* call b owned, and becomes g, of which d is known.                        *)
Caller(env, n, m, f, e, R, d) ==
  /\ m \in Nat /\ m >= 1 /\ n = m + 1 /\ f = stack[m] /\ e = env[m]
  /\ Ready(f, e, Below(stack, env, m), Entry(stack, m), Keep(stack, m), m, R, d)
  /\ Below(stack, env, n) = Below(stack, env, m) \cup Has(f, e)
  /\ Suspended(f) /\ Gains(e, d, Head(f.todo).to)
  /\ Sharing(stack, n) => Head(f.todo).to # "current_formula"
Hands(f, h, g) ==
  Consists(g, Tail(f.todo), Put(f.regs, Head(f.todo).to, h), f.queue, f.members)

LEMMA Returning ==
  ASSUME NEW env, NEW n, NEW e, NEW b, NEW en, NEW kp, NEW R, NEW d, At(env, n, e, b, en, kp, R, d),
         statement.op = "return"
  PROVE  \E m, f, ce, RR, dd : Caller(env, n, m, f, ce, RR, dd)
<1>1. /\ Owning(stack, env, live) /\ n = Len(stack) /\ n \in Nat /\ n >= 1
      /\ Ready(top, e, b, en, kp, n, R, d) /\ kp = Keep(stack, n)
  BY DEF At
<1>2. n # 1
  <2>1. kp \subseteq e.entry
    BY Ruled, Kinds DEF Returns
  <2>2. e.entry \subseteq Variables
    BY <1>1 DEF Ready, Fits, Knows, Holds
  <2>3. n = 1 => "nobody" \in kp
    BY <1>1 DEF Keep
  <2>4. "nobody" \notin Variables
    BY DEF Variables
  <2>5. QED
    BY <2>1, <2>2, <2>3, <2>4
<1> DEFINE m == n - 1
           f == stack[m]
           ce == env[m]
           cb == Below(stack, env, m)
           cen == Entry(stack, m)
           ckp == Keep(stack, m)
<1>3. m \in Nat /\ m >= 1 /\ n = m + 1 /\ m \in 1 .. n /\ m < n /\ n - 1 = m /\ n > 1
  BY <1>1, <1>2
<1>4. f = stack[m] /\ ce = env[m] /\ cb = Below(stack, env, m) /\ cen = Entry(stack, m) /\ ckp = Keep(stack, m)
  OBVIOUS
<1> HIDE DEF m, f, ce, cb, cen, ckp
<1>5. Fits(f, ce, cb, cen, ckp, m) /\ Suspended(f)
  <2>1. Fine(stack, env, m) /\ Suspended(stack[m])
    BY <1>1, <1>3 DEF Owning
  <2>2. QED
    BY <1>4, <2>1 DEF Fine
<1>6. PICK RR, dd : Begins(RR, ckp, f.todo, ce, dd, m)
  <2>1. Program(ckp, f.todo, ce, m) /\ f.todo # <<>>
    BY <1>5 DEF Fits, Suspended
  <2>2. QED
    BY <2>1, FirstStatement
<1>7. Ready(f, ce, cb, cen, ckp, m, RR, dd)
  BY <1>5, <1>6 DEF Ready
<1>8. /\ Gains(ce, dd, Head(f.todo).to)
      /\ Head(f.todo).op = "apply" /\ SameVisitor(Head(f.todo).family)
           => Head(f.todo).to # "current_formula"
  <2> DEFINE s == Head(f.todo)
  <2>1. Rule(RR, ckp, s, ce, dd) /\ s.op \in {"apply", "call"}
    BY <1>5, <1>6 DEF Begins, Suspended
  <2> HIDE DEF s
  <2>2. (s.op = "apply" => Applies(s, ce, dd)) /\ (s.op = "call" => Calls(s, ce, dd))
    BY <2>1, Kinds
  <2>3. Gains(ce, dd, s.to) /\ (s.op = "apply" => (SameVisitor(s.family) => s.to # "current_formula"))
    BY <2>1, <2>2 DEF Applies, Calls
  <2>4. QED
    BY <2>3 DEF s
<1>9. Sharing(stack, n) => Head(f.todo).to # "current_formula"
  BY <1>3, <1>4, <1>8 DEF Sharing
<1>10. Below(stack, env, n) = cb \cup Has(f, ce)
  BY <1>3, <1>4, BelowNext
<1>11. Caller(env, n, m, f, ce, RR, dd)
  BY <1>3, <1>4, <1>5, <1>7, <1>8, <1>9, <1>10 DEF Caller
<1>12. QED
  BY <1>11

LEMMA Leaving ==
  ASSUME NEW env, NEW n, NEW e, NEW b, NEW en, NEW kp, NEW R, NEW d, At(env, n, e, b, en, kp, R, d),
         Leave, NEW m, NEW f, NEW ce, NEW RR, NEW dd, Caller(env, n, m, f, ce, RR, dd)
  PROVE  \E h, g : /\ stack' = Append(Front(Front(stack)), g) /\ live' = live
                   /\ Hands(f, h, g) /\ h \in Handles /\ h \notin b /\ live = b \cup {h}
<1> DEFINE h == top.regs[statement.from]
           to == Head(f.todo).to
           body == "current_formula"
           regs == Put(f.regs, to, h)
           shared == Head(f.todo).op = "apply" /\ SameVisitor(Head(f.todo).family)
           left == IF shared THEN Put(regs, body, top.regs[body]) ELSE regs
           t == Tail(f.todo)
           g == [f EXCEPT !.todo = t, !.regs = left]
<1>1. /\ n = Len(stack) /\ n = m + 1 /\ m \in Nat /\ m >= 1 /\ f = stack[m] /\ kp = Keep(stack, n) /\ en = Entry(stack, n)
      /\ Ready(top, e, b, en, kp, n, R, d) /\ live = b \cup Has(top, e)
  BY DEF At, Caller
<1>2. f = stack[Len(stack) - 1]
  BY <1>1
<1>3. stack' = Append(Front(Front(stack)), g) /\ live' = live /\ statement.op = "return"
  BY <1>2 DEF Leave, Put
<1>4. IsFrame(f) /\ f.regs \in [Variables -> Handles \cup {Null}] /\ to \in Variables
  <2>1. Gains(ce, dd, to) /\ Knows(f, ce, Below(stack, env, m), Entry(stack, m)) /\ IsFrame(f)
    BY DEF Caller, Ready, Fits
  <2>2. QED
    BY <2>1 DEF Knows, Holds, Gains
<1>5. /\ h \in Handles /\ Has(top, e) = {h} /\ h \notin b
      /\ \A r \in kp : top.regs[r] = en
  <2>1. Knows(top, e, b, en)
    BY <1>1 DEF Ready, Fits
  <2>2. Returns(kp, statement, e, d)
    BY <1>3, Ruled, Kinds
  <2>3. QED
    BY <2>1, <2>2, Returned
<1>6. left = regs
  <2>1. CASE shared
    <3>1. n > 1 /\ n - 1 = m /\ n # 1
      BY <1>1
    <3>2. Sharing(stack, n)
      BY <1>1, <2>1, <3>1 DEF Sharing
    <3>3. en = f.regs[body] /\ kp = {body}
      BY <1>1, <3>1, <3>2 DEF Entry, Keep
    <3>4. top.regs[body] = f.regs[body] /\ to # body
      BY <1>5, <3>2, <3>3 DEF Caller
    <3>5. body \in Variables
      BY NullIsNoHandle
    <3> HIDE DEF h, to, shared
    <3>6. Put(regs, body, f.regs[body]) = regs
      BY <1>4, <3>4, <3>5 DEF Put
    <3>7. QED
      BY <2>1, <3>4, <3>6
  <2>2. CASE ~shared
    BY <2>2
  <2>3. QED
    BY <2>1, <2>2
<1>7. Consists(g, t, left, f.queue, f.members)
  <2> HIDE DEF left, t
  <2>1. QED
    BY <1>4, FrameShape
<1> HIDE DEF g, left
<1>8. Hands(f, h, g)
  BY <1>6, <1>7 DEF Hands
<1>9. live = b \cup {h}
  BY <1>1, <1>5
<1> HIDE DEF h
<1>10. QED
  BY <1>3, <1>5, <1>8, <1>9

LEMMA LeaveStep ==
  ASSUME NEW env, NEW n, NEW e, NEW b, NEW en, NEW kp, NEW R, NEW d, At(env, n, e, b, en, kp, R, d),
         Leave
  PROVE  Inv'
<1>1. PICK m, f, ce, RR, dd : Caller(env, n, m, f, ce, RR, dd)
  BY Returning DEF Leave
<1>2. PICK h, g : /\ stack' = Append(Front(Front(stack)), g) /\ live' = live
                  /\ Hands(f, h, g) /\ h \in Handles /\ h \notin b /\ live = b \cup {h}
  BY <1>1, Leaving
<1> DEFINE cb == Below(stack, env, m)
           cen == Entry(stack, m)
           ckp == Keep(stack, m)
           to == Head(f.todo).to
           s == stack
           t == Front(stack)
           l == live'
           next == stack'
<1>3. /\ m \in Nat /\ m >= 1 /\ n = m + 1 /\ b = cb \cup Has(f, ce)
      /\ Ready(f, ce, cb, cen, ckp, m, RR, dd) /\ Gains(ce, dd, to) /\ Into(f, to)
  BY <1>1 DEF At, Caller, Into
<1>4. Fresh(h, cb, Has(f, ce))
  BY <1>2, <1>3 DEF Fresh
<1>5. Consists(g, Tail(f.todo), Put(f.regs, to, h), f.queue, f.members)
  BY <1>2 DEF Hands
<1>6. /\ Owning(t, env, b) /\ Len(t) = m /\ SameBelow(s, env, t, env, m)
  <2>1. Owning(s, env, live) /\ n = Len(s) /\ b = Below(s, env, n) /\ n > 1
    BY <1>3 DEF At
  <2>2. n - 1 = m /\ m \in 1 .. n - 1
    BY <1>3
  <2> HIDE DEF s
  <2>3. /\ Owning(Front(s), env, Below(s, env, n)) /\ Len(Front(s)) = n - 1
        /\ \A i \in 1 .. n - 1 : SameBelow(s, env, Front(s), env, i)
    BY <2>1, FrontStep
  <2>4. QED
    BY <2>1, <2>2, <2>3 DEF s
<1>7. next = Append(Front(t), g)
  BY <1>2
<1> HIDE DEF cb, cen, ckp, to, t, l, next
<1>8. Fits(g, dd, cb, cen, ckp, m) /\ Has(g, dd) = Has(f, ce) \cup {h}
  BY <1>3, <1>4, <1>5, Created
<1>9. Below(t, env, m) = cb /\ Entry(t, m) = cen /\ Keep(t, m) = ckp
  BY <1>6 DEF SameBelow, cb, cen, ckp
<1>10. l = cb \cup Has(g, dd)
  <2>1. l = b \cup {h}
    BY <1>2 DEF l
  <2>2. QED
    BY <1>3, <1>8, <2>1
<1>11. \E env2 : Owning(next, env2, l)
  <2>1. /\ l = Below(t, env, m) \cup Has(g, dd) /\ m = Len(t)
        /\ Fits(g, dd, Below(t, env, m), Entry(t, m), Keep(t, m), m)
    BY <1>6, <1>8, <1>9, <1>10
  <2>2. Owning(t, env, b)
    BY <1>6
  <2>3. QED
    BY <1>7, <2>1, <2>2, TopStep
<1>12. QED
  BY <1>11 DEF Inv, next, l

-----------------------------------------------------------------------------
(* The client, before the translation of a formula.                         *)
LEMMA Starting ==
  ASSUME NEW s, s = << Frame(Translate, NoHandles, 0) >>
  PROVE  \E env : Owning(s, env, {})
<1> DEFINE none == {}
           zero == 0
           one == 1
           two == 2
           c == Ownership(none, none, none, none, none, zero, zero)
           env == [i \in Nat |-> c]
           f == Frame(Translate, NoHandles, zero)
           keep == {"nobody"}
           regs == NoHandles
           p == Translate
<1>0. one \in Nat /\ one >= 1 /\ two = one + 1
  OBVIOUS
<1>1. IsStack(s) /\ Len(s) = 1 /\ s[one] = f /\ env[one] = c
  <2> HIDE DEF f, c
  <2>1. s = << f >>
    BY DEF f
  <2>2. s \in Seq({f})
    BY <2>1
  <2>3. IsStack(s)
    BY <2>2 DEF IsStack
  <2>4. QED
    BY <2>1, <2>3
<1>2. Consists(f, p, regs, none, zero)
  BY DEF Frame, Consists, IsFrame
<1>3. Program(keep, p, c, one)
  <2>1. Released(c)
    BY DEF Released, Ownership, Slots
  <2>2. Finished(one, c)
    BY <2>1 DEF Finished
  <2>3. Typed(keep, p, c, c)
    BY TranslateTyped
  <2>4. QED
    BY <2>2, <2>3 DEF Program
<1>4. /\ regs \in [Variables -> Handles \cup {Null}] /\ zero \in Nat /\ zero \in 0 .. 2
      /\ none \cup none \cup none \subseteq Variables
      /\ \A r \in none : regs[r] = Null
      /\ \A r \in none : regs[r] \in none
      /\ zero = 1 => zero > 0
  BY DEF NoHandles
<1>5. Below(s, env, one) = {} /\ Entry(s, one) = Null /\ Keep(s, one) = keep
  BY DEF Below, Entry, Keep, Sharing
<1>6. none = {}
  OBVIOUS
<1> HIDE DEF none, zero, one, two, c, env, f, keep, regs, p
<1>7. Holds(regs, none, zero, c, none, Null) /\ Owned(regs, none, c) = {}
  <2>1. \A r \in none : regs[r] = Null
    BY <1>6
  <2>2. /\ Holds(regs, {}, zero, Ownership({}, none, none, {}, none, zero, zero), none, Null)
        /\ Owned(regs, {}, Ownership({}, none, none, {}, none, zero, zero)) = {}
    BY <1>4, <2>1, Started
  <2>3. QED
    BY <1>6, <2>2 DEF c
<1>8. Fits(f, c, none, Null, keep, one) /\ Has(f, c) = {}
  BY <1>2, <1>3, <1>7, Fitting
<1>9. Fine(s, env, one)
  BY <1>0, <1>1, <1>5, <1>6, <1>8 DEF Fine
<1>10. Below(s, env, two) = {}
  <2>1. Below(s, env, two) = Below(s, env, one) \cup Has(s[one], env[one])
    BY <1>0, BelowNext
  <2>2. QED
    BY <1>1, <1>5, <1>8, <2>1
<1>11. \A i \in 1 .. Len(s) : i = one
  BY <1>1 DEF one
<1>12. Owning(s, env, {})
  <2>1. \A i \in 1 .. Len(s) : Fine(s, env, i)
    BY <1>9, <1>11
  <2>2. \A i \in 1 .. Len(s) : ~(i < Len(s))
    BY <1>1
  <2>3. Below(s, env, Len(s) + 1) = {}
    BY <1>1, <1>10 DEF two
  <2>4. QED
    BY <1>1, <2>1, <2>2, <2>3 DEF Owning
<1>13. QED
  BY <1>12

LEMMA InitInv == Init => Inv
<1> SUFFICES ASSUME Init
             PROVE  Inv
  OBVIOUS
<1>1. stack = << Frame(Translate, NoHandles, 0) >> /\ live = {}
  BY DEF Init
<1> DEFINE s == stack
<1>2. s = << Frame(Translate, NoHandles, 0) >>
  BY <1>1
<1> HIDE DEF s
<1>3. \E env : Owning(s, env, {})
  BY <1>2, Starting
<1>4. QED
  BY <1>1, <1>3 DEF Inv, s

LEMMA AgainStep ==
  ASSUME Inv, Again
  PROVE  Inv'
<1>1. PICK env : Owning(stack, env, live)
  BY DEF Inv
<1> DEFINE n == Len(stack)
           e == env[n]
           b == Below(stack, env, n)
           en == Entry(stack, n)
           kp == Keep(stack, n)
           t == stack'
<1>2. Fits(top, e, b, en, kp, n) /\ live = b \cup Has(top, e) /\ n = 1 /\ top.todo = <<>> /\ live' = live
  BY <1>1, Innermost DEF Again
<1>3. b = {}
  BY <1>2 DEF Below
<1>4. t = << Frame(Translate, NoHandles, 0) >>
  BY DEF Again
<1> HIDE DEF n, e, b, en, kp, t
<1>5. Released(e)
  BY <1>2, NotOver
<1>6. Has(top, e) = {}
  BY <1>2, <1>5 DEF Fits, Knows, Holds, Has, Owned, Released
<1>7. \E env2 : Owning(t, env2, {})
  BY <1>4, Starting
<1>8. live' = {}
  BY <1>2, <1>3, <1>6
<1>9. QED
  BY <1>7, <1>8 DEF Inv, t

LEMMA NextInv ==
  ASSUME Inv, [Next]_vars
  PROVE  Inv'
<1>1. CASE Again
  BY <1>1, AgainStep
<1>2. CASE UNCHANGED vars
  BY <1>2 DEF Inv, vars
<1>3. CASE top.todo # <<>> /\ ~Again /\ Next
  <2>1. PICK env, n, e, b, en, kp, R, d : At(env, n, e, b, en, kp, R, d)
    BY <1>3, Doing
  <2>2. Rule(R, kp, statement, e, d)
    BY <2>1, Ruled
  <2>3. CASE Create
    <3>1. Gains(e, d, statement.to) /\ Allocate(statement.to)
      BY <2>2, <2>3, Kinds DEF Create, Creates
    <3>2. QED
      BY <2>1, <3>1, AllocateStep
  <2>4. CASE VisitLeaf
    <3>1. Gains(e, d, statement.to) /\ Allocate(statement.to)
      BY <2>2, <2>4, Kinds DEF VisitLeaf, Applies
    <3>2. QED
      BY <2>1, <3>1, AllocateStep
  <2>5. CASE Look
    BY <2>1, <2>5, LookStep
  <2>6. CASE Release
    BY <2>1, <2>6, ReleaseStep
  <2>7. CASE ReleaseAll
    BY <2>1, <2>7, ReleaseAllStep
  <2>8. CASE Copy
    BY <2>1, <2>8, CopyStep
  <2>9. CASE Enqueue
    BY <2>1, <2>9, EnqueueStep
  <2>10. CASE Dequeue
    BY <2>1, <2>10, DequeueStep
  <2>11. CASE Branch
    BY <2>1, <2>11, BranchStep
  <2>12. CASE EnterVisit
    BY <1>3, <2>1, <2>12, EnterVisitStep
  <2>13. CASE EnterFunction
    BY <1>3, <2>1, <2>13, EnterFunctionStep
  <2>14. CASE Leave
    BY <2>1, <2>14, LeaveStep
  <2>15. QED
    BY <1>3, <2>3, <2>4, <2>5, <2>6, <2>7, <2>8, <2>9, <2>10, <2>11, <2>12, <2>13, <2>14 DEF Next
<1>4. QED
  BY <1>1, <1>2, <1>3 DEF Next

(* Every automaton that is allocated belongs to exactly one call that is    *)
(* active, and what each call has agrees with the rest of its program: for  *)
(* any number of nested calls, of members, of tests and of propositions.    *)
THEOREM OwnershipHolds == Spec => []Inv
<1>1. Init => Inv
  BY InitInv
<1>2. Inv /\ [Next]_vars => Inv'
  BY NextInv
<1>3. QED
  BY <1>1, <1>2, PTL DEF Spec

-----------------------------------------------------------------------------
(* What the ownerships say of the properties that the runs check.           *)
LEMMA Typing == Inv => TypeOK
<1> SUFFICES ASSUME Inv
             PROVE  TypeOK
  OBVIOUS
<1>1. PICK env : Owning(stack, env, live)
  BY DEF Inv
<1>2. live \subseteq Handles
  BY <1>1, LiveHandles
<1>3. ASSUME NEW i \in 1 .. Len(stack)
      PROVE  /\ stack[i].regs \in [Variables -> Handles \cup {Null}]
             /\ stack[i].queue \subseteq Handles /\ stack[i].members \in Nat
             /\ i > 1 => stack[i].todo # <<>>
  <2> DEFINE f == stack[i]
             e == env[i]
             b == Below(stack, env, i)
             en == Entry(stack, i)
             kp == Keep(stack, i)
  <2>1. Fits(f, e, b, en, kp, i)
    BY <1>1 DEF Owning, Fine
  <2> HIDE DEF f, e, b, en, kp
  <2>2. Knows(f, e, b, en)
    BY <2>1 DEF Fits
  <2>3. f.regs \in [Variables -> Handles \cup {Null}] /\ f.queue \subseteq Handles /\ f.members \in Nat
    BY <2>2 DEF Knows, Holds
  <2>4. f.todo = <<>> => i = 1
    BY <2>1, NotOver
  <2>5. QED
    BY <2>3, <2>4 DEF f
<1>4. QED
  BY <1>2, <1>3 DEF TypeOK

LEMMA Uses == Inv => UsesAreAllocated
<1> SUFFICES ASSUME Inv, top.todo # <<>>
             PROVE  Touched \subseteq live
  BY DEF UsesAreAllocated
<1>1. PICK env, n, e, b, en, kp, R, d : At(env, n, e, b, en, kp, R, d)
  BY Doing
<1>2. Ready(top, e, b, en, kp, n, R, d) /\ Rule(R, kp, statement, e, d) /\ live = b \cup Has(top, e)
      /\ top.queue \subseteq Handles
  BY <1>1, Ruled
<1>3. \A r \in statement.reads \ {"queue"} : r \in Valid(e)
  BY <1>2 DEF Rule
<1>4. \A r \in Valid(e) : top.regs[r] \in live
  BY <1>1, ArgumentsLive
<1>5. top.queue \subseteq live
  BY <1>2, NullIsNoHandle DEF Has, Owned
<1>6. \A r \in statement.reads \ {"queue"} : top.regs[r] \in live
  BY <1>3, <1>4
<1>7. QED
  BY <1>5, <1>6 DEF Touched

LEMMA Leaks == Inv => NothingLeaks
<1> SUFFICES ASSUME Inv, NEW h \in live
             PROVE  \E i \in 1 .. Len(stack) : h \in Held(stack[i])
  BY DEF NothingLeaks
<1>1. PICK env : Owning(stack, env, live)
  BY DEF Inv
<1>2. live = UNION {Has(stack[j], env[j]) : j \in 1 .. (Len(stack) + 1) - 1} /\ Len(stack) \in Nat
  BY <1>1 DEF Owning, Below
<1>3. PICK j \in 1 .. (Len(stack) + 1) - 1 : h \in Has(stack[j], env[j])
  BY <1>2
<1>4. j \in 1 .. Len(stack)
  BY <1>2
<1>5. Fits(stack[j], env[j], Below(stack, env, j), Entry(stack, j), Keep(stack, j), j)
  BY <1>1, <1>4 DEF Owning, Fine
<1> DEFINE f == stack[j]
           e == env[j]
<1>6. f.regs \in [Variables -> Handles \cup {Null}] /\ Slots(e) \subseteq Variables
  BY <1>5 DEF Fits, Knows, Holds
<1> HIDE DEF f, e
<1>7. {f.regs[r] : r \in Slots(e)} \subseteq Range(f.regs)
  BY <1>6 DEF Range
<1>8. Has(f, e) \subseteq Held(f)
  BY <1>7 DEF Has, Owned, Held
<1>9. QED
  BY <1>3, <1>4, <1>8 DEF f, e

(* A step that leaves a call is a return.                                   *)
LEMMA SameHeight ==
  ASSUME Inv, NEW g, Becomes(g)
  PROVE  Len(stack') = Len(stack)
<1>1. PICK env : Owning(stack, env, live)
  BY DEF Inv
<1>2. IsStack(stack) /\ Len(stack) \in Nat /\ Len(stack) >= 1
  BY <1>1 DEF Owning
<1>3. IsStack(Front(stack)) /\ Len(Front(stack)) = Len(stack) - 1
  BY <1>2, FrontOf
<1> DEFINE t == Front(stack)
<1>4. Len(t) \in Nat /\ IsStack(t)
  BY <1>2, <1>3
<1> HIDE DEF t
<1>5. Len(Append(t, g)) = Len(t) + 1
  BY <1>4, AppendOf
<1>6. QED
  BY <1>2, <1>3, <1>5 DEF Becomes, t

LEMMA Taller ==
  ASSUME Inv, NEW f, stack' = Append(stack, f)
  PROVE  Len(stack') = Len(stack) + 1 /\ Len(stack) \in Nat
<1>1. PICK env : Owning(stack, env, live)
  BY DEF Inv
<1>2. IsStack(stack) /\ Len(stack) \in Nat
  BY <1>1 DEF Owning
<1>3. QED
  BY <1>2, AppendOf

LEMMA OnlyReturnsLeave ==
  ASSUME Inv, Next, Len(stack') < Len(stack)
  PROVE  Leave /\ top.todo # <<>>
<1>1. PICK env : Owning(stack, env, live)
  BY DEF Inv
<1>2. Len(stack) \in Nat
  BY <1>1 DEF Owning
<1>3. ASSUME NEW g, Becomes(g)
      PROVE  FALSE
  BY <1>2, <1>3, SameHeight
<1>4. ~Again
  <2> SUFFICES ASSUME Again
               PROVE  FALSE
    OBVIOUS
  <2>1. Len(stack) = 1 /\ stack' = << Frame(Translate, NoHandles, 0) >>
    BY DEF Again
  <2> DEFINE f == Frame(Translate, NoHandles, 0)
  <2>2. stack' = << f >>
    BY <2>1
  <2> HIDE DEF f
  <2>3. Len(stack') = 1
    BY <2>2
  <2>4. QED
    BY <2>1, <2>3
<1>5. ~EnterVisit /\ ~EnterFunction
  <2>1. ASSUME NEW f, stack' = Append(stack, f)
        PROVE  FALSE
    BY <1>2, <2>1, Taller
  <2>2. QED
    BY <2>1 DEF EnterVisit, EnterFunction
<1>6. ~Create /\ ~VisitLeaf /\ ~Look /\ ~Release /\ ~ReleaseAll
  BY <1>3 DEF Create, VisitLeaf, Allocate, Look, Release, ReleaseAll, Set, Continue
<1>7. ~Copy /\ ~Enqueue /\ ~Dequeue
  BY <1>3 DEF Copy, Enqueue, Dequeue
<1>8. ~Branch
  BY <1>3 DEF Branch, Continue
<1>9. QED
  BY <1>4, <1>5, <1>6, <1>7, <1>8 DEF Next

LEMMA Stays ==
  ASSUME Inv, Next, Len(stack') < Len(stack),
         Head(stack[Len(stack')].todo).op = "apply",
         Head(stack[Len(stack')].todo).family = "regex"
  PROVE  stack'[Len(stack')].regs["current_formula"]
           = stack[Len(stack')].regs["current_formula"]
<1>1. Leave /\ top.todo # <<>>
  BY OnlyReturnsLeave
<1>2. PICK env, n, e, b, en, kp, R, d : At(env, n, e, b, en, kp, R, d)
  BY <1>1, Doing
<1>3. PICK m, f, ce, RR, dd : Caller(env, n, m, f, ce, RR, dd)
  BY <1>1, <1>2, Returning DEF Leave
<1>4. PICK h, g : stack' = Append(Front(Front(stack)), g) /\ Hands(f, h, g)
  BY <1>1, <1>2, <1>3, Leaving
<1> DEFINE s == Front(stack)
           t == Front(s)
           next == stack'
<1>5. /\ IsStack(stack) /\ n = Len(stack) /\ n = m + 1 /\ m \in Nat /\ m >= 1 /\ f = stack[m]
  BY <1>2, <1>3 DEF At, Owning, Caller
<1>6. IsStack(s) /\ Len(s) = m
  <2>1. Len(stack) \in Nat /\ Len(stack) >= 1 /\ Len(stack) - 1 = m
    BY <1>5
  <2>2. IsStack(s) /\ Len(s) = Len(stack) - 1
    BY <1>5, <2>1, FrontOf
  <2>3. QED
    BY <2>1, <2>2
<1> HIDE DEF s
<1>7. IsStack(t) /\ Len(t) = m - 1
  <2>1. Len(s) \in Nat /\ Len(s) >= 1
    BY <1>5, <1>6
  <2>2. QED
    BY <1>6, <2>1, FrontOf
<1> HIDE DEF t
<1>8. Len(next) = m /\ next[m] = g
  <2>1. next = Append(t, g) /\ Len(t) \in Nat /\ Len(t) + 1 = m
    BY <1>4, <1>5, <1>7 DEF s, t
  <2> HIDE DEF next
  <2>2. Len(Append(t, g)) = Len(t) + 1 /\ Append(t, g)[Len(t) + 1] = g
    BY <1>7, <2>1, AppendOf
  <2>3. QED
    BY <2>1, <2>2
<1>9. Head(f.todo).op = "apply" /\ Head(f.todo).family = "regex"
  BY <1>5, <1>8
<1>10. Head(f.todo).to # "current_formula"
  <2>1. n > 1 /\ n - 1 = m
    BY <1>5
  <2>2. Sharing(stack, n)
    BY <1>5, <1>9, <2>1 DEF Sharing, SameVisitor
  <2>3. QED
    BY <1>3, <2>2 DEF Caller
<1>11. f.regs \in [Variables -> Handles \cup {Null}]
  BY <1>3 DEF Caller, Ready, Fits, Knows, Holds
<1>12. g.regs["current_formula"] = f.regs["current_formula"]
  <2>1. g.regs = Put(f.regs, Head(f.todo).to, h)
    BY <1>4 DEF Hands, Consists
  <2>2. QED
    BY <1>10, <1>11, <2>1, NullIsNoHandle DEF Put
<1>13. QED
  BY <1>5, <1>8, <1>12

(* TypeOK: variables hold addresses of automata, and no function of the     *)
(* strategy reaches its end without a return statement (base.cpp, base.hpp, *)
(* star.cpp, mona_ext_base.cpp).                                            *)
THEOREM HandlesAreTyped == Spec => []TypeOK
  BY OwnershipHolds, Typing, PTL

(* UsesAreAllocated: whatever the formula, no automaton is read or freed    *)
(* after it was freed, and none is freed twice (the dfaFree calls of        *)
(* base.cpp, base.hpp, star.cpp and mona_ext_base.cpp).                     *)
THEOREM NoUseAfterFree == Spec => []UsesAreAllocated
  BY OwnershipHolds, Uses, PTL

(* NothingLeaks: whatever the formula and the exits that are taken, an      *)
(* automaton that is allocated is in a variable or a queue of a call that   *)
(* is active.                                                               *)
THEOREM NoLeak == Spec => []NothingLeaks
  BY OwnershipHolds, Leaks, PTL

(* BodyStays: the visit of an expression leaves the automaton of the body   *)
(* in its visitor, for any nesting of unions, sequences and stars           *)
(* (visit(SequenceRegExp), base.cpp).                                       *)
THEOREM BodyIsRestored == Spec => BodyStays
<1>1. Inv /\ [Next]_vars =>
        [LET caller == stack[Len(stack')]
         IN Len(stack') < Len(stack) /\ Head(caller.todo).op = "apply"
              /\ Head(caller.todo).family = "regex"
            => stack'[Len(stack')].regs["current_formula"] = caller.regs["current_formula"]]_vars
  <2> SUFFICES ASSUME Inv, Next, Len(stack') < Len(stack),
                      Head(stack[Len(stack')].todo).op = "apply",
                      Head(stack[Len(stack')].todo).family = "regex"
               PROVE  stack'[Len(stack')].regs["current_formula"]
                        = stack[Len(stack')].regs["current_formula"]
    OBVIOUS
  <2>1. QED
    BY Stays
<1>2. QED
  BY <1>1, OwnershipHolds, PTL DEF Spec, BodyStays
====
