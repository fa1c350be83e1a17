---------------------------- MODULE LuaGCProofs ----------------------------
(***************************************************************************)
(* Proofs about LuaGC.tla, for every set of addresses and both bounds.     *)
(*                                                                         *)
(* Tricolour is not inductive.  That the collector ends a cycle with       *)
(* nothing hidden from it takes the rest of IInv: where each colour can be *)
(* found in each phase (Queued, DeadUnswept, MarksUnswept), that nothing   *)
(* alive refers to the dead (Sound), and what the collector may assume of  *)
(* an object by its sort (Shape).  The last two sections are about a whole *)
(* cycle: what a full collection leaves and what a sweep frees.            *)
(***************************************************************************)
EXTENDS LuaGC, TLAPS

(* A gray object waits on a list to be traversed; strings need not be.     *)
Queued ==
  phase = "propagate" =>
    \A o \in heap : color[o] = "gray" /\ sort[o] # "string" =>
      o \in gray \union grayagain \union weak

(* What is not dead refers to nothing that is dead or free.                *)
Sound ==
  \A o \in heap : ~ IsDead(o) => \A p \in refs[o] : p \in heap /\ ~ IsDead(p)

(* The dead are among those the sweep has yet to visit.                    *)
DeadUnswept ==
  \A o \in heap : IsDead(o) => phase \in {"sweepstring", "sweep"} /\ o \in unswept

(* So are the marks of the cycle, but for userdata that wait for GCTM.     *)
MarksUnswept ==
  /\ phase \in {"sweepstring", "sweep"} =>
       \A o \in heap : color[o] # "white" => o \in unswept \union tmudata
  /\ phase \in {"pause", "finalize"} =>
       \A o \in heap : color[o] # "white" => o \in tmudata

(* Only a full collection starts while finalizers are due.                 *)
Due ==
  /\ phase = "pause" => tmudata = {}
  /\ phase = "propagate" /\ full = "no" => tmudata = {}
  /\ \A o \in tmudata : sort[o] = "udata" /\ ~ IsDead(o)

(* The lists are in use while marking only.                                *)
Listless == phase # "propagate" => gray = {} /\ grayagain = {} /\ weak = {}

(* The stack is never done with, so that a push needs no barrier.          *)
Root == color[Main] \notin {"dead", "black"}

(* What a userdata or a string holds, which is why they need no list.      *)
Shape ==
  /\ \A o \in Objects \ heap : refs[o] = {}
  /\ \A o \in heap : sort[o] = "string" => refs[o] = {}
  /\ \A o \in heap : sort[o] = "udata" /\ ~ IsDead(o) =>
       \A p \in refs[o] : sort[p] \in {"table", "weak"}
  /\ \A o \in heap : color[o] = "gray" => sort[o] # "udata"

(* A userdata dies after its finalizer was called.                         *)
Finalized == \A o \in heap : sort[o] = "udata" /\ IsDead(o) => o \in finalized

IInv ==
  /\ TypeOK /\ Tricolour /\ Queued /\ Sound /\ DeadUnswept /\ MarksUnswept
  /\ Due /\ Listless /\ Root /\ Shape /\ Finalized

-----------------------------------------------------------------------------

LEMMA InitIInv == Init => IInv
  BY MainAssumption DEF Init, IInv, TypeOK, Tricolour, Queued, Sound, DeadUnswept,
     MarksUnswept, Due, Listless, Root, Shape, Finalized, Sorts, Whites,
     IsDead, IsWhite

LEMMA NewIInv ==
  ASSUME IInv, NEW o \in Objects, NEW s \in Sorts \ {"thread"}, New(o, s)
  PROVE  IInv'
  <1> USE MainAssumption DEF IInv, New, Push, Running, lists
  <1>1. TypeOK'
    BY DEF TypeOK, Sorts, Whites
  <1>2. Tricolour' /\ Queued'
    BY DEF TypeOK, Tricolour, Queued, Root, Sound, IsWhite, IsDead, Whites
  <1>3. Sound' /\ DeadUnswept'
    BY DEF TypeOK, Sound, DeadUnswept, Shape, IsDead, Root
  <1>4. MarksUnswept' /\ Due' /\ Listless' /\ Root'
    BY DEF TypeOK, MarksUnswept, Due, Listless, Root, IsDead
  <1>5. Shape' /\ Finalized'
    BY DEF TypeOK, Shape, Finalized, IsDead, Sound
  <1> QED BY <1>1, <1>2, <1>3, <1>4, <1>5

LEMMA InternIInv ==
  ASSUME IInv, NEW o \in Objects, Intern(o)
  PROVE  IInv'
  <1> USE MainAssumption DEF IInv, Intern, Push, Running, lists
  <1>1. TypeOK'
    BY DEF TypeOK, Sorts, Whites
  <1>2. Tricolour' /\ Queued'
    BY DEF TypeOK, Tricolour, Queued, Root, Shape, IsWhite, IsDead, Whites, DeadUnswept
  <1>3. Sound' /\ DeadUnswept'
    BY DEF TypeOK, Sound, DeadUnswept, Shape, IsDead, Root
  <1>4. MarksUnswept' /\ Due' /\ Listless' /\ Root'
    BY DEF TypeOK, MarksUnswept, Due, Listless, Root, IsDead
  <1>5. Shape' /\ Finalized'
    BY DEF TypeOK, Shape, Finalized, IsDead, Sound
  <1> QED BY <1>1, <1>2, <1>3, <1>4, <1>5

LEMMA LoadIInv ==
  ASSUME IInv, NEW o \in Objects, NEW p \in Objects, Load(o, p)
  PROVE  IInv'
  <1> USE MainAssumption DEF IInv, Load, Push, Running, OnStack, lists
  <1>1. TypeOK'
    BY DEF TypeOK
  <1>2. Tricolour' /\ Queued'
    BY DEF TypeOK, Tricolour, Queued, Root, IsWhite
  <1>3. Sound' /\ DeadUnswept'
    BY DEF TypeOK, Sound, DeadUnswept, IsDead, Root
  <1>4. MarksUnswept' /\ Due' /\ Listless' /\ Root'
    BY DEF TypeOK, MarksUnswept, Due, Listless, Root, IsDead
  <1>5. Shape' /\ Finalized'
    BY DEF TypeOK, Shape, Finalized, IsDead
  <1> QED BY <1>1, <1>2, <1>3, <1>4, <1>5

(* What the program holds is alive.                                        *)
LEMMA StackAlive ==
  ASSUME IInv, NEW o \in Objects, OnStack(o)
  PROVE  o \in heap /\ ~ IsDead(o)
  BY DEF IInv, TypeOK, Sound, Root, OnStack, IsDead

LEMMA DropIInv ==
  ASSUME IInv, NEW o \in Objects, Drop(o)
  PROVE  IInv'
  <1> USE MainAssumption DEF IInv, Drop, Running, OnStack, lists
  <1>1. TypeOK'
    BY DEF TypeOK, Sorts, Whites
  <1>2. Tricolour' /\ Queued'
    BY DEF TypeOK, Tricolour, Queued, Root, Sound, Shape, IsWhite, IsDead, Whites
  <1>3. Sound' /\ DeadUnswept'
    BY DEF TypeOK, Sound, DeadUnswept, Shape, IsDead, Root
  <1>4. MarksUnswept' /\ Due' /\ Listless' /\ Root'
    BY DEF TypeOK, MarksUnswept, Due, Listless, Root, IsDead
  <1>5. Shape' /\ Finalized'
    BY DEF TypeOK, Shape, Finalized, IsDead, Sound
  <1> QED BY <1>1, <1>2, <1>3, <1>4, <1>5

LEMMA ClearIInv ==
  ASSUME IInv, NEW o \in Objects, NEW p \in Objects, Clear(o, p)
  PROVE  IInv'
  <1> USE MainAssumption DEF IInv, Clear, Running, OnStack, lists
  <1>1. TypeOK'
    BY DEF TypeOK, Sorts, Whites
  <1>2. Tricolour' /\ Queued'
    BY DEF TypeOK, Tricolour, Queued, Root, Sound, Shape, IsWhite, IsDead, Whites
  <1>3. Sound' /\ DeadUnswept'
    BY DEF TypeOK, Sound, DeadUnswept, Shape, IsDead, Root
  <1>4. MarksUnswept' /\ Due' /\ Listless' /\ Root'
    BY DEF TypeOK, MarksUnswept, Due, Listless, Root, IsDead
  <1>5. Shape' /\ Finalized'
    BY DEF TypeOK, Shape, Finalized, IsDead, Sound
  <1> QED BY <1>1, <1>2, <1>3, <1>4, <1>5

LEMMA SetModeIInv ==
  ASSUME IInv, NEW o \in Objects, SetMode(o)
  PROVE  IInv'
  <1> USE MainAssumption DEF IInv, SetMode, Running, OnStack, lists
  <1>1. TypeOK'
    BY DEF TypeOK, Sorts, Whites
  <1>2. Tricolour' /\ Queued'
    BY DEF TypeOK, Tricolour, Queued, Root, Sound, Shape, IsWhite, IsDead, Whites
  <1>3. Sound' /\ DeadUnswept'
    BY DEF TypeOK, Sound, DeadUnswept, Shape, IsDead, Root
  <1>4. MarksUnswept' /\ Due' /\ Listless' /\ Root'
    BY DEF TypeOK, MarksUnswept, Due, Listless, Root, IsDead
  <1>5. Shape' /\ Finalized'
    BY DEF TypeOK, Shape, Finalized, IsDead, Sound
  <1> QED BY <1>1, <1>2, <1>3, <1>4, <1>5

LEMMA StoreIInv ==
  ASSUME IInv, NEW o \in Objects, NEW p \in Objects, Store(o, p)
  PROVE  IInv'
  <1> USE MainAssumption DEF IInv, Store, BarrierBack, Running, OnStack, lists
  <1>1. TypeOK'
    BY StackAlive DEF TypeOK, Sorts, Whites
  <1>2. Tricolour' /\ Queued'
    BY DEF TypeOK, Tricolour, Queued, Root, Sound, Shape, IsWhite, IsDead, Whites
  <1>3. Sound' /\ DeadUnswept'
    BY DEF TypeOK, Sound, DeadUnswept, Shape, IsDead, Root
  <1>4. MarksUnswept' /\ Due' /\ Listless' /\ Root'
    BY DEF TypeOK, MarksUnswept, Due, Listless, Root, IsDead
  <1>5. Shape' /\ Finalized'
    BY StackAlive DEF TypeOK, Shape, Finalized, IsDead, IsWhite, Whites, Sound
  <1> QED BY <1>1, <1>2, <1>3, <1>4, <1>5

LEMMA StoreUdataIInv ==
  ASSUME IInv, NEW o \in Objects, NEW p \in Objects, StoreUdata(o, p)
  PROVE  IInv'
  <1> USE MainAssumption DEF IInv, StoreUdata, BarrierForward, Mark, Marked, Listed, Running, OnStack, lists
  <1>1. TypeOK'
    BY StackAlive DEF TypeOK, Sorts, Whites
  <1>2. Tricolour' /\ Queued'
    BY DEF TypeOK, Tricolour, Queued, Root, Sound, Shape, IsWhite, IsDead, Whites
  <1>3. Sound' /\ DeadUnswept'
    BY DEF TypeOK, Sound, DeadUnswept, Shape, IsDead, Root
  <1>4. MarksUnswept' /\ Due' /\ Listless' /\ Root'
    BY DEF TypeOK, MarksUnswept, Due, Listless, Root, IsDead
  <1>5. Shape' /\ Finalized'
    BY StackAlive DEF TypeOK, Shape, Finalized, IsDead, IsWhite, Whites, Sound
  <1> QED BY <1>1, <1>2, <1>3, <1>4, <1>5

LEMMA StartCycleIInv ==
  ASSUME IInv, StartCycle
  PROVE  IInv'
  <1> USE MainAssumption DEF IInv, StartCycle, MarkRoot, Mark, Marked, Listed, program
  <1>1. TypeOK'
    BY DEF TypeOK, Sorts, Whites
  <1>2. Tricolour' /\ Queued'
    BY DEF TypeOK, Tricolour, Queued, Root, Sound, Shape, IsWhite, IsDead,
       Whites, MarksUnswept, Due
  <1>3. Sound' /\ DeadUnswept'
    BY DEF TypeOK, Sound, DeadUnswept, Shape, IsDead, Root
  <1>4. MarksUnswept' /\ Due' /\ Listless' /\ Root'
    BY DEF TypeOK, MarksUnswept, Due, Listless, Root, IsDead
  <1>5. Shape' /\ Finalized'
    BY DEF TypeOK, Shape, Finalized, IsDead, Sound
  <1> QED BY <1>1, <1>2, <1>3, <1>4, <1>5

LEMMA SweepEndIInv ==
  ASSUME IInv, SweepEnd
  PROVE  IInv'
  <1> USE MainAssumption DEF IInv, SweepEnd, program, lists
  <1>1. TypeOK'
    BY DEF TypeOK, Sorts, Whites
  <1>2. Tricolour' /\ Queued'
    BY DEF TypeOK, Tricolour, Queued, Root, Sound, Shape, IsWhite, IsDead, Whites
  <1>3. Sound' /\ DeadUnswept'
    BY DEF TypeOK, Sound, DeadUnswept, Shape, IsDead, Root
  <1>4. MarksUnswept' /\ Due' /\ Listless' /\ Root'
    BY DEF TypeOK, MarksUnswept, Due, Listless, Root, IsDead
  <1>5. Shape' /\ Finalized'
    BY DEF TypeOK, Shape, Finalized, IsDead, Sound
  <1> QED BY <1>1, <1>2, <1>3, <1>4, <1>5

LEMMA GCTMIInv ==
  ASSUME IInv, NEW o \in Objects, GCTM(o)
  PROVE  IInv'
  <1> USE MainAssumption DEF IInv, GCTM, lists
  <1>1. TypeOK'
    BY DEF TypeOK, Sorts, Whites
  <1>2. Tricolour' /\ Queued'
    BY DEF TypeOK, Tricolour, Queued, Root, Sound, Shape, IsWhite, IsDead, Whites
  <1>3. Sound' /\ DeadUnswept'
    BY DEF TypeOK, Sound, DeadUnswept, Shape, IsDead, Root
  <1>4. MarksUnswept' /\ Due' /\ Listless' /\ Root'
    BY DEF TypeOK, MarksUnswept, Due, Listless, Root, IsDead
  <1>5. Shape' /\ Finalized'
    BY DEF TypeOK, Shape, Finalized, IsDead, Sound, Due
  <1> QED BY <1>1, <1>2, <1>3, <1>4, <1>5

LEMMA CycleEndIInv ==
  ASSUME IInv, CycleEnd
  PROVE  IInv'
  <1> USE MainAssumption DEF IInv, CycleEnd, program, lists
  <1>1. TypeOK'
    BY DEF TypeOK, Sorts, Whites
  <1>2. Tricolour' /\ Queued'
    BY DEF TypeOK, Tricolour, Queued, Root, Sound, Shape, IsWhite, IsDead, Whites
  <1>3. Sound' /\ DeadUnswept'
    BY DEF TypeOK, Sound, DeadUnswept, Shape, IsDead, Root
  <1>4. MarksUnswept' /\ Due' /\ Listless' /\ Root'
    BY DEF TypeOK, MarksUnswept, Due, Listless, Root, IsDead
  <1>5. Shape' /\ Finalized'
    BY DEF TypeOK, Shape, Finalized, IsDead, Sound
  <1> QED BY <1>1, <1>2, <1>3, <1>4, <1>5

LEMMA FullGCIInv ==
  ASSUME IInv, FullGC
  PROVE  IInv'
  <1> USE MainAssumption DEF IInv, FullGC, program, lists
  <1>1. TypeOK'
    BY DEF TypeOK, Sorts, Whites
  <1>2. Tricolour' /\ Queued'
    BY DEF TypeOK, Tricolour, Queued, Root, Sound, Shape, IsWhite, IsDead, Whites
  <1>3. Sound' /\ DeadUnswept'
    BY DEF TypeOK, Sound, DeadUnswept, Shape, IsDead, Root
  <1>4. MarksUnswept' /\ Due' /\ Listless' /\ Root'
    BY DEF TypeOK, MarksUnswept, Due, Listless, Root, IsDead
  <1>5. Shape' /\ Finalized'
    BY DEF TypeOK, Shape, Finalized, IsDead, Sound
  <1> QED BY <1>1, <1>2, <1>3, <1>4, <1>5

LEMMA SweepIInv ==
  ASSUME IInv, NEW o \in Objects, Sweep(o)
  PROVE  IInv'
  <1> USE MainAssumption DEF IInv, Sweep, Swept, program, lists
  <1>1. TypeOK'
    BY DEF TypeOK, Sorts, Whites, Due, Root, Listless, IsDead
  <1>2. Tricolour' /\ Queued'
    BY DEF TypeOK, Tricolour, Queued, Root, Sound, Shape, IsWhite, IsDead, Whites
  <1>3. Sound' /\ DeadUnswept'
    BY DEF TypeOK, Sound, DeadUnswept, Shape, IsDead, Root
  <1>4. MarksUnswept' /\ Due' /\ Listless' /\ Root'
    BY DEF TypeOK, MarksUnswept, Due, Listless, Root, IsDead
  <1>5. Shape' /\ Finalized'
    BY DEF TypeOK, Shape, Finalized, IsDead, Sound
  <1> QED BY <1>1, <1>2, <1>3, <1>4, <1>5

LEMMA PropagateIInv ==
  ASSUME IInv, NEW o \in Objects, Propagate(o)
  PROVE  IInv'
  <1> DEFINE new == Marked(Strong(o))
  <1> USE MainAssumption DEF IInv
  <1>1. \A p \in heap : ~ IsDead(p)
    BY DEF Propagate, DeadUnswept
  <1>2. o \in heap /\ Strong(o) \subseteq refs[o] /\ refs[o] \subseteq heap
    BY <1>1 DEF Propagate, TypeOK, Strong, Sound
  <1>3. new \subseteq heap /\ \A p \in new : IsWhite(p)
    BY <1>1, <1>2 DEF Marked, Sound
  <1>4. \A p \in Strong(o) : IsWhite(p) => p \in new
    BY DEF Marked
  <1>5. \A q \in new : sort[q] = "udata" =>
          \A p \in refs[q] : IsWhite(p) => p \in new
    BY <1>1, <1>2 DEF Marked, Shape
  <1>6. color' = [p \in Objects |->
                    IF p \in new
                      THEN IF sort[p] = "udata" THEN "black" ELSE "gray"
                      ELSE IF p = o /\ sort[o] = "table" THEN "black"
                      ELSE color[p]]
        /\ gray' = (gray \ {o}) \union {p \in new : sort[p] \notin {"udata", "string"}}
    BY DEF Propagate, Listed
  <1>7. /\ UNCHANGED <<heap, sort, refs, phase, tmudata, finalized, unswept, full>>
        /\ phase = "propagate"
        /\ grayagain' = IF sort[o] = "thread" THEN grayagain \union {o} ELSE grayagain
        /\ weak' = IF sort[o] = "weak" THEN weak \union {o} ELSE weak
    BY DEF Propagate, program
  <1> HIDE DEF new
  <1>8. TypeOK'
    BY <1>2, <1>3, <1>6, <1>7 DEF TypeOK, Whites
  <1>9. Tricolour'
    <2> SUFFICES ASSUME NEW q \in heap \ tmudata, color'[q] = "black",
                        NEW p \in refs[q], IsWhite(p)'
                 PROVE  FALSE
      BY <1>7 DEF Tricolour
    <2>1. p \in Objects /\ q \in Objects /\ IsWhite(p) /\ p \notin new
      BY <1>3, <1>6, <1>7 DEF IsWhite, Whites, TypeOK
    <2>2. CASE q \in new
      BY <1>5, <1>6, <2>1, <2>2
    <2>3. CASE q \notin new /\ q = o /\ sort[o] = "table"
      BY <1>4, <2>1, <2>3 DEF Strong
    <2>4. CASE q \notin new /\ ~ (q = o /\ sort[o] = "table")
      BY <1>6, <1>7, <2>1, <2>4 DEF Tricolour
    <2> QED BY <2>2, <2>3, <2>4
  <1>10. Queued'
    BY <1>3, <1>6, <1>7 DEF TypeOK, Queued, Shape, IsWhite, Whites, Sorts
  <1>11. Sound' /\ DeadUnswept'
    BY <1>1, <1>2, <1>6, <1>7 DEF TypeOK, Sound, DeadUnswept, IsDead
  <1>12. MarksUnswept' /\ Due' /\ Listless' /\ Root'
    BY <1>1, <1>3, <1>6, <1>7 DEF TypeOK, MarksUnswept, Due, Listless, Root, IsDead
  <1>13. Shape' /\ Finalized'
    BY <1>1, <1>6, <1>7 DEF TypeOK, Shape, Finalized, IsDead
  <1> QED BY <1>8, <1>9, <1>10, <1>11, <1>12, <1>13

-----------------------------------------------------------------------------

(* propagateall: Trace is the least set that holds From and is closed.     *)
LEMMA TraceContains ==
  ASSUME NEW From \in SUBSET Objects
  PROVE  From \subseteq Trace(From)
  BY DEF Trace

LEMMA TraceIsClosed ==
  ASSUME TypeOK, NEW From
  PROVE  TraceClosed(Trace(From))
  BY DEF Trace, TraceClosed, Strong, TypeOK

LEMMA AtomicIInv ==
  ASSUME IInv, Atomic
  PROVE  IInv'
  <1> DEFINE from == weak \union grayagain \union {Main}
             due  == tmudata \union Dying(Trace(from))
             kept == Trace(from \union due)
             strings == {p \in UNION {refs[w] : w \in {v \in kept : sort[v] = "weak"}} :
                           sort[p] = "string"}
  <1> USE MainAssumption DEF IInv
  <1>1. /\ phase = "propagate" /\ gray = {}
        /\ \A p \in heap : ~ IsDead(p)
        /\ \A p \in heap : refs[p] \subseteq heap
    BY DEF Atomic, DeadUnswept, Sound
  <1>2. /\ from \subseteq heap /\ due \subseteq heap
        /\ \A p \in due : sort[p] = "udata"
    BY DEF TypeOK, Due, Dying
  <1>3. /\ from \subseteq kept /\ due \subseteq kept /\ kept \subseteq Objects
        /\ TraceClosed(kept)
    <2>1. from \union due \in SUBSET Objects
      BY <1>2 DEF TypeOK
    <2>2. from \union due \subseteq kept
      BY <2>1, TraceContains
    <2>3. TraceClosed(kept)
      BY TraceIsClosed
    <2> QED BY <2>2, <2>3 DEF Trace
  <1>4. /\ color' = [p \in Objects |->
                       IF p \in kept
                         THEN IF sort[p] \in {"table", "udata"} THEN "black" ELSE "gray"
                         ELSE IF p \in strings THEN "gray" ELSE Swap(color[p])]
        /\ refs' = [w \in Objects |->
                      IF w \in kept /\ sort[w] = "weak"
                        THEN {p \in refs[w] : ~ IsCleared(p, kept, finalized \union due)}
                        ELSE refs[w]]
        /\ phase' = "sweepstring" /\ unswept' = heap \ due
        /\ tmudata' = due /\ finalized' = finalized \union due
    BY DEF Atomic, Flip
  <1>5. /\ UNCHANGED <<heap, sort, full>>
        /\ gray' = {} /\ grayagain' = {} /\ weak' = {}
    BY DEF Atomic
  <1>6. \A p \in strings : p \in Objects /\ sort[p] = "string"
    <2>1. \A w \in kept : refs[w] \subseteq Objects
      BY <1>3 DEF TypeOK
    <2> QED BY <2>1
  <1>7. \A w \in kept : sort[w] = "weak" =>
          \A p \in refs[w] : sort[p] = "string" => p \in strings
    BY DEF TypeOK
  <1>8. due = tmudata \union {p \in heap \ (Trace(from) \union finalized) :
                                 sort[p] = "udata" /\ IsWhite(p)}
    BY DEF Dying
  <1> HIDE DEF strings, kept, due
  <1>9. TypeOK'
    BY <1>1, <1>2, <1>4, <1>5 DEF TypeOK, Whites, Swap
  <1>10. Tricolour' /\ Queued' /\ Listless' /\ Root'
    BY <1>1, <1>2, <1>3, <1>4, <1>5, <1>6 DEF TypeOK, Tricolour, Queued, Listless, Root
  <1>11. \A p \in heap : ~ IsDead(p)' <=> (p \in kept \/ p \in strings \/ ~ IsWhite(p))
    BY <1>1, <1>4 DEF IsDead, IsWhite, Whites, Swap, TypeOK
  <1>12. Sound'
    <2> SUFFICES ASSUME NEW q \in heap, ~ IsDead(q)', NEW p \in refs'[q]
                 PROVE  p \in heap /\ ~ IsDead(p)'
      BY <1>5 DEF Sound
    <2>1. p \in refs[q] /\ p \in heap /\ q \in Objects
      BY <1>1, <1>4 DEF TypeOK
    <2>2. CASE q \in kept /\ sort[q] = "weak"
      BY <1>7, <1>11, <1>4, <2>1, <2>2 DEF IsCleared
    <2>3. CASE q \in kept /\ sort[q] # "weak"
      BY <1>3, <1>11, <2>1, <2>3 DEF TraceClosed, Strong
    <2>4. CASE q \in strings /\ q \notin kept
      BY <1>6, <2>1, <2>4 DEF Shape
    <2>5. CASE q \notin kept /\ q \notin strings
      <3>1. ~ IsWhite(q)
        BY <1>11, <2>5
      <3>2. q \notin tmudata
        BY <1>8, <1>3, <2>5
      <3>3. color[q] = "black"
        BY <1>1, <1>3, <2>1, <2>5, <3>1 DEF Queued, Shape, IsWhite, Whites, TypeOK
      <3> QED BY <1>1, <1>11, <2>1, <3>2, <3>3 DEF Tricolour
    <2> QED BY <2>2, <2>3, <2>4, <2>5
  <1>13. DeadUnswept' /\ MarksUnswept' /\ Due'
    BY <1>2, <1>3, <1>4, <1>5, <1>11 DEF DeadUnswept, MarksUnswept, Due, TypeOK
  <1>14. Shape'
    BY <1>1, <1>3, <1>4, <1>5, <1>6, <1>11 DEF Shape, TypeOK, Swap
  <1>15. Finalized'
    <2> SUFFICES ASSUME NEW p \in heap, sort[p] = "udata", IsDead(p)'
                 PROVE  p \in finalized \union due
      BY <1>4, <1>5 DEF Finalized
    <2>1. IsWhite(p) /\ p \notin kept
      BY <1>11
    <2>2. CASE p \notin Trace(from)
      BY <1>8, <2>1, <2>2
    <2>3. CASE p \in Trace(from)
      BY <2>1, <2>3 DEF kept, Trace
    <2> QED BY <2>2, <2>3
  <1> QED BY <1>9, <1>10, <1>12, <1>13, <1>14, <1>15

-----------------------------------------------------------------------------

LEMMA StepIInv == IInv /\ [Next]_vars => IInv'
  <1> SUFFICES ASSUME IInv, [Next]_vars PROVE IInv'
    OBVIOUS
  <1>1. CASE Mutator
    BY <1>1, NewIInv, InternIInv, DropIInv, SetModeIInv, LoadIInv, StoreIInv,
       ClearIInv, StoreUdataIInv DEF Mutator
  <1>2. CASE Step
    BY <1>2, StartCycleIInv, PropagateIInv, SweepIInv, GCTMIInv, AtomicIInv,
       SweepEndIInv, CycleEndIInv DEF Step
  <1>3. CASE FullGC
    BY <1>3, FullGCIInv
  <1>4. CASE UNCHANGED vars
    BY <1>4 DEF vars, IInv, TypeOK, Tricolour, Queued, Sound, DeadUnswept,
       MarksUnswept, Due, Listless, Root, Shape, Finalized, IsWhite, IsDead
  <1> QED BY <1>1, <1>2, <1>3, <1>4 DEF Next

LEMMA Invariant == Spec => []IInv
  BY InitIInv, StepIInv, PTL DEF Spec

\* The lists of the collector hold objects that are in use, in each phase.
THEOREM TypeCorrect == Spec => []TypeOK
  BY Invariant, PTL DEF IInv

\* The barriers leave no black object with a reference to a white one, for
\* any number of objects.
THEOREM TricolourHolds == Spec => []Tricolour
  BY Invariant, PTL DEF IInv

(* What the program can reach is alive.                                    *)
LEMMA ReachableAlive ==
  ASSUME IInv
  PROVE  HeapSpec!Reachable \subseteq {o \in heap : ~ IsDead(o)}
  <1> DEFINE alive == {o \in heap : ~ IsDead(o)}
  <1>1. alive \in SUBSET Objects /\ {Main} \subseteq alive
    BY DEF IInv, TypeOK, Root, IsDead
  <1>2. \A o \in alive : refs[o] \subseteq alive
    BY DEF IInv, Sound
  <1> QED BY <1>1, <1>2 DEF HeapSpec!Reachable, HeapSpec!Least, HeapSpec!Any

\* Nothing the program can reach is ever freed, whatever it allocates and
\* stores between any two steps of the collector.
THEOREM NothingDangles == Spec => []NoDangling
  <1>1. IInv => NoDangling
    BY ReachableAlive DEF NoDangling
  <1> QED BY <1>1, Invariant, PTL

-----------------------------------------------------------------------------

(* The steps of the program are steps of Heap.                             *)
LEMMA ReachableClosed ==
  ASSUME TypeOK
  PROVE  /\ refs[Main] \subseteq HeapSpec!Reachable
         /\ \A o \in HeapSpec!Reachable : refs[o] \subseteq HeapSpec!Reachable
  BY MainAssumption
     DEF TypeOK, HeapSpec!Reachable, HeapSpec!Least, HeapSpec!Any

LEMMA MutatorRefines ==
  ASSUME IInv, Mutator
  PROVE  HeapSpec!Next
  <1> USE DEF lists, Push, OnStack, HeapSpec!Next
  <1>1. PICK o \in Objects :
          \/ \E s \in Sorts \ {"thread"} : New(o, s)
          \/ Intern(o) \/ Drop(o) \/ SetMode(o)
          \/ \E p \in Objects :
               Load(o, p) \/ Store(o, p) \/ Clear(o, p) \/ StoreUdata(o, p)
    BY DEF Mutator
  <1>2. TypeOK
    BY DEF IInv
  <1>3. ASSUME NEW s \in Sorts \ {"thread"}, New(o, s) PROVE HeapSpec!Next
    BY <1>3 DEF New, HeapSpec!Allocate, HeapSpec!Sorts, Sorts
  <1>4. CASE Intern(o)
    BY <1>4 DEF Intern, HeapSpec!Intern
  <1>5. CASE Drop(o)
    <2>1. refs[Main] \ {o} \in SUBSET HeapSpec!Reachable
      BY <1>2, ReachableClosed
    <2> QED BY <1>5, <2>1 DEF Drop, HeapSpec!Stack
  <1>6. CASE SetMode(o)
    BY <1>6 DEF SetMode, HeapSpec!Mode
  <1>7. ASSUME NEW p \in Objects, Load(o, p) PROVE HeapSpec!Next
    <2>1. refs[Main] \union {p} \in SUBSET HeapSpec!Reachable
      BY <1>2, <1>7, ReachableClosed DEF Load
    <2> QED BY <1>7, <2>1 DEF Load, HeapSpec!Stack
  <1>8. ASSUME NEW p \in Objects, Store(o, p) PROVE HeapSpec!Next
    <2>1. PICK R \in {refs[o]} \union {refs[o] \ {q} : q \in refs[o]} :
            refs' = [refs EXCEPT ![o] = R \union {p}]
      BY <1>8 DEF Store
    <2>2. R \union {p} \in SUBSET (refs[o] \union refs[Main])
      BY <1>8 DEF Store
    <2> QED BY <1>8, <2>1, <2>2 DEF Store, HeapSpec!Write
  <1>9. ASSUME NEW p \in Objects, Clear(o, p) PROVE HeapSpec!Next
    <2>1. refs[o] \ {p} \in SUBSET (refs[o] \union refs[Main])
      OBVIOUS
    <2> QED BY <1>9, <2>1 DEF Clear, HeapSpec!Write
  <1>10. ASSUME NEW p \in Objects, StoreUdata(o, p) PROVE HeapSpec!Next
    <2>1. {p} \in SUBSET (refs[o] \union refs[Main])
      BY <1>10 DEF StoreUdata
    <2> QED BY <1>10, <2>1 DEF StoreUdata, HeapSpec!Write
  <1> QED BY <1>1, <1>3, <1>4, <1>5, <1>6, <1>7, <1>8, <1>9, <1>10

(* Memory is freed when nothing, not even a finalizer, can get at it.      *)
LEMMA SweepRefines ==
  ASSUME IInv, NEW o \in Objects, Sweep(o)
  PROVE  [HeapSpec!Next]_(HeapSpec!vars)
  <1>1. CASE IsDead(o)
    <2> DEFINE alive == {p \in heap : ~ IsDead(p)}
    <2>1. alive \in SUBSET Objects /\ {Main} \union tmudata \subseteq alive
      BY DEF IInv, TypeOK, Root, Due, IsDead
    <2>2. \A p \in alive : refs[p] \subseteq alive
      BY DEF IInv, Sound
    <2>3. o \notin HeapSpec!Accessible
      BY <1>1, <2>1, <2>2
         DEF HeapSpec!Accessible, HeapSpec!Least, HeapSpec!Any
    <2>4. o \in heap /\ (sort[o] = "udata" => o \in finalized)
      BY <1>1 DEF Sweep, IInv, TypeOK, Finalized
    <2> QED BY <1>1, <2>3, <2>4
            DEF Sweep, Swept, HeapSpec!Free, HeapSpec!Next
  <1>2. CASE ~ IsDead(o)
    BY <1>2 DEF Sweep, Swept, program, HeapSpec!vars
  <1> QED BY <1>1, <1>2

(* Marking stops at nothing white: what is not white, or was traced from   *)
(* the gray, holds nothing else, unless it is a userdata that waits for    *)
(* its finalizer and was not traced.                                       *)
LEMMA MarkedIsClosed ==
  ASSUME IInv, phase = "propagate", gray = {},
         NEW From \in SUBSET Objects,
         weak \union grayagain \union {Main} \subseteq From,
         NEW q \in heap, ~ IsWhite(q) \/ q \in Trace(From),
         q \in tmudata => q \in Trace(From)
  PROVE  \A p \in Strong(q) : p \in heap /\ (IsWhite(p) => p \in Trace(From))
  <1>1. refs[q] \subseteq heap
    BY DEF IInv, Sound, DeadUnswept
  <1>2. CASE q \in Trace(From)
    BY <1>1, <1>2, TraceIsClosed DEF TraceClosed, Strong, IInv
  <1>3. CASE q \notin Trace(From)
    <2>1. q \notin From
      BY <1>3, TraceContains
    <2>2. color[q] = "black" \/ sort[q] = "string"
      BY <1>3, <2>1 DEF IInv, Queued, IsWhite, Whites, TypeOK
    <2> QED BY <1>1, <1>3, <2>2 DEF IInv, Tricolour, Shape, Strong
  <1> QED BY <1>2, <1>3

LEMMA AtomicRefines ==
  ASSUME IInv, Atomic
  PROVE  HeapSpec!Next
  <1> DEFINE from  == weak \union grayagain \union {Main}
             dying == Dying(Trace(from))
             due   == tmudata \union dying
             kept  == Trace(from \union due)
             safe  == {q \in heap : ~ IsWhite(q) \/ q \in Trace(from)}
             held  == {q \in heap : ~ IsWhite(q) \/ q \in kept}
  <1> USE MainAssumption
  <1>1. /\ phase = "propagate" /\ gray = {}
        /\ UNCHANGED <<heap, sort>>
        /\ tmudata' = due /\ finalized' = finalized \union due
        /\ refs' = [w \in Objects |->
                      IF w \in kept /\ sort[w] = "weak"
                        THEN {p \in refs[w] : ~ IsCleared(p, kept, finalized \union due)}
                        ELSE refs[w]]
    BY DEF Atomic, Flip
  <1>2. /\ TypeOK
        /\ from \in SUBSET heap /\ due \in SUBSET heap
        /\ tmudata \subseteq finalized
        /\ \A p \in dying : /\ p \in heap /\ sort[p] = "udata" /\ IsWhite(p)
                            /\ p \notin finalized /\ p \notin Trace(from)
    BY DEF IInv, TypeOK, Dying
  <1>3. /\ from \in SUBSET Objects /\ from \union due \in SUBSET Objects
        /\ from \subseteq Trace(from)
        /\ from \union due \subseteq kept
    BY <1>2, TraceContains DEF TypeOK
  <1> HIDE DEF dying, kept
  <1>4. HeapSpec!Safe \subseteq safe
    <2>1. safe \in SUBSET Objects /\ {Main} \subseteq safe
      BY <1>2, <1>3 DEF TypeOK
    <2>2. \A q \in safe : HeapSpec!Undoomed(q) \subseteq safe
      <3> SUFFICES ASSUME NEW q \in safe, q \notin tmudata
                   PROVE  Strong(q) \subseteq safe
        BY DEF HeapSpec!Undoomed, HeapSpec!Strong, Strong
      <3> QED BY <1>1, <1>3, MarkedIsClosed
    <2> QED BY <2>1, <2>2 DEF HeapSpec!Safe, HeapSpec!Least
  <1>5. HeapSpec!Kept(due) \subseteq held
    <2>1. held \in SUBSET Objects /\ {Main} \union due \subseteq held
      BY <1>2, <1>3 DEF TypeOK
    <2>2. \A q \in held : HeapSpec!Strong(q) \subseteq held
      <3> SUFFICES ASSUME NEW q \in held PROVE Strong(q) \subseteq held
        BY DEF HeapSpec!Strong, Strong
      <3> QED BY <1>1, <1>3, MarkedIsClosed DEF kept
    <2> QED BY <2>1, <2>2 DEF HeapSpec!Kept, HeapSpec!Least
  <1>6. dying \in SUBSET {o \in heap \ HeapSpec!Safe :
                            sort[o] = "udata" /\ o \notin finalized}
    BY <1>2, <1>4
  <1>7. \A w \in HeapSpec!Kept(due) : sort[w] = "weak" => refs'[w] \cap dying = {}
    <2> SUFFICES ASSUME NEW w \in held, sort[w] = "weak",
                        NEW p \in refs'[w], p \in dying
                 PROVE  FALSE
      BY <1>5
    <2>1. CASE w \in kept
      BY <1>1, <1>2, <2>1 DEF IsCleared, TypeOK
    <2>2. CASE w \notin kept
      <3>1. color[w] = "black"
        BY <1>1, <1>3, <2>2 DEF IInv, Queued, IsWhite, Whites, TypeOK
      <3>2. w \notin tmudata
        BY <1>3, <2>2
      <3> QED BY <1>1, <1>2, <2>2, <3>1, <3>2 DEF IInv, Tricolour, TypeOK
    <2> QED BY <2>1, <2>2
  <1>8. refs' \in [Objects -> SUBSET Objects]
    BY <1>1, <1>2 DEF TypeOK
  <1>9. \A w \in Objects :
          /\ refs'[w] \subseteq refs[w]
          /\ \A o \in refs[w] \ refs'[w] :
               /\ sort[w] = "weak"
               /\ sort[o] # "string"
               /\ o \in HeapSpec!Kept(due) => sort[o] = "udata" /\ o \in finalized'
    BY <1>1, <1>5 DEF IsCleared
  <1>10. tmudata' = tmudata \union dying /\ finalized' = finalized \union dying
    BY <1>1, <1>2
  <1>11. HeapSpec!Condemn
    BY <1>1, <1>6, <1>7, <1>8, <1>9, <1>10 DEF HeapSpec!Condemn
  <1> QED BY <1>11 DEF HeapSpec!Next

LEMMA StepRefines == IInv /\ [Next]_vars => [HeapSpec!Next]_(HeapSpec!vars)
  <1> SUFFICES ASSUME IInv, [Next]_vars PROVE [HeapSpec!Next]_(HeapSpec!vars)
    OBVIOUS
  <1> USE DEF HeapSpec!vars, program
  <1>1. CASE Mutator
    BY <1>1, MutatorRefines
  <1>2. CASE StartCycle \/ SweepEnd \/ CycleEnd \/ FullGC \/ UNCHANGED vars
    BY <1>2 DEF StartCycle, SweepEnd, CycleEnd, FullGC, vars
  <1>3. ASSUME NEW o \in Objects, Propagate(o) PROVE UNCHANGED HeapSpec!vars
    BY <1>3 DEF Propagate
  <1>4. ASSUME NEW o \in Objects, Sweep(o)
        PROVE  [HeapSpec!Next]_(HeapSpec!vars)
    BY <1>4, SweepRefines
  <1>5. ASSUME NEW o \in Objects, GCTM(o) PROVE HeapSpec!Next
    BY <1>5 DEF GCTM, HeapSpec!Next, HeapSpec!Finalize
  <1>6. CASE Atomic
    BY <1>6, AtomicRefines
  <1> QED BY <1>1, <1>2, <1>3, <1>4, <1>5, <1>6 DEF Next, Step

\* The collector keeps the promise of Heap to every program: each of its
\* steps, barriers included, is one of Heap or is invisible there.
THEOREM CollectorIsHeap == Spec => IsHeap
  <1>1. Init => HeapSpec!Init
    BY DEF Init, HeapSpec!Init
  <1> QED BY <1>1, Invariant, StepRefines, PTL DEF Spec, IsHeap, HeapSpec!Spec
-----------------------------------------------------------------------------
(***************************************************************************)
(* collectgarbage() collects all the garbage there is: when the cycle that *)
(* luaC_fullgc runs has swept, what is left is what the program can reach, *)
(* now or when the finalizers that are due have been called.               *)
(***************************************************************************)
FullIsThorough ==
  [][full = "mark" /\ phase = "sweep" /\ phase' = "finalize" =>
       heap' = HeapSpec!Accessible']_vars

(* What a sweep finds dead is freed, all of it, before the next cycle;     *)
(* only a string may be found again before that, in the string table.      *)
SweepIsComplete ==
  /\ [](phase \notin {"sweepstring", "sweep"} => \A o \in heap : ~ IsDead(o))
  /\ [][\A o \in heap : IsDead(o) =>
          \/ IsDead(o)'
          \/ o \notin heap'
          \/ sort[o] = "string" /\ o \in refs'[Main]]_vars

(* A cycle of luaC_fullgc that runs undisturbed has marked and listed only *)
(* what is kept, and leaves alive only what can be reached.                *)
MarksKept ==
  full = "mark" /\ phase = "propagate" =>
    \A o \in heap :
      ~ IsWhite(o) \/ o \in gray \union grayagain \union weak =>
        o \in HeapSpec!Kept(tmudata)

AliveAccessible ==
  full = "mark" /\ phase \in {"sweepstring", "sweep"} =>
    \A o \in heap : IsDead(o) \/ o \in HeapSpec!Accessible

(* What the two sets of Heap contain, and that they are the least.         *)
LEMMA AccessibleIs ==
  ASSUME TypeOK
  PROVE  /\ {Main} \union tmudata \subseteq HeapSpec!Accessible
         /\ HeapSpec!Accessible \subseteq Objects
         /\ \A q \in HeapSpec!Accessible : refs[q] \subseteq HeapSpec!Accessible
         /\ \A R \in SUBSET Objects :
              /\ {Main} \union tmudata \subseteq R
              /\ \A q \in R : refs[q] \subseteq R
              => HeapSpec!Accessible \subseteq R
  <1>1. tmudata \subseteq Objects /\ Main \in Objects
    BY DEF TypeOK
  <1> QED BY <1>1 DEF TypeOK, HeapSpec!Accessible, HeapSpec!Least, HeapSpec!Any

LEMMA AccessibleNext ==
  ASSUME TypeOK'
  PROVE  /\ {Main} \union tmudata' \subseteq HeapSpec!Accessible'
         /\ HeapSpec!Accessible' \subseteq Objects
         /\ \A q \in HeapSpec!Accessible' :
              refs'[q] \subseteq HeapSpec!Accessible'
  <1>1. tmudata' \subseteq Objects /\ Main \in Objects
    BY DEF TypeOK
  <1> QED BY <1>1 DEF TypeOK, HeapSpec!Accessible, HeapSpec!Least, HeapSpec!Any

LEMMA KeptIs ==
  ASSUME TypeOK
  PROVE  /\ {Main} \union tmudata \subseteq HeapSpec!Kept(tmudata)
         /\ HeapSpec!Kept(tmudata) \subseteq Objects
         /\ \A q \in HeapSpec!Kept(tmudata) :
              Strong(q) \subseteq HeapSpec!Kept(tmudata)
         /\ \A R \in SUBSET Objects :
              /\ {Main} \union tmudata \subseteq R
              /\ \A q \in R : Strong(q) \subseteq R
              => HeapSpec!Kept(tmudata) \subseteq R
  <1>1. tmudata \subseteq Objects /\ Main \in Objects
    BY DEF TypeOK
  <1>2. \A q \in Objects : Strong(q) \subseteq Objects
    BY DEF TypeOK, Strong
  <1>3. \A q : HeapSpec!Strong(q) = Strong(q)
    BY DEF HeapSpec!Strong, Strong
  <1> QED BY <1>1, <1>2, <1>3 DEF HeapSpec!Kept, HeapSpec!Least

(* What can be reached is alive.                                           *)
LEMMA AccessibleAlive ==
  ASSUME IInv
  PROVE  \A o \in HeapSpec!Accessible : o \in heap /\ ~ IsDead(o)
  <1> DEFINE alive == {o \in heap : ~ IsDead(o)}
  <1>1. alive \in SUBSET Objects /\ {Main} \union tmudata \subseteq alive
    BY DEF IInv, TypeOK, Root, Due, IsDead
  <1>2. \A q \in alive : refs[q] \subseteq alive
    BY DEF IInv, Sound
  <1>3. HeapSpec!Accessible \subseteq alive
    BY <1>1, <1>2, AccessibleIs DEF IInv
  <1> QED BY <1>3

(* During the cycle of luaC_fullgc the program waits.                      *)
LEMMA ProgramWaits ==
  ASSUME Mutator
  PROVE  ~ (full = "mark" /\ phase # "finalize")
  BY DEF Mutator, New, Intern, Drop, SetMode, Load, Store, Clear, StoreUdata, Running

LEMMA MarksKeptStays ==
  ASSUME IInv, MarksKept, [Next]_vars
  PROVE  MarksKept'
  <1> SUFFICES ASSUME full' = "mark", phase' = "propagate"
               PROVE  \A o \in heap' :
                        ~ IsWhite(o)' \/ o \in gray' \union grayagain' \union weak' =>
                          o \in HeapSpec!Kept(tmudata)'
    BY DEF MarksKept
  <1>0. TypeOK /\ TypeOK'
    BY StepIInv DEF IInv
  <1>1. CASE StartCycle
    <2>1. full = "sweep" /\ phase = "finalize"
      BY <1>1 DEF StartCycle, IInv, TypeOK
    <2>2. \A o \in heap : ~ IsWhite(o) => o \in tmudata
      BY <2>1 DEF IInv, MarksUnswept, IsWhite, Whites
    <2>3. /\ Marked({Main}) \subseteq {Main}
          /\ Listed({Main}) \subseteq {Main}
      BY <1>0 DEF Marked, Listed, TypeOK
    <2>4. /\ gray' \union grayagain' \union weak' \subseteq {Main}
          /\ \A o \in heap' : ~ IsWhite(o)' => ~ IsWhite(o) \/ o = Main
          /\ UNCHANGED <<heap, refs, sort, tmudata>>
      BY <1>0, <1>1, <2>3
         DEF StartCycle, MarkRoot, Mark, IsWhite, program, TypeOK
    <2>5. HeapSpec!Kept(tmudata)' = HeapSpec!Kept(tmudata)
      BY <2>4 DEF HeapSpec!Kept, HeapSpec!Least, HeapSpec!Strong
    <2> QED BY <1>0, <2>2, <2>4, <2>5, KeptIs
  <1>2. ASSUME NEW o \in Objects, Propagate(o) PROVE MarksKept'
    <2> DEFINE K == HeapSpec!Kept(tmudata)
    <2>1. /\ phase = "propagate" /\ o \in gray /\ full = "mark"
          /\ UNCHANGED <<heap, refs, sort, tmudata>>
      BY <1>2 DEF Propagate, program
    <2>2. /\ \A q \in heap :
               ~ IsWhite(q) \/ q \in gray \union grayagain \union weak => q \in K
          /\ o \in K
      BY <1>0, <2>1 DEF MarksKept, TypeOK
    <2>3. K \subseteq Objects /\ \A q \in K : Strong(q) \subseteq K
      BY <1>0, KeptIs
    <2> HIDE DEF K
    <2>4. Strong(o) \subseteq K
      BY <2>2, <2>3
    <2>5. Marked(Strong(o)) \subseteq K
      BY <2>3, <2>4 DEF Marked, Strong
    <2>6. /\ gray' \union grayagain' \union weak'
               \subseteq gray \union grayagain \union weak \union Marked(Strong(o))
          /\ \A q \in heap' : ~ IsWhite(q)' =>
               ~ IsWhite(q) \/ q \in Marked(Strong(o)) \/ q = o
      BY <1>0, <1>2, <2>1 DEF Propagate, IsWhite, Listed, TypeOK, Whites
    <2>7. HeapSpec!Kept(tmudata)' = K
      BY <2>1 DEF K, HeapSpec!Kept, HeapSpec!Least, HeapSpec!Strong
    <2> QED BY <2>1, <2>2, <2>5, <2>6, <2>7 DEF MarksKept
  <1>3. CASE UNCHANGED vars
    <2>1. HeapSpec!Kept(tmudata)' = HeapSpec!Kept(tmudata)
      BY <1>3 DEF vars, HeapSpec!Kept, HeapSpec!Least, HeapSpec!Strong
    <2> QED BY <1>3, <2>1 DEF vars, MarksKept, IsWhite
  <1>4. CASE Mutator
    <2>1. UNCHANGED <<phase, full>>
      BY <1>4 DEF Mutator, New, Intern, Drop, SetMode, Load, Store, Clear,
         StoreUdata
    <2> QED BY <1>4, <2>1, ProgramWaits
  <1>5. ASSUME NEW o \in Objects, Sweep(o) \/ GCTM(o) PROVE FALSE
    BY <1>5 DEF Sweep, Swept, GCTM
  <1>6. ~ Atomic /\ ~ SweepEnd /\ ~ CycleEnd /\ ~ FullGC
    BY DEF Atomic, Flip, SweepEnd, CycleEnd, FullGC
  <1> QED BY <1>1, <1>2, <1>3, <1>4, <1>5, <1>6 DEF Next, Step, MarksKept

(* What atomic leaves alive at the end of an undisturbed cycle.            *)
LEMMA AtomicIsThorough ==
  ASSUME IInv, MarksKept, Atomic, full = "mark"
  PROVE  AliveAccessible'
  <1> DEFINE from == weak \union grayagain \union {Main}
             due  == tmudata \union Dying(Trace(from))
             kept == Trace(from \union due)
             strings == {p \in UNION {refs[w] : w \in {v \in kept : sort[v] = "weak"}} :
                           sort[p] = "string"}
             K == HeapSpec!Kept(tmudata)
             A == HeapSpec!Accessible'
  <1>0. TypeOK /\ TypeOK'
    BY AtomicIInv DEF IInv
  <1>1. /\ phase = "propagate"
        /\ color' = [p \in Objects |->
                       IF p \in kept
                         THEN IF sort[p] \in {"table", "udata"} THEN "black" ELSE "gray"
                         ELSE IF p \in strings THEN "gray" ELSE Swap(color[p])]
        /\ refs' = [w \in Objects |->
                      IF w \in kept /\ sort[w] = "weak"
                        THEN {p \in refs[w] : ~ IsCleared(p, kept, finalized \union due)}
                        ELSE refs[w]]
        /\ tmudata' = due /\ UNCHANGED <<heap, sort>>
    BY DEF Atomic, Flip
  <1>2. \A q \in heap : ~ IsDead(q)
    BY <1>1 DEF IInv, DeadUnswept
  <1>3. /\ {Main} \union due \subseteq A /\ A \subseteq Objects
        /\ \A q \in A : refs'[q] \subseteq A
    BY <1>0, <1>1, AccessibleNext
  <1>4. \A R \in SUBSET Objects :
          {Main} \union tmudata \subseteq R /\ (\A q \in R : Strong(q) \subseteq R)
            => K \subseteq R
    BY <1>0, KeptIs
  <1>5. \A q \in heap : ~ IsWhite(q) \/ q \in from => q \in K
    BY <1>0, <1>1, KeptIs DEF MarksKept
  <1>6. /\ from \subseteq heap /\ tmudata \subseteq due
        /\ \A q : q \in kept => \A R \in SUBSET Objects :
             from \union due \subseteq R /\ TraceClosed(R) => q \in R
    BY <1>0 DEF Trace, TypeOK
  <1>7. \A p : sort[p] = "string" => ~ IsCleared(p, kept, finalized \union due)
    BY DEF IsCleared
  <1> HIDE DEF from, due, kept, K, A
  <1>8. \A q \in A : Strong(q) \subseteq A
    BY <1>1, <1>3 DEF Strong
  <1>9. K \subseteq A
    BY <1>3, <1>4, <1>6, <1>8
  <1>10. kept \subseteq A
    <2>1. from \union due \subseteq A
      BY <1>3, <1>5, <1>6, <1>9
    <2>2. TraceClosed(A)
      BY <1>8 DEF TraceClosed
    <2> QED BY <1>3, <1>6, <2>1, <2>2
  <1>11. strings \subseteq A
    <2> SUFFICES ASSUME NEW w \in kept, sort[w] = "weak", NEW p \in refs[w],
                        sort[p] = "string"
                 PROVE  p \in A
      OBVIOUS
    <2>1. p \in refs'[w] /\ w \in A
      BY <1>1, <1>3, <1>7, <1>10
    <2> QED BY <1>3, <2>1
  <1>12. ASSUME NEW q \in heap', ~ IsDead(q)' PROVE q \in A
    <2>1. q \in heap /\ q \in Objects /\ color[q] # "dead"
      BY <1>0, <1>1, <1>2 DEF IsDead, TypeOK
    <2>2. CASE q \in kept \/ q \in strings
      BY <1>10, <1>11, <2>2
    <2>3. CASE q \notin kept /\ q \notin strings
      <3>1. Swap(color[q]) # "dead"
        BY <1>1, <1>12, <2>1, <2>3 DEF IsDead
      <3>2. color[q] # "white"
        BY <3>1 DEF Swap
      <3>3. ~ IsWhite(q)
        BY <2>1, <3>2 DEF IsWhite, Whites
      <3> QED BY <1>5, <1>9, <2>1, <3>3
    <2> QED BY <2>2, <2>3
  <1> QED BY <1>12 DEF AliveAccessible, A

LEMMA SweepKeepsAccessible ==
  ASSUME IInv, NEW o \in Objects, Sweep(o)
  PROVE  HeapSpec!Accessible \subseteq HeapSpec!Accessible'
  <1>0. TypeOK /\ TypeOK'
    BY SweepIInv DEF IInv
  <1>1. UNCHANGED tmudata
    BY DEF Sweep, Swept
  <1>2. CASE ~ IsDead(o)
    <2>1. UNCHANGED refs
      BY <1>2 DEF Sweep, Swept, program
    <2> QED BY <1>1, <2>1
            DEF HeapSpec!Accessible, HeapSpec!Least, HeapSpec!Any
  <1>3. CASE IsDead(o)
    <2> DEFINE A == HeapSpec!Accessible'
               R == {q \in A : q \in heap /\ ~ IsDead(q)}
    <2>1. /\ {Main} \union tmudata \subseteq A /\ A \subseteq Objects
          /\ \A q \in A : refs'[q] \subseteq A
      BY <1>0, <1>1, AccessibleNext
    <2>2. \A S \in SUBSET Objects :
            {Main} \union tmudata \subseteq S /\ (\A q \in S : refs[q] \subseteq S)
              => HeapSpec!Accessible \subseteq S
      BY <1>0, AccessibleIs
    <2>3. {Main} \union tmudata \subseteq R
      BY <2>1 DEF IInv, TypeOK, Root, Due, IsDead
    <2>4. \A q \in R : refs[q] \subseteq R
      <3> SUFFICES ASSUME NEW q \in R, NEW p \in refs[q] PROVE p \in R
        OBVIOUS
      <3>1. p \in heap /\ ~ IsDead(p)
        BY DEF IInv, Sound
      <3>2. q # o
        BY <1>3
      <3>3. refs' = [refs EXCEPT ![o] = {}]
        BY <1>3 DEF Sweep, Swept
      <3>4. q \in A
        OBVIOUS
      <3> HIDE DEF A
      <3>5. refs'[q] = refs[q]
        BY <1>0, <2>1, <3>2, <3>3, <3>4 DEF TypeOK
      <3>6. p \in A
        BY <2>1, <3>4, <3>5
      <3> QED BY <3>1, <3>6
    <2>5. R \in SUBSET Objects
      BY <2>1
    <2>6. R \subseteq A
      OBVIOUS
    <2> HIDE DEF R
    <2>7. HeapSpec!Accessible \subseteq R
      BY <2>2, <2>3, <2>4, <2>5
    <2> QED BY <2>6, <2>7
  <1> QED BY <1>2, <1>3

LEMMA AliveAccessibleStays ==
  ASSUME IInv, MarksKept, AliveAccessible, [Next]_vars
  PROVE  AliveAccessible'
  <1> SUFFICES ASSUME full' = "mark", phase' \in {"sweepstring", "sweep"}
               PROVE  AliveAccessible'
    BY DEF AliveAccessible
  <1>1. CASE Atomic
    <2>1. full = "mark"
      BY <1>1 DEF Atomic
    <2> QED BY <1>1, <2>1, AtomicIsThorough
  <1>2. ASSUME NEW o \in Objects, Sweep(o) PROVE AliveAccessible'
    <2>1. /\ full = "mark" /\ phase \in {"sweepstring", "sweep"}
          /\ heap' \subseteq heap
          /\ o \in heap
          /\ \A q \in heap' : q # o => color'[q] = color[q]
          /\ IsDead(o) => o \notin heap'
      BY <1>2 DEF Sweep, Swept, program, IInv, TypeOK
    <2>2. \A q \in heap : IsDead(q) \/ q \in HeapSpec!Accessible
      BY <2>1 DEF AliveAccessible
    <2>3. HeapSpec!Accessible \subseteq HeapSpec!Accessible'
      BY <1>2, SweepKeepsAccessible
    <2>4. \A q \in heap' : IsDead(q)' \/ q \in HeapSpec!Accessible'
      BY <2>1, <2>2, <2>3 DEF IsDead
    <2> QED BY <2>4 DEF AliveAccessible
  <1>3. CASE SweepEnd \/ UNCHANGED vars
    <2>1. /\ UNCHANGED <<heap, refs, color, tmudata, full>>
          /\ phase \in {"sweepstring", "sweep"}
      BY <1>3 DEF SweepEnd, vars, program
    <2>2. HeapSpec!Accessible' = HeapSpec!Accessible
      BY <2>1 DEF HeapSpec!Accessible, HeapSpec!Least, HeapSpec!Any
    <2> QED BY <2>1, <2>2 DEF AliveAccessible, IsDead
  <1>4. CASE Mutator
    <2>1. UNCHANGED <<phase, full>>
      BY <1>4 DEF Mutator, New, Intern, Drop, SetMode, Load, Store, Clear,
         StoreUdata
    <2> QED BY <1>4, <2>1, ProgramWaits
  <1>5. ASSUME NEW o \in Objects, Propagate(o) \/ GCTM(o) PROVE FALSE
    BY <1>5 DEF Propagate, GCTM
  <1>6. ~ StartCycle /\ ~ CycleEnd /\ ~ FullGC
    BY DEF StartCycle, MarkRoot, CycleEnd, FullGC
  <1> QED BY <1>1, <1>2, <1>3, <1>4, <1>5, <1>6 DEF Next, Step

\* luaC_fullgc leaves nothing but what the program can reach, now or through
\* the finalizers that are due.
THEOREM FullCollection == Spec => FullIsThorough
  <1>1. Init => MarksKept /\ AliveAccessible
    BY DEF Init, MarksKept, AliveAccessible
  <1>2. Spec => [](MarksKept /\ AliveAccessible)
    <2>1. (MarksKept /\ AliveAccessible) /\ IInv /\ [Next]_vars
            => (MarksKept /\ AliveAccessible)'
      BY MarksKeptStays, AliveAccessibleStays
    <2> QED BY <1>1, <2>1, Invariant, PTL DEF Spec
  <1>3. IInv /\ AliveAccessible /\ [Next]_vars =>
          [full = "mark" /\ phase = "sweep" /\ phase' = "finalize" =>
             heap' = HeapSpec!Accessible']_vars
    <2> SUFFICES ASSUME IInv, AliveAccessible, Next, full = "mark",
                        phase = "sweep", phase' = "finalize"
                 PROVE  heap' = HeapSpec!Accessible'
      OBVIOUS
    <2>1. SweepEnd
      <3>1. ~ Mutator
        BY DEF Mutator, New, Intern, Drop, SetMode, Load, Store, Clear, StoreUdata
      <3>2. ~ FullGC /\ ~ StartCycle /\ ~ Atomic /\ ~ CycleEnd
        BY DEF FullGC, StartCycle, Atomic, CycleEnd
      <3>3. \A o \in Objects : ~ Propagate(o) /\ ~ Sweep(o) /\ ~ GCTM(o)
        BY DEF Propagate, Sweep, Swept, GCTM
      <3> QED BY <3>1, <3>2, <3>3 DEF Next, Step
    <2>2. unswept = {} /\ UNCHANGED <<heap, refs, tmudata>>
      BY <2>1 DEF SweepEnd, program
    <2>3. \A o \in heap : ~ IsDead(o)
      BY <2>2 DEF IInv, DeadUnswept
    <2>4. heap = HeapSpec!Accessible
      BY <2>3, AccessibleAlive DEF AliveAccessible
    <2>5. HeapSpec!Accessible' = HeapSpec!Accessible
      BY <2>2 DEF HeapSpec!Accessible, HeapSpec!Least, HeapSpec!Any
    <2> QED BY <2>2, <2>4, <2>5
  <1> QED BY <1>2, <1>3, Invariant, PTL DEF Spec, FullIsThorough

\* What a sweep finds dead does not outlive it, nor comes back, but for
\* strings that the program finds again.
THEOREM DeadAreFreed == Spec => SweepIsComplete
  <1>1. IInv => (phase \notin {"sweepstring", "sweep"} =>
                   \A o \in heap : ~ IsDead(o))
    BY DEF IInv, DeadUnswept
  <1>2. IInv /\ [Next]_vars =>
          [\A o \in heap : IsDead(o) =>
             \/ IsDead(o)'
             \/ o \notin heap'
             \/ sort[o] = "string" /\ o \in refs'[Main]]_vars
    <2> SUFFICES ASSUME IInv, Next, NEW d \in heap, IsDead(d)
                 PROVE  \/ IsDead(d)'
                        \/ d \notin heap'
                        \/ sort[d] = "string" /\ d \in refs'[Main]
      OBVIOUS
    <2>1. /\ phase \in {"sweepstring", "sweep"} /\ d \in Objects
          /\ d \notin tmudata /\ color[d] = "dead" /\ TypeOK
      BY DEF IInv, DeadUnswept, TypeOK, Due, IsDead
    <2>2. CASE Mutator
      <3>1. ASSUME NEW o \in Objects, Intern(o)
            PROVE  IsDead(d)' \/ (sort[d] = "string" /\ d \in refs'[Main])
        BY <2>1, <3>1, MainAssumption DEF Intern, Push, IsDead, TypeOK
      <3>2. ASSUME NEW o \in Objects, NEW s, New(o, s) PROVE IsDead(d)'
        BY <2>1, <3>2 DEF New, IsDead, TypeOK
      <3>3. ASSUME NEW o \in Objects, NEW p \in Objects,
                   \/ Drop(o) \/ SetMode(o) \/ Load(o, p) \/ Clear(o, p)
            PROVE  IsDead(d)'
        BY <2>1, <3>3 DEF Drop, SetMode, Load, Clear, IsDead
      <3>4. ASSUME NEW o \in Objects, NEW p \in Objects,
                   Store(o, p) \/ StoreUdata(o, p)
            PROVE  IsDead(d)'
        BY <2>1, <3>4
           DEF Store, StoreUdata, BarrierBack, BarrierForward, IsDead, TypeOK
      <3> QED BY <2>2, <3>1, <3>2, <3>3, <3>4 DEF Mutator
    <2>3. ASSUME NEW o \in Objects, Sweep(o) PROVE IsDead(d)' \/ d \notin heap'
      BY <2>1, <2>3 DEF Sweep, Swept, IsDead, TypeOK
    <2>4. CASE SweepEnd \/ FullGC
      BY <2>1, <2>4 DEF SweepEnd, FullGC, IsDead
    <2>5. /\ ~ StartCycle /\ ~ Atomic /\ ~ CycleEnd
          /\ \A o \in Objects : ~ Propagate(o) /\ ~ GCTM(o)
      BY <2>1 DEF StartCycle, Atomic, CycleEnd, Propagate, GCTM
    <2> QED BY <2>2, <2>3, <2>4, <2>5 DEF Next, Step
  <1> QED BY <1>1, <1>2, Invariant, PTL DEF Spec, SweepIsComplete
=============================================================================
