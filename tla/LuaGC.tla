-------------------------------- MODULE LuaGC --------------------------------
(***************************************************************************)
(* The incremental collector of Lua/lua/lgc.c and the program it runs      *)
(* beside.  The firmware lets any allocation run the collector, one step   *)
(* at a time or a whole cycle (l_alloc in Lua/lua/lauxlib.c), so its       *)
(* actions come between any two of the program.                            *)
(*                                                                         *)
(* Lists of objects (gray, grayagain, weak, tmudata and the rest of the    *)
(* sweep) are sets: the order in which the code works through them does    *)
(* not matter to what is shown here.  Main stands for the roots: the main  *)
(* thread with its stack; the global table and the registry are tables     *)
(* that happen to stay on it.  A closure is marked like a userdata, except *)
(* that it waits in gray like a table, and is not distinguished from one.  *)
(* Upvalues are left out.                                                  *)
(***************************************************************************)
EXTENDS Naturals, FiniteSets

CONSTANTS
  Objects,      \* addresses
  Main,         \* the main thread, one of them
  Width,        \* bound: references held by an object
  Depth         \* bound: references on the stack

ASSUME MainAssumption == Main \in Objects
ASSUME BoundAssumption == Width \in Nat /\ Depth \in Nat

VARIABLES
  heap,         \* the addresses in use
  sort,         \* gch.tt, and for a table whether its __mode has a 'v'
  refs,         \* the references each object holds
  color,        \* gch.marked: the current white, the other one (which is
                \* that of the dead), gray, black
  phase,        \* g->gcstate
  gray, grayagain, weak,      \* the lists of that name
  tmudata,      \* g->tmudata
  finalized,    \* the objects with FINALIZEDBIT
  unswept,      \* what the sweep of this cycle has yet to visit
  full          \* where luaC_fullgc is, if it runs

program == <<heap, sort, refs>>
lists == <<gray, grayagain, weak>>
vars == <<heap, sort, refs, color, phase, gray, grayagain, weak,
          tmudata, finalized, unswept, full>>

Sorts == {"table", "weak", "udata", "string", "thread"}
Whites == {"white", "dead"}

IsWhite(o) == color[o] \in Whites
IsDead(o) == color[o] = "dead"

(* What marking an object marks in turn.                                   *)
Strong(o) == IF sort[o] = "weak" THEN {} ELSE refs[o]

Init ==
  /\ heap = {Main}
  /\ sort = [o \in Objects |-> IF o = Main THEN "thread" ELSE "table"]
  /\ refs = [o \in Objects |-> {}]
  /\ color = [o \in Objects |-> "white"]
  /\ phase = "pause"
  /\ gray = {} /\ grayagain = {} /\ weak = {}
  /\ tmudata = {} /\ finalized = {} /\ unswept = {}
  /\ full = "no"

-----------------------------------------------------------------------------

(* reallymarkobject, on the white ones of S: a userdata is black at once   *)
(* and its environment and metatable are marked; a string is gray and on   *)
(* no list; a table or thread is gray and listed.                          *)
Marked(S) ==
  LET direct == {o \in S : IsWhite(o)}
      udata == {o \in direct : sort[o] = "udata"}
  IN  direct \union {o \in UNION {refs[u] : u \in udata} : IsWhite(o)}

Mark(S) ==
  color' = [o \in Objects |->
              IF o \in Marked(S)
                THEN IF sort[o] = "udata" THEN "black" ELSE "gray"
                ELSE color[o]]

Listed(S) == {o \in Marked(S) : sort[o] \notin {"udata", "string"}}

-----------------------------------------------------------------------------

(* The program runs, on its own or as the finalizer that GCTM calls.       *)
Running == full = "no" \/ (full = "mark" /\ phase = "finalize")

OnStack(o) == o \in refs[Main]

Push(o) ==
  /\ Cardinality(refs[Main] \union {o}) <= Depth
  /\ refs' = [refs EXCEPT ![Main] = @ \union {o}]

(* lua_newtable, lua_newuserdata, luaS_newlstr: the new object is white.   *)
(* In a sweep it may be linked before or behind the sweeper.               *)
New(o, s) ==
  /\ Running
  /\ o \notin heap
  /\ heap' = heap \union {o}
  /\ sort' = [sort EXCEPT ![o] = s]
  /\ color' = [color EXCEPT ![o] = "white"]
  /\ Push(o)
  /\ \/ UNCHANGED unswept
     \/ /\ phase = "sweepstring" \/ (phase = "sweep" /\ s # "string")
        /\ unswept' = unswept \union {o}
  /\ UNCHANGED <<phase, lists, tmudata, finalized, full>>

(* luaS_newlstr finds the string in the string table, dead perhaps.        *)
Intern(o) ==
  /\ Running
  /\ o \in heap
  /\ sort[o] = "string"
  /\ color' = [color EXCEPT ![o] = IF IsDead(o) THEN "white" ELSE @]
  /\ Push(o)
  /\ UNCHANGED <<heap, sort, phase, lists, tmudata, finalized,
                 unswept, full>>

(* lua_gettable, lua_next: a weak table may be read at any time.           *)
Load(o, p) ==
  /\ Running
  /\ OnStack(o)
  /\ p \in refs[o]
  /\ Push(p)
  /\ UNCHANGED <<heap, sort, color, phase, lists, tmudata, finalized,
                 unswept, full>>

Drop(o) ==
  /\ Running
  /\ OnStack(o)
  /\ refs' = [refs EXCEPT ![Main] = @ \ {o}]
  /\ UNCHANGED <<heap, sort, color, phase, lists, tmudata, finalized,
                 unswept, full>>

MutantBarrierBack(o, p) == UNCHANGED <<color, grayagain>>

(* luaC_barriert, luaC_barrierback: a black table goes back to gray.       *)
(* Outside of the propagate phase nobody reads grayagain before markroot   *)
(* resets it.                                                              *)
BarrierBack(o, p) ==
  IF IsWhite(p) /\ color[o] = "black"
    THEN /\ color' = [color EXCEPT ![o] = "gray"]
         /\ grayagain' = IF phase = "propagate" THEN grayagain \union {o}
                                                ELSE grayagain
    ELSE UNCHANGED <<color, grayagain>>

(* luaH_set: p replaces the value in a field of the table, or is added.    *)
Store(o, p) ==
  /\ Running
  /\ OnStack(o) /\ OnStack(p)
  /\ sort[o] \in {"table", "weak"}
  /\ \E R \in {refs[o]} \union {refs[o] \ {q} : q \in refs[o]} :
       /\ Cardinality(R \union {p}) <= Width
       /\ refs' = [refs EXCEPT ![o] = R \union {p}]
  /\ BarrierBack(o, p)
  /\ UNCHANGED <<heap, sort, phase, gray, weak, tmudata, finalized,
                 unswept, full>>

(* A field is set to nil.                                                  *)
Clear(o, p) ==
  /\ Running
  /\ OnStack(o)
  /\ p \in refs[o]
  /\ refs' = [refs EXCEPT ![o] = @ \ {p}]
  /\ UNCHANGED <<heap, sort, color, phase, lists, tmudata, finalized,
                 unswept, full>>

MutantBarrierForward(o, p) == UNCHANGED <<color, gray>>

(* luaC_objbarrier, luaC_barrierf: the table is marked, or the userdata    *)
(* turned white once marking is over.                                      *)
BarrierForward(o, p) ==
  IF IsWhite(p) /\ color[o] = "black"
    THEN IF phase = "propagate"
           THEN Mark({p}) /\ gray' = gray \union Listed({p})
           ELSE color' = [color EXCEPT ![o] = "white"] /\ UNCHANGED gray
    ELSE UNCHANGED <<color, gray>>

(* lua_setmetatable, lua_setfenv on a userdata.                            *)
StoreUdata(o, p) ==
  /\ Running
  /\ OnStack(o) /\ OnStack(p)
  /\ sort[o] = "udata"
  /\ sort[p] \in {"table", "weak"}
  /\ refs' = [refs EXCEPT ![o] = {p}]
  /\ BarrierForward(o, p)
  /\ UNCHANGED <<heap, sort, phase, grayagain, weak, tmudata,
                 finalized, unswept, full>>

(* setmetatable with or without a __mode that has a 'v'.                   *)
SetMode(o) ==
  /\ Running
  /\ OnStack(o)
  /\ sort[o] \in {"table", "weak"}
  /\ sort' = [sort EXCEPT ![o] = IF @ = "weak" THEN "table" ELSE "weak"]
  /\ UNCHANGED <<heap, refs, color, phase, lists, tmudata, finalized,
                 unswept, full>>

-----------------------------------------------------------------------------

(* markroot *)
MarkRoot ==
  /\ Mark({Main})
  /\ gray' = Listed({Main})
  /\ grayagain' = {} /\ weak' = {}
  /\ phase' = "propagate"

(* luaC_step starts a cycle; luaC_fullgc does when the sweep that was      *)
(* under way has ended.                                                    *)
StartCycle ==
  /\ \/ full = "no" /\ phase = "pause"
     \/ full = "sweep" /\ phase = "finalize"
  /\ MarkRoot
  /\ full' = IF full = "sweep" THEN "mark" ELSE full
  /\ UNCHANGED <<program, tmudata, finalized, unswept>>

(* propagatemark, on any gray object: a weak table stays gray, to be       *)
(* cleared; a thread stays gray, to be traversed again.                    *)
Propagate(o) ==
  /\ phase = "propagate"
  /\ o \in gray
  /\ LET strong == Strong(o) IN
       /\ color' = [p \in Objects |->
                      IF p \in Marked(strong)
                        THEN IF sort[p] = "udata" THEN "black" ELSE "gray"
                        ELSE IF p = o /\ sort[o] = "table" THEN "black"
                        ELSE color[p]]
       /\ gray' = (gray \ {o}) \union Listed(strong)
  /\ grayagain' = IF sort[o] = "thread" THEN grayagain \union {o}
                                        ELSE grayagain
  /\ weak' = IF sort[o] = "weak" THEN weak \union {o} ELSE weak
  /\ UNCHANGED <<program, phase, tmudata, finalized, unswept, full>>

(* propagateall: From and the white objects that are found from there.     *)
TraceClosed(R) == \A o \in R : \A p \in Strong(o) : IsWhite(p) => p \in R

Trace(From) ==
  {o \in Objects :
     \A R \in SUBSET Objects : From \subseteq R /\ TraceClosed(R) => o \in R}

(* luaC_separateudata: userdata left white and not finalized before.       *)
Dying(reached) ==
  {o \in heap \ (reached \union finalized) : sort[o] = "udata" /\ IsWhite(o)}

MutantIsCleared(p, kept, due) ==
  sort[p] # "string" /\ IsWhite(p) /\ p \notin kept /\ p \notin due

(* iscleared, for a value: strings are never cleared, and a userdata that  *)
(* is being or has been finalized always is.                               *)
IsCleared(p, kept, due) ==
  /\ sort[p] # "string"
  /\ (IsWhite(p) /\ p \notin kept) \/ (sort[p] = "udata" /\ p \in due)

MutantSwap(c) == c

(* The whites change places: g->currentwhite.                              *)
Swap(c) == CASE c = "white" -> "dead" [] c = "dead" -> "white" [] OTHER -> c

(* The last part of atomic: weak tables are cleared and their strings      *)
(* kept, the whites change places, and the sweep starts.                   *)
Flip(kept, due) ==
  LET tables == {w \in kept : sort[w] = "weak"}
      strings == {o \in UNION {refs[w] : w \in tables} : sort[o] = "string"}
  IN  /\ refs' = [w \in Objects |->
                    IF w \in tables
                      THEN {p \in refs[w] : ~ IsCleared(p, kept, due)}
                      ELSE refs[w]]
      /\ color' = [o \in Objects |->
                     IF o \in kept
                       THEN IF sort[o] \in {"table", "udata"} THEN "black"
                                                              ELSE "gray"
                       ELSE IF o \in strings THEN "gray" ELSE Swap(color[o])]
      /\ phase' = "sweepstring"

(* atomic: traverse again what a barrier or a weak table left gray, and    *)
(* the running thread; then what the finalizers that are due will need.    *)
(* The lists are not read again before markroot resets them.               *)
Atomic ==
  /\ phase = "propagate"
  /\ gray = {}
  /\ LET from == weak \union grayagain \union {Main}
         due == tmudata \union Dying(Trace(from))
     IN  /\ tmudata' = due
         /\ finalized' = finalized \union due
         /\ Flip(Trace(from \union due), finalized \union due)
         /\ unswept' = heap \ due
  /\ gray' = {} /\ grayagain' = {} /\ weak' = {}
  /\ UNCHANGED <<heap, sort, full>>

(* sweepstrstep and sweeplist, one object at a time: the dead are freed,   *)
(* the others are white again.                                             *)
Swept(o) ==
  /\ unswept' = unswept \ {o}
  /\ color' = [color EXCEPT ![o] = "white"]
  /\ IF IsDead(o)
       THEN /\ heap' = heap \ {o}
            /\ sort' = [sort EXCEPT ![o] = "table"]
            /\ refs' = [refs EXCEPT ![o] = {}]
            /\ finalized' = finalized \ {o}
       ELSE UNCHANGED <<program, finalized>>
  /\ UNCHANGED <<phase, lists, tmudata, full>>

Sweep(o) ==
  /\ o \in unswept
  /\ \/ phase = "sweepstring" /\ sort[o] = "string"
     \/ phase = "sweep" /\ sort[o] # "string"
  /\ Swept(o)

(* The end of a sweep phase.                                               *)
SweepEnd ==
  /\ \/ /\ phase = "sweepstring"
        /\ \A o \in unswept : sort[o] # "string"
        /\ phase' = "sweep"
     \/ /\ phase = "sweep"
        /\ unswept = {}
        /\ phase' = "finalize"
  /\ UNCHANGED <<program, color, lists, tmudata, finalized, unswept,
                 full>>

(* GCTM: the userdata goes back among the objects, white, and its __gc is  *)
(* called with it on the stack.  Then the program runs; an error in the    *)
(* finalizer, even one that it catches, lifts the block that keeps the     *)
(* collector out (luaD_throw): then collections may nest.                  *)
GCTM(o) ==
  /\ phase = "finalize"
  /\ full # "sweep"
  /\ o \in tmudata
  /\ tmudata' = tmudata \ {o}
  /\ color' = [color EXCEPT ![o] = "white"]
  /\ refs' = [refs EXCEPT ![Main] = @ \union {o}]
  /\ full' \in {full, "no"}
  /\ UNCHANGED <<heap, sort, phase, lists, finalized, unswept>>

MutantCycleEnd ==
  /\ phase = "finalize" /\ tmudata = {}
  /\ phase' = "pause"
  /\ UNCHANGED <<program, color, lists, tmudata, finalized, unswept, full>>

CycleEnd ==
  /\ phase = "finalize"
  /\ full # "sweep"
  /\ tmudata = {}
  /\ phase' = "pause"
  /\ full' = "no"
  /\ UNCHANGED <<program, color, lists, tmudata, finalized, unswept>>

(* luaC_fullgc drops the marks of an unfinished cycle by a sweep that      *)
(* frees nothing, since the whites do not change places, or ends the sweep *)
(* it finds; then it runs a cycle.                                         *)
FullGC ==
  /\ full = "no"
  /\ IF phase \in {"pause", "propagate"}
       THEN /\ phase' = "sweepstring"
            /\ unswept' = heap
            /\ gray' = {} /\ grayagain' = {} /\ weak' = {}
       ELSE UNCHANGED <<phase, unswept, lists>>
  /\ full' = "sweep"
  /\ UNCHANGED <<program, color, tmudata, finalized>>

-----------------------------------------------------------------------------

Step ==
  \/ StartCycle
  \/ \E o \in Objects : Propagate(o) \/ Sweep(o) \/ GCTM(o)
  \/ Atomic
  \/ SweepEnd
  \/ CycleEnd

Mutator ==
  \E o \in Objects :
    \/ \E s \in Sorts \ {"thread"} : New(o, s)
    \/ Intern(o)
    \/ Drop(o)
    \/ SetMode(o)
    \/ \E p \in Objects :
         Load(o, p) \/ Store(o, p) \/ Clear(o, p) \/ StoreUdata(o, p)

Next == Mutator \/ Step \/ FullGC

(* A program that goes on allocating keeps the collector going, and        *)
(* tmudata is served first come, first served.                             *)
Spec ==
  /\ Init /\ [][Next]_vars
  /\ WF_vars(Step)
  /\ \A o \in Objects : SF_vars(GCTM(o))

-----------------------------------------------------------------------------

(* The lists of the collector hold objects in use, and a full collection   *)
(* that is under way is where its phase says.                              *)
TypeOK ==
  /\ heap \subseteq Objects /\ Main \in heap
  /\ sort \in [Objects -> Sorts]
  /\ \A o \in Objects : sort[o] = "thread" <=> o = Main
  /\ refs \in [Objects -> SUBSET Objects]
  /\ color \in [Objects -> Whites \union {"gray", "black"}]
  /\ phase \in {"pause", "propagate", "sweepstring", "sweep", "finalize"}
  /\ gray \subseteq heap /\ grayagain \subseteq heap /\ weak \subseteq heap
  /\ tmudata \subseteq finalized /\ finalized \subseteq heap
  /\ unswept \subseteq heap
  /\ full \in {"no", "sweep", "mark"}
  /\ phase = "pause" => full = "no"
  /\ phase = "propagate" => full # "sweep"

HeapSpec == INSTANCE Heap WITH condemned <- tmudata

(* Whatever the program can reach from its stack, through strong tables,   *)
(* weak tables and userdata, is memory that has not been freed.            *)
NoDangling == HeapSpec!Reachable \subseteq heap

(* While the collector marks, no object it is done with holds one it has   *)
(* not seen: the barriers of lgc.h catch every store that would hide one.  *)
(* Userdata left in tmudata by a cycle that luaC_fullgc cut short may,     *)
(* until atomic marks them again.                                          *)
Tricolour ==
  phase = "propagate" =>
    \A o \in heap \ tmudata :
      color[o] = "black" => \A p \in refs[o] : ~ IsWhite(p)

(* The collector is one the program cannot tell from the promise in Heap:  *)
(* nothing reachable changes or goes, a finalizer is called once, before   *)
(* its userdata is freed, and weak tables lose only what is lost.          *)
IsHeap == HeapSpec!Spec

Garbage(o) == o \in heap \ HeapSpec!Reachable

(* What the program can no longer reach is freed, unless it is found again *)
(* by a finalizer or in the string table.                                  *)
Collected == \A o \in Objects \ {Main} : Garbage(o) ~> ~ Garbage(o)
=============================================================================
