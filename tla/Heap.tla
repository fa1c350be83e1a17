-------------------------------- MODULE Heap --------------------------------
(***************************************************************************)
(* What the collector of Lua/lua/lgc.c promises the program: whatever the  *)
(* program can reach stays, a userdata with a __gc method is handed to it  *)
(* once after it became unreachable and is freed later, an entry of a weak *)
(* table disappears only with its value, and nothing else changes.  The    *)
(* rest of the memory may be taken back at any time, a part of it or all.  *)
(***************************************************************************)
EXTENDS FiniteSets

CONSTANTS
  Objects,      \* addresses
  Main          \* the object that holds the stack of the program

VARIABLES
  heap,         \* the addresses in use
  sort,         \* what lives at each address
  refs,         \* the references each object holds
  condemned,    \* userdata whose finalizer is due
  finalized     \* userdata whose finalizer is due or has been called

vars == <<heap, sort, refs, condemned, finalized>>

Sorts == {"table", "weak", "udata", "string", "thread"}

Init ==
  /\ heap = {Main}
  /\ sort = [o \in Objects |-> IF o = Main THEN "thread" ELSE "table"]
  /\ refs = [o \in Objects |-> {}]
  /\ condemned = {}
  /\ finalized = {}

(* The objects of the least set that contains Roots and all their          *)
(* references, strong ones only or any.                                    *)
Least(Roots, Refs(_)) ==
  {o \in Objects :
     \A R \in SUBSET Objects :
       (Roots \subseteq R /\ \A p \in R : Refs(p) \subseteq R) => o \in R}

Strong(o) == IF sort[o] = "weak" THEN {} ELSE refs[o]
Any(o) == refs[o]
Undoomed(o) == IF o \in condemned THEN {} ELSE Strong(o)

(* What the program can get at, through weak tables too, now or when the   *)
(* finalizers that are due have been called.                               *)
Reachable == Least({Main}, Any)
Accessible == Least({Main} \union condemned, Any)

(* What it keeps, when these finalizers will be given their userdata; and  *)
(* what is kept by something else than userdata whose finalizer is due.    *)
Kept(due) == Least({Main} \union due, Strong)
Safe == Least({Main}, Undoomed)

-----------------------------------------------------------------------------

(* The program: it allocates, reads, writes and forgets references, makes  *)
(* a table weak or strong, and finds a string it interned before.          *)
Allocate(o) ==
  /\ o \in Objects \ heap
  /\ heap' = heap \union {o}
  /\ \E s \in Sorts \ {"thread"} : sort' = [sort EXCEPT ![o] = s]
  /\ refs' = [refs EXCEPT ![Main] = @ \union {o}]
  /\ UNCHANGED <<condemned, finalized>>

(* An object takes references to what the program holds, or loses some.    *)
Write(o) ==
  /\ UNCHANGED <<heap, sort, condemned, finalized>>
  /\ o \in refs[Main]
  /\ \E R \in SUBSET (refs[o] \union refs[Main]) : refs' = [refs EXCEPT ![o] = R]

Stack ==
  /\ UNCHANGED <<heap, sort, condemned, finalized>>
  /\ \E R \in SUBSET Reachable : refs' = [refs EXCEPT ![Main] = R]

Mode(o) ==
  /\ o \in refs[Main]
  /\ sort[o] \in {"table", "weak"}
  /\ \E s \in {"table", "weak"} : sort' = [sort EXCEPT ![o] = s]
  /\ UNCHANGED <<heap, refs, condemned, finalized>>

Intern(o) ==
  /\ o \in heap
  /\ sort[o] = "string"
  /\ refs' = [refs EXCEPT ![Main] = @ \union {o}]
  /\ UNCHANGED <<heap, sort, condemned, finalized>>

(* The collector: finds userdata to finalize, and clears the entries of    *)
(* weak tables whose values nothing keeps: those of what is to be          *)
(* finalized go before the finalizer is called.  A userdata that is only   *)
(* reachable through others that are due may become due as well.           *)
Condemn ==
  /\ UNCHANGED <<heap, sort>>
  /\ \E due \in SUBSET {o \in heap \ Safe :
                          sort[o] = "udata" /\ o \notin finalized} :
       /\ condemned' = condemned \union due
       /\ finalized' = finalized \union due
       /\ \A w \in Kept(condemned') : sort[w] = "weak" => refs'[w] \cap due = {}
  /\ refs' \in [Objects -> SUBSET Objects]
  /\ \A w \in Objects :
       /\ refs'[w] \subseteq refs[w]
       /\ \A o \in refs[w] \ refs'[w] :
            /\ sort[w] = "weak"
            /\ sort[o] # "string"
            /\ o \in Kept(condemned') => sort[o] = "udata" /\ o \in finalized'

Finalize(o) ==
  /\ o \in condemned
  /\ condemned' = condemned \ {o}
  /\ refs' = [refs EXCEPT ![Main] = @ \union {o}]
  /\ UNCHANGED <<heap, sort, finalized>>

(* Nobody can reach o, and its finalizer, if it has one, has been called.  *)
Free(o) ==
  /\ o \in heap
  /\ heap' = heap \ {o}
  /\ o \notin Accessible
  /\ sort[o] = "udata" => o \in finalized
  /\ refs' = [refs EXCEPT ![o] = {}]
  /\ finalized' = finalized \ {o}
  /\ sort' = [sort EXCEPT ![o] = "table"]
  /\ UNCHANGED condemned

Next ==
  \/ \E o \in Objects :
       \/ Allocate(o) \/ Write(o) \/ Mode(o) \/ Intern(o)
       \/ Finalize(o) \/ Free(o)
  \/ Stack
  \/ Condemn

Spec == Init /\ [][Next]_vars
=============================================================================
