---------------------------- MODULE MCLuaGCFinal ----------------------------
(***************************************************************************)
(* LuaGC with one table and userdata only, and a program that runs between *)
(* the cycles and in the finalizers: one that calls collectgarbage in the  *)
(* middle of them.                                                         *)
(***************************************************************************)
EXTENDS LuaGC

CONSTANT Table      \* the object that is a table, not Main

Program ==
  /\ phase \in {"pause", "finalize"}
  /\ \E o \in Objects :
       \/ New(o, IF o = Table THEN "table" ELSE "udata")
       \/ Drop(o)
       \/ \E p \in Objects : Load(o, p) \/ Store(o, p) \/ StoreUdata(o, p)

FinalSpec == Init /\ [][Program \/ Step \/ FullGC]_vars /\ WF_vars(Step)

(* lgc.c says of luaC_separateudata that it moves `dead' udata that need   *)
(* finalization to the list tmudata: none that the program still reaches.  *)
OnlyDeadAreFinalized ==
  [][\A o \in tmudata' \ tmudata :
       o \notin HeapSpec!Least({Main}, HeapSpec!Strong)]_vars
=============================================================================
