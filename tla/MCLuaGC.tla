------------------------------ MODULE MCLuaGC ------------------------------
(* LuaGC on a few addresses.                                                *)
EXTENDS LuaGC
=============================================================================
