----------------------------- MODULE MCBindings -----------------------------
(* Bindings with two of everything that can be confused with another.       *)
EXTENDS Bindings

MCDevices == {<<0, 1, 1>>, <<1, 0, 0>>, <<1, 0, 1>>, <<1, 1, 0>>}
MCDS18B20 == {d \in MCDevices : d[1] = 1}
=============================================================================
