----------------------------- MODULE MCLuaAccess -----------------------------
(* LuaAccess for TLC: the threads as model values. *)
EXTENDS LuaAccess

CONSTANTS h1, h2

TwoCallers == {h1, h2}
==============================================================================
