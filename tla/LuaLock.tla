------------------------------- MODULE LuaLock -------------------------------
(***************************************************************************)
(* What the engine promises about lua_State: it is a resource that one    *)
(* thread at a time uses.  The scheduler thread and every host thread that *)
(* calls the API take it and give it back; nobody takes it from a thread   *)
(* that still has it.  LuaAccess shows that the pause handshake of         *)
(* KitsuneEngine.cpp implements this.                                      *)
(***************************************************************************)
CONSTANTS
  Threads,  (* the scheduler thread and the host threads *)
  Nobody    (* the value of holder while no thread uses the Lua state *)

VARIABLE holder

LockInit == holder = Nobody

Take(t) == holder = Nobody /\ holder' = t

Give(t) == holder = t /\ holder' = Nobody

LockNext == \E t \in Threads : Take(t) \/ Give(t)

LockSpec == LockInit /\ [][LockNext]_holder

==============================================================================
