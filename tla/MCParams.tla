------------------------------- MODULE MCParams -------------------------------
(***************************************************************************)
(* Params with a process that writes, now and later, as loggerd, and one   *)
(* that writes, removes, clears and reads everything, as the manager.      *)
(***************************************************************************)
EXTENDS Params

MCProcs == {"loggerd", "manager"}
MCUses == [p \in MCProcs |->
  IF p = "loggerd" THEN {"put", "putNonBlocking"} ELSE {"put", "remove", "clear", "read"}]
=============================================================================
