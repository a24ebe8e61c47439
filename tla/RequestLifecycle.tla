--------------------------- MODULE RequestLifecycle ---------------------------
(***************************************************************************)
(* What Reader-Core promises about one use of a request id: once accepted  *)
(* it is answered with one result (or error), or it is CANCELLED, or, for a*)
(* host.complete or host.error command, it is delivered in silence. None of*)
(* these is ever followed by another.                                      *)
(***************************************************************************)
CONSTANT RequestIds
VARIABLE phase

Phases == {"new", "live", "answered", "cancelled", "delivered"}

Init == phase = [r \in RequestIds |-> "new"]

Move(r, from, to) ==
  /\ phase[r] = from
  /\ phase' = [phase EXCEPT ![r] = to]

Accept(r)  == Move(r, "new", "live")
Refuse(r)  == Move(r, "live", "new")
Answer(r)  == Move(r, "live", "answered")
Cancel(r)  == Move(r, "live", "cancelled")
Deliver(r) == Move(r, "live", "delivered")

Next == \E r \in RequestIds :
  Accept(r) \/ Refuse(r) \/ Answer(r) \/ Cancel(r) \/ Deliver(r)

Spec == Init /\ [][Next]_phase
=============================================================================
