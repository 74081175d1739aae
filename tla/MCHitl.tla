-------------------------------- MODULE MCHitl --------------------------------
(* Symmetry of the small instances of Hitl. *)
EXTENDS Hitl, TLC

\* Tickets are opened at the first two instants: bounds the number of states.
OpenedEarly == \A t \in Ticket : expires[t] <= TTL + Step

Symmetry == Permutations(Ticket) \cup Permutations(Session)
===============================================================================
