------------------------- MODULE MCMaintenanceGate ---------------------------
(* A small instance of MaintenanceGate for TLC. *)
EXTENDS MaintenanceGate, TLC

\* Requests are interchangeable, and so are operations; used by runs that
\* check no liveness.
Symmetry == Permutations(Request) \cup Permutations(Operation)
=============================================================================
