--------------------------- MODULE MCPowerManager ---------------------------
(* One domain of each kind beside the core. *)
EXTENDS PowerManager
MCKind == [d \in {"periph", "ram", "external"} |-> d]
=============================================================================
