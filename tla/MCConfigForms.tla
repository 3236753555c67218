--------------------------- MODULE MCConfigForms ---------------------------
(* Zero and one other value of each argument; width 48 is not offered.     *)
EXTENDS ConfigForms
MCHash == {"fnv", "wyhash"}
=============================================================================
