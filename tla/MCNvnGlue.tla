------------------------------ MODULE MCNvnGlue ------------------------------
(* Two threads that initialise command buffers, one of which presents.     *)
EXTENDS NvnGlue
=============================================================================
