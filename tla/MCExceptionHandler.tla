------------------------- MODULE MCExceptionHandler -------------------------
(* Instances of ExceptionHandler for TLC: the threads, the depth of the    *)
(* catch stacks and the sentinel are model values of the configurations.   *)
EXTENDS ExceptionHandler

=============================================================================
