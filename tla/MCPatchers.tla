----------------------------- MODULE MCPatchers -----------------------------
(* Four words in lines of two, and every instruction the encoders know.    *)
EXTENDS Patchers

Requests == {
  <<"adr", X(2), 105>>, <<"adr", X(2), -7>>, <<"adrp", X(1), 4096 * 777>>, <<"adrp", X(1), -12288>>,
  <<"add", X(0), X(1), 12>>, <<"add", X(4), X(5), 4096>>, <<"adds", W(6), W(7), 4096 * 87>>,
  <<"sub", X(0), SP, 4095>>, <<"subs", X(3), X(4), 0>>,
  <<"cmn", X(0), 45>>, <<"cmp", W(1), 4096 * 4>>,
  <<"movk", X(1), 65535>>, <<"movn", W(1), 5>>, <<"movz", X(9), 40000>>,
  <<"nop">>, <<"br", X(17)>>, <<"ret", X(30)>>,
  <<"ldr_register", X(0), X(1), X(2), "LSL", 0>>, <<"ldr_register", W(0), X(1), X(2), "SXTX", 2>>,
  <<"str_register", X(0), X(1), W(2), "UXTW", 3>>, <<"str_register", W(0), X(1), W(2), "SXTW", 0>>,
  <<"ldur", X(0), X(1), -256>>, <<"stur", W(0), X(1), 255>>,
  <<"ldr", X(30), SP, 4095>>, <<"str", W(26), X(27), 69>>,
  <<"orr", X(3), X(4), X(5), "ASR", 8>>, <<"orr", W(3), W(4), W(5), "ROR", 31>>,
  <<"orr", X(6), X(7), X(8), "LSR", 63>>, <<"mov", X(4), X(5)>>, <<"mov", W(4), W(5)>> }

(* One instruction per run, or branches within and out of what is written. *)
MCPalettes == {{i} : i \in Requests} \cup {{<<"b", 0>>, <<"bl", 33554431>>}, {<<"bl", -33554429>>}}
MCData     == {{200}}
MCAssembly == << {300}, {301} >>

(* The theorems' hypotheses hold of these requests.                        *)
ASSUME MCHypotheses == EncodersAreRight /\ AssemblyIsNew
=============================================================================
