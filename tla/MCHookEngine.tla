---------------------------- MODULE MCHookEngine ----------------------------
(* The hook engine on a list of twelve hooks.                              *)
EXTENDS HookEngine

CONSTANTS near, far, odd, inlined, other, last

Hooked(f, kind) == [fn |-> f, kind |-> kind]

(* What exl_main installs: functions out of a branch's reach hooked again, *)
(* replaced in between, and one hook each of the other functions; then,    *)
(* while the game runs, hooks of functions within reach, for the last of   *)
(* which the pool of entries has no room.                                  *)
MCBootJobs == 7
MCJobs ==
  << Hooked(far, "trampoline"), Hooked(odd, "trampoline"), Hooked(far, "replace"),
     Hooked(odd, "trampoline"), Hooked(far, "trampoline"), Hooked(inlined, "inline"),
     Hooked(near, "trampoline"),
     Hooked(near, "trampoline"), Hooked(other, "inline"), Hooked(near, "replace"),
     Hooked(inlined, "trampoline"), Hooked(last, "inline") >>

(* Fewer, for what the comments of the code promise.                       *)
InlineOnce  == << Hooked(inlined, "inline") >>
Trampolines == << Hooked(near, "trampoline"), Hooked(near, "trampoline"), Hooked(odd, "trampoline") >>

(* What the theorems assume of a list of hooks holds of these.             *)
ASSUME MCHypotheses == FarAtBoot /\ InlineFirst
=============================================================================
