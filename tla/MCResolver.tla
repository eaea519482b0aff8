----------------------------- MODULE MCResolver -----------------------------
(* Schedules of retries for model checking the resolver.                   *)
EXTENDS Resolver

(* Three attempts, each after a longer delay, as with resolver.delays.     *)
ThreeDelays == <<1, 2, 3>>

(* Two attempts: the shortest schedule with a first, a last and a longer   *)
(* delay.                                                                  *)
TwoDelays == <<1, 2>>
=============================================================================
