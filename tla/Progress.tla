------------------------------ MODULE Progress -------------------------------
(***************************************************************************)
(* Getting on.  What a conversation still has before it is a tuple of      *)
(* numbers, the weightiest first: rounds, requests, attempts, phases.  A   *)
(* step that takes it nearer its end makes one of them less and leaves     *)
(* those before it as they are; those behind it may begin anew, as the     *)
(* attempts of the next request do.                                        *)
(***************************************************************************)
EXTENDS Naturals

\* The tuple `now` is nearer the end than `before`.
Nearer(now, before) ==
  \E k \in DOMAIN now : now[k] < before[k] /\ \A i \in 1 .. k - 1 : now[i] = before[i]
=============================================================================
