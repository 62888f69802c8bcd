-------------------------------- MODULE Once --------------------------------
(* Evaluation of an intermediate result, once, before it is used. *)

\* f(v).
With(v, f(_)) == CHOOSE y \in {f(x) : x \in {CHOOSE w \in {v} : w = w}} : y = y
=============================================================================
