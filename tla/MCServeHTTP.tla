----------------------------- MODULE MCServeHTTP ----------------------------
(* Instances of ServeHTTP for TLC: two concurrent requests, which are        *)
(* interchangeable, with limits below and at the records a handler produces. *)
EXTENDS ServeHTTP, TLC

MCAskedOne == {1, Unasked}
MCUnasked == {Unasked}
RequestSymmetry == Permutations(Calls)
=============================================================================
