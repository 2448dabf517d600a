----------------------------- MODULE MCTypedefs ------------------------------
(* Two names that differ in a digit only, and one of its own. *)
EXTENDS Typedefs

MCNames   == {"vec2", "vec3", "mat"}
MCLetters == [name \in MCNames |-> IF name = "mat" THEN "mat" ELSE "vec"]
==============================================================================
