-------------------------------- MODULE Null --------------------------------
(***************************************************************************)
(* The pointer to nothing: NULL of C and nil of Lua.                       *)
(***************************************************************************)
CONSTANT NULL
=============================================================================
