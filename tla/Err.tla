--------------------------------- MODULE Err ---------------------------------
(* Members of err_t, kernel/include/misc/err.h, negated as they are returned. *)
EXTENDS Integers

SUCCESS == 0
UNIMPLEMENTED == -2
NAME_LIMIT == -3
FILE_NOT_FOUND == -4
OUT_OF_BOUNDS == -5
OUT_OF_MEMORY == -6
=============================================================================
