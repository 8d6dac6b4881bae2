--------------------------- MODULE MCTokenExpiry ---------------------------
(* TokenExpiry over four seconds of real time, with a lifetime that runs  *)
(* out within them, one that does not, and a zero lifetime.  Each cfg     *)
(* says whether the wall clock may be set back.                          *)
EXTENDS TokenExpiry

MCMaxTime == 3
MCLifetimes == {0, 2, 5}
=============================================================================
