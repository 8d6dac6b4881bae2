-------------------------- MODULE MCParamsEncoding --------------------------
(* Scope tokens over the characters a, b and the space.  The tokens the   *)
(* example builds, by split_whitespace of what the user typed, are the   *)
(* non-empty space-free texts of up to two characters; a library caller  *)
(* may also put a token holding a space in the HashSet.  Scope sets of up *)
(* to two tokens meet both iteration orders.                              *)
EXTENDS ParamsEncoding

CONSTANTS SP, NoneValue

MCChars == {"a", "b"}

MCWordTokens == TextsUpTo(MCChars, 2) \ {<<>>}

MCAnyTokens == MCWordTokens \cup {<<"a", SP, "b">>}
=============================================================================
