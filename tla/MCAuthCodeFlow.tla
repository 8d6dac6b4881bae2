--------------------------- MODULE MCAuthCodeFlow ---------------------------
(* The example end to end on a small instance: scope lines of up to three *)
(* characters over a, b and the space (so that empty lines, one and two  *)
(* words, and runs of spaces occur), two values State::new() may return, *)
(* and a token exchange of one chunk each way answered by a 200 or a 400.*)
EXTENDS AuthCodeFlow

CONSTANTS SP, NoneValue, InvalidGrant, NoErrorValue

MCStatuses == {200, 400}
MCErrorCodes == {InvalidGrant}
MCChars == {"a", "b"}
=============================================================================
