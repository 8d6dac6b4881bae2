------------------------------- MODULE MCPkce -------------------------------
(* from_str is given strings of up to 130 bytes: shorter than 43, within   *)
(* 43..128 and longer than 128 are all reached.                           *)
EXTENDS Pkce

MCMaxParsed == 130

=============================================================================
