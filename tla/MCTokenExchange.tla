-------------------------- MODULE MCTokenExchange --------------------------
(* TokenExchange on a small instance: a request and a response of two     *)
(* chunks each, so that partial writes and reads happen; a 200, a 204, a  *)
(* 302 and a 400 status; two error codes.                                 *)
EXTENDS TokenExchange

CONSTANTS InvalidGrant, InvalidClient, NoErrorValue

MCReqChunks == 2
MCRespChunks == 2
MCStatuses == {200, 204, 302, 400}
MCErrorCodes == {InvalidGrant, InvalidClient}
=============================================================================
