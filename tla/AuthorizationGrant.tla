------------------------- MODULE AuthorizationGrant -------------------------
(***************************************************************************)
(* What a client of the authorization code grant promises (specification, *)
(* sections 2, 4.1 and 4.4; RFC 6749, sections 4.1 and 10.12).  It sends   *)
(* an authorization request carrying its client, its redirect URI and a    *)
(* fresh anti-CSRF state.  It then parses a callback, which may carry any  *)
(* code and any state or none, and compares the returned state with the    *)
(* issued one.  A mismatch, a missing state included, ends the flow.  Only *)
(* after a match does it send a token request.  That request carries the   *)
(* code of the callback, and the client and the redirect URI of the        *)
(* authorization request.  Connecting and parsing may fail and end the     *)
(* flow.  The token exchange itself is ExchangeProtocol.                   *)
(***************************************************************************)
CONSTANTS
    States,       \* the anti-CSRF states the client may issue
    Codes,        \* the codes a callback may carry
    ClientId,     \* the client's identifier
    RedirectUri,  \* the client's redirect URI
    None          \* an absent value

VARIABLES
    stage,     \* "start", "requested", "called_back", "verified",
               \* "exchanging", or the end of a failed flow
    request,   \* what the authorization request carries
    callback,  \* the code and the state the callback carries
    exchange   \* what the token request carries

grantVars == <<stage, request, callback, exchange>>

NoRequest == [client |-> None, redirect |-> None, state |-> None]

NoCallback == [code |-> None, state |-> None]

NoExchange == [code |-> None, client |-> None, redirect |-> None]

Init ==
    /\ stage = "start"
    /\ request = NoRequest
    /\ callback = NoCallback
    /\ exchange = NoExchange

\* The authorization request, with a fresh state.
Request ==
    /\ stage = "start"
    /\ \E s \in States :
         request' = [client |-> ClientId, redirect |-> RedirectUri, state |-> s]
    /\ stage' = "requested"
    /\ UNCHANGED <<callback, exchange>>

\* Connecting fails before the request, or the callback is malformed.
Fail ==
    /\ stage \in {"start", "requested"}
    /\ stage' = "failed"
    /\ UNCHANGED <<request, callback, exchange>>

\* The callback arrives, with whatever code and state it carries.
Redirect ==
    /\ stage = "requested"
    /\ \E c \in Codes, s \in States \cup {None} :
         callback' = [code |-> c, state |-> s]
    /\ stage' = "called_back"
    /\ UNCHANGED <<request, exchange>>

\* Section 4.1: the returned state must equal the issued one.
Verify ==
    /\ stage = "called_back"
    /\ stage' = IF callback.state = request.state THEN "verified" ELSE "rejected"
    /\ UNCHANGED <<request, callback, exchange>>

\* The token request, bound to the callback and to the authorization
\* request.
Exchange ==
    /\ stage = "verified"
    /\ exchange' = [code |-> callback.code, client |-> request.client,
                    redirect |-> request.redirect]
    /\ stage' = "exchanging"
    /\ UNCHANGED <<request, callback>>

Next == Request \/ Fail \/ Redirect \/ Verify \/ Exchange

Spec == Init /\ [][Next]_grantVars

=============================================================================
