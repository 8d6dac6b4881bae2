---------------------------- MODULE AuthCodeFlow ----------------------------
(***************************************************************************)
(* The example program (examples/authorization-code-grant.rs) end to end: *)
(* it reads the scope the user types, builds AuthorizationRequestParams   *)
(* with split_whitespace() of it and a fresh State, puts the encoded query *)
(* on the authorization URI, reads back the redirected URI, parses        *)
(* AuthorizationResponseParams from it, panics when the states differ,    *)
(* and exchanges the code with SendAccessTokenRequest (TokenExchange).    *)
(*                                                                         *)
(* The redirected URI is what the user pastes: the authorization server's *)
(* answer, which carries the code it issued and the state it read in the  *)
(* query, or a forged one carrying an attacker's code and a state that is *)
(* not the fresh one (State::new() is random), or none.                   *)
(* AuthorizationResponseParams::from_url is not in the repository: its    *)
(* contract (the code and the state of the query, or an error) is taken   *)
(* from section 4.4 of the specification.                                 *)
(***************************************************************************)
EXTENDS FormUrlEncoded

CONSTANTS
    ReqChunks, RespChunks, Statuses, ErrorCodes, NoError,  \* of TokenExchange
    Chars,         \* the characters the user may type, besides the space
    MaxLine,       \* the longest scope line the user types
    States,        \* the values State::new() may return
    IssuedCode,    \* the code the authorization server issues
    InjectedCode,  \* a code an attacker obtained for its own account
    ClientId,      \* CLIENT_ID
    RedirectUri    \* REDIRECT_URI

ASSUME FlowAssumption ==
    /\ MaxLine \in Nat
    /\ IssuedCode # InjectedCode
    /\ None \notin States
    /\ None \notin {ClientId, RedirectUri, IssuedCode, InjectedCode}

VARIABLES
    phase,         \* where main is
    requestParams, \* the AuthorizationRequestParams built in step 1
    query,         \* the query put on the authorization URI
    callback,      \* the AuthorizationResponseParams parsed in step 2
    tokenBody,     \* the body of the access token request of step 3
    caller, send, io, arg, wire, response, result  \* TokenExchange

flowVars == <<phase, requestParams, query, callback, tokenBody>>
teVars == <<caller, send, io, arg, wire, response, result>>
vars == <<flowVars, teVars>>

TE == INSTANCE TokenExchange

\* The lines the user may type at the "Scope?" prompt.
Lines == TextsUpTo(Chars \cup {Space}, MaxLine)

NoCallback == [code |-> None, state |-> None]

\* The phases where main has panicked.
Panicked == {"connect_error", "malformed_callback", "states_mismatch"}

Init ==
    /\ phase = "start"
    /\ requestParams = None
    /\ query = <<>>
    /\ callback = NoCallback
    /\ tokenBody = <<>>
    /\ TE!Init

\* connect(&token_uri), then step 1: the request parameters, with the
\* scope split_whitespace() of the typed line and a fresh State, encoded
\* with to_form_url_encoded_string() into the authorization URI's query.
\* connect() unwraps the TCP connection and panics when it fails.
Authorize ==
    /\ phase = "start"
    /\ \/ /\ phase' = "connect_error"
          /\ UNCHANGED <<requestParams, query>>
       \/ \E line \in Lines, s \in States :
            LET p == [client_id |-> ClientId, redirect_uri |-> RedirectUri,
                      scope |-> SplitWhitespace(line), state |-> s,
                      pkce |-> None]
            IN  /\ requestParams' = p
                /\ \E order \in Orders(p.scope) :
                     query' = AuthorizationRequestQuery(p, order)
                /\ phase' = "authorized"
    /\ UNCHANGED <<callback, tokenBody>>
    /\ UNCHANGED teVars

\* The redirects the user may paste: the server's, with its code and the
\* state of the query, or a forged one.
Redirects ==
    {[code |-> IssuedCode, state |-> Value(query, "state")]}
    \cup [code : {InjectedCode},
          state : (States \ {requestParams.state}) \cup {None}]

\* Step 2: read_line("Redirected URI?"), then
\* AuthorizationResponseParams::from_url(..).unwrap().
Callback ==
    /\ phase = "authorized"
    /\ \/ /\ phase' = "malformed_callback"
          /\ UNCHANGED callback
       \/ \E r \in Redirects :
            /\ callback' = r
            /\ phase' = "redirected"
    /\ UNCHANGED <<requestParams, query, tokenBody>>
    /\ UNCHANGED teVars

\* Mutant: the states are not compared.
CheckStateSkipped ==
    /\ phase = "redirected"
    /\ phase' = "checked"
    /\ UNCHANGED <<requestParams, query, callback, tokenBody>>
    /\ UNCHANGED teVars

\* `if request_params.state != response_params.state { panic!(..) }`.
CheckState ==
    /\ phase = "redirected"
    /\ phase' = IF requestParams.state # callback.state
                  THEN "states_mismatch" ELSE "checked"
    /\ UNCHANGED <<requestParams, query, callback, tokenBody>>
    /\ UNCHANGED teVars

\* Mutant: the token request leaves out the redirect URI.
ExchangeCodeWithoutRedirectUri ==
    /\ phase = "checked"
    /\ tokenBody' = AccessTokenRequestBody(
                       [code |-> callback.code, redirect_uri |-> None,
                        client_id |-> ClientId, verifier |-> None])
    /\ phase' = "token"
    /\ TE!New
    /\ UNCHANGED <<requestParams, query, callback>>

\* Step 3: AccessTokenRequestParams with the code of the response, the
\* same redirect URI and client, no PKCE verifier, then
\* SendAccessTokenRequest::new(request, params).unwrap().
ExchangeCode ==
    /\ phase = "checked"
    /\ tokenBody' = AccessTokenRequestBody(
                       [code |-> callback.code, redirect_uri |-> RedirectUri,
                        client_id |-> ClientId, verifier |-> None])
    /\ phase' = "token"
    /\ TE!New
    /\ UNCHANGED <<requestParams, query, callback>>

\* The token loop and step 4, as TokenExchange models them.
TokenStep ==
    /\ phase = "token"
    /\ \/ TE!Resume
       \/ TE!Handle
       \/ TE!TransportFail
       \/ TE!Serve
       \/ TE!Terminated
    /\ UNCHANGED flowVars

\* main has panicked.
Stopped ==
    /\ phase \in Panicked
    /\ UNCHANGED vars

Next ==
    \/ Authorize
    \/ Callback
    \/ CheckState
    \/ ExchangeCode
    \/ TokenStep
    \/ Stopped

Spec == Init /\ [][Next]_vars

-----------------------------------------------------------------------------
(* Properties.                                                             *)

\* RFC 6749, sections 4.1.3 and 10.12, and section 4.1 of the
\* specification: the example sends a code to the token endpoint only when
\* it is the code the authorization server issued for this very request
\* (never one an attacker slipped into the redirect), and with the client
\* and the redirect URI the authorization request carried.
ExchangeBoundToAuthorization ==
    phase = "token" =>
        /\ Value(tokenBody, "code") = IssuedCode
        /\ Value(tokenBody, "client_id") = Value(query, "client_id")
        /\ Value(tokenBody, "redirect_uri") = Value(query, "redirect_uri")


-----------------------------------------------------------------------------
(* Refinement of the authorization code grant (AuthorizationGrant).       *)

\* The stage of the grant each point of main is at.
GrantStage ==
    [start |-> "start", connect_error |-> "failed",
     authorized |-> "requested", malformed_callback |-> "failed",
     redirected |-> "called_back", states_mismatch |-> "rejected",
     checked |-> "verified", token |-> "exchanging"][phase]

\* What the encoded authorization query carries, as the server reads it.
SentRequest ==
    [client |-> Value(query, "client_id"),
     redirect |-> Value(query, "redirect_uri"),
     state |-> Value(query, "state")]

\* What the encoded token request body carries, as the server reads it.
SentExchange ==
    [code |-> Value(tokenBody, "code"),
     client |-> Value(tokenBody, "client_id"),
     redirect |-> Value(tokenBody, "redirect_uri")]

Grant == INSTANCE AuthorizationGrant
             WITH Codes <- {IssuedCode, InjectedCode}, stage <- GrantStage,
                  request <- SentRequest, exchange <- SentExchange

\* The example is a client of the authorization code grant as sections 2,
\* 4.1 and 4.4 of the specification describe it: what its encoded query
\* and token body carry, read back as a server reads them, follow the
\* grant.  The state it sends is the one it compares, it sends a token
\* request only after a match, and that request carries the callback's
\* code with the client and the redirect URI of the query.
ImplementsGrant == Grant!Spec

=============================================================================
