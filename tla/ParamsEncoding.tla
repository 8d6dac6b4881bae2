--------------------------- MODULE ParamsEncoding ---------------------------
(***************************************************************************)
(* A caller encodes parameters of each of the three kinds, built from     *)
(* small sets of values, and a server reads the query or body back.  The  *)
(* scope HashSet is iterated in any order.                                 *)
(***************************************************************************)
EXTENDS FormUrlEncoded

CONSTANTS
    ClientIds,      \* client_id values
    RedirectUris,   \* redirect_uri values
    States,         \* State values (their exposed bytes)
    Codes,          \* authorization codes
    Verifiers,      \* PKCE code verifiers (their exposed bytes)
    RefreshTokens,  \* refresh tokens
    ScopeTokens,    \* the texts a caller may put in a scope set
    MaxScopes       \* the largest scope set a caller builds

ASSUME ParamsAssumption ==
    /\ None \notin ClientIds \cup RedirectUris \cup States \cup Verifiers
    /\ MaxScopes \in Nat

VARIABLES
    kind,     \* which encoder ran last: "none", "authorization", "token", "refresh"
    params,   \* the struct it encoded
    encoded   \* the pairs it produced

vars == <<kind, params, encoded>>

Opt(S) == S \cup {None}

\* The scope sets a caller builds: HashSet<Cow<str>> of at most MaxScopes.
Scopes == {s \in SUBSET ScopeTokens : Cardinality(s) <= MaxScopes}

\* The PKCE methods' as_str().
PkceMethods == {"plain", "S256"}

AuthorizationParams ==
    [client_id : ClientIds, redirect_uri : Opt(RedirectUris),
     scope : Scopes, state : Opt(States), pkce : Opt(PkceMethods)]

AccessTokenParams ==
    [code : Codes, redirect_uri : Opt(RedirectUris), client_id : ClientIds,
     verifier : Opt(Verifiers)]

RefreshParams ==
    [client_id : ClientIds, refresh_token : RefreshTokens, scopes : Scopes]

Init ==
    /\ kind = "none"
    /\ params = None
    /\ encoded = <<>>

\* AuthorizationRequestParams::to_form_url_encoded_string().
EncodeAuthorizationRequest ==
    \E p \in AuthorizationParams : \E order \in Orders(p.scope) :
        /\ kind' = "authorization"
        /\ params' = p
        /\ encoded' = AuthorizationRequestQuery(p, order)

\* AccessTokenRequestParams::to_string().
EncodeAccessTokenRequest ==
    \E p \in AccessTokenParams :
        /\ kind' = "token"
        /\ params' = p
        /\ encoded' = AccessTokenRequestBody(p)

\* RefreshAccessTokenParams::to_string().
EncodeRefreshAccessToken ==
    \E p \in RefreshParams : \E order \in Orders(p.scopes) :
        /\ kind' = "refresh"
        /\ params' = p
        /\ encoded' = RefreshAccessTokenBody(p, order)

Next ==
    \/ EncodeAuthorizationRequest
    \/ EncodeAccessTokenRequest
    \/ EncodeRefreshAccessToken

Spec == Init /\ [][Next]_vars

-----------------------------------------------------------------------------
(* Properties.                                                             *)

\* Section 8 of the specification, for all three encoders and whatever
\* order the scope HashSet is iterated in: a server parsing the query or
\* body reads back the grant (response_type or grant_type), the client,
\* the state, the redirect URI, the code, the verifier, the refresh token
\* and exactly the scope set the caller built.
EncodingRoundTrip ==
    /\ kind = "authorization" =>
           /\ Value(encoded, "response_type") = "code"
           /\ Value(encoded, "client_id") = params.client_id
           /\ Value(encoded, "state") = params.state
           /\ Value(encoded, "redirect_uri") = params.redirect_uri
           /\ DecodedScope(encoded) = params.scope
    /\ kind = "token" =>
           /\ Value(encoded, "grant_type") = "authorization_code"
           /\ Value(encoded, "code") = params.code
           /\ Value(encoded, "redirect_uri") = params.redirect_uri
           /\ Value(encoded, "client_id") = params.client_id
           /\ Value(encoded, "code_verifier") = params.verifier
    /\ kind = "refresh" =>
           /\ Value(encoded, "grant_type") = "refresh_token"
           /\ Value(encoded, "client_id") = params.client_id
           /\ Value(encoded, "refresh_token") = params.refresh_token
           /\ DecodedScope(encoded) = params.scopes

=============================================================================
