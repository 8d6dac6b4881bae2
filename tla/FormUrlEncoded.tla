--------------------------- MODULE FormUrlEncoded ---------------------------
(***************************************************************************)
(* The form-urlencoded encoders of the three parameter structs:           *)
(* AuthorizationRequestParams::to_form_url_encoded_serializer             *)
(* (authorization-request.rs), AccessTokenRequestParams::                 *)
(* to_form_url_encoded_serializer (access-token-request.rs) and           *)
(* RefreshAccessTokenParams::to_serializer (refresh-access-token.rs).     *)
(*                                                                         *)
(* An encoded query or body is the sequence of the (name, value) pairs    *)
(* given to Serializer::append_pair, in that order: the url crate escapes *)
(* each pair and form_urlencoded::parse restores it, so a pair is what a  *)
(* server reads back.  Identifiers, codes and secrets are single symbols; *)
(* a scope token is a text, a sequence of characters, because the scope   *)
(* value is built by joining tokens with a space and read back by        *)
(* splitting on it (RFC 6749, section 3.3).                               *)
(***************************************************************************)
EXTENDS Integers, Sequences, FiniteSets

CONSTANTS
    Space,   \* the character " "
    None     \* Option::None

\* The value of the first pair named `name`, None when there is none:
\* what form_urlencoded::parse hands a server looking for that name.
Value(q, name) ==
    IF \E i \in DOMAIN q : q[i].name = name
    THEN q[CHOOSE i \in DOMAIN q : q[i].name = name /\
                     \A j \in 1..(i - 1) : q[j].name # name].value
    ELSE None

Pair(name, value) == [name |-> name, value |-> value]

\* `if let Some(v) = opt { serializer.append_pair(name, v) }`.
OptPair(name, opt) == IF opt = None THEN <<>> ELSE <<Pair(name, opt)>>

\* The texts of at most n characters drawn from C.
TextsUpTo(C, n) == UNION {[1..k -> C] : k \in 0..n}

\* The orders in which a HashSet holding the elements of S may iterate:
\* every sequence listing each element once.
Orders(S) ==
    {f \in [1..Cardinality(S) -> S] :
        \A i, j \in 1..Cardinality(S) : f[i] = f[j] => i = j}

\* Mutant: the glue is set to " " before the first token is pushed.
JoinScopeGlueFirst(order) ==
    LET scope[i \in 0..Len(order)] ==
            IF i = 0 THEN <<>> ELSE scope[i - 1] \o <<Space>> \o order[i]
    IN  scope[Len(order)]

\* The scope loop: `for token in &self.scope { scope.push_str(glue);
\* scope.push_str(token); glue = " " }`, over the tokens in the HashSet's
\* iteration order `order`; scope[i] is the string after i rounds, and
\* the glue is "" in the first round only.
JoinScope(order) ==
    LET scope[i \in 0..Len(order)] ==
            IF i = 0 THEN <<>>
            ELSE scope[i - 1] \o (IF i = 1 THEN <<>> ELSE <<Space>>)
                              \o order[i]
    IN  scope[Len(order)]

\* `if !self.scope.is_empty() { ... append_pair("scope", &scope) }`.
ScopePair(order) ==
    IF order = <<>> THEN <<>> ELSE <<Pair("scope", JoinScope(order))>>

\* AuthorizationRequestParams::to_form_url_encoded_serializer: the pairs in
\* the order the code appends them.  `pkce` is the challenge's method (its
\* as_str()), and encode() of the challenge stands for its value.
AuthorizationRequestQuery(p, order) ==
    << Pair("response_type", "code"), Pair("client_id", p.client_id) >>
    \o OptPair("state", p.state)
    \o OptPair("redirect_uri", p.redirect_uri)
    \o ScopePair(order)
    \o (IF p.pkce = None THEN <<>>
        ELSE << Pair("code_challenge", <<"challenge", p.pkce>>),
                Pair("code_challenge_method", p.pkce) >>)

\* AccessTokenRequestParams::to_form_url_encoded_serializer.
AccessTokenRequestBody(p) ==
    << Pair("grant_type", "authorization_code"), Pair("code", p.code) >>
    \o OptPair("redirect_uri", p.redirect_uri)
    \o << Pair("client_id", p.client_id) >>
    \o OptPair("code_verifier", p.verifier)

\* RefreshAccessTokenParams::to_serializer.
RefreshAccessTokenBody(p, order) ==
    << Pair("grant_type", "refresh_token"), Pair("client_id", p.client_id),
       Pair("refresh_token", p.refresh_token) >>
    \o ScopePair(order)

-----------------------------------------------------------------------------
(* Reading a scope value back (RFC 6749, section 3.3): the tokens are the  *)
(* texts between the spaces.                                               *)

\* The positions that delimit tokens: the spaces, and the two ends.
Cuts(s) == {0, Len(s) + 1} \cup {i \in DOMAIN s : s[i] = Space}

\* Two cuts with no cut between them.
Consecutive(s) ==
    { ab \in Cuts(s) \X Cuts(s) :
        ab[1] < ab[2] /\ \A d \in Cuts(s) : ~(ab[1] < d /\ d < ab[2]) }

\* The texts between two consecutive cuts, empty ones included.
Pieces(s) == { SubSeq(s, ab[1] + 1, ab[2] - 1) : ab \in Consecutive(s) }

\* The scope set a server reads from a query: none without a scope pair.
DecodedScope(q) ==
    IF Value(q, "scope") = None THEN {} ELSE Pieces(Value(q, "scope"))

\* str::split_whitespace: the non-empty texts between spaces.
SplitWhitespace(s) == Pieces(s) \ {<<>>}

=============================================================================
