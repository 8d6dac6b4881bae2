------------------------- MODULE AuthCodeFlowProofs -------------------------
(***************************************************************************)
(* The example program's CSRF defence, for every set of states, every    *)
(* scope line and every token exchange: the code it sends to the token   *)
(* endpoint is the one the authorization server issued, with the client  *)
(* and the redirect URI of the authorization query.                      *)
(***************************************************************************)
EXTENDS AuthCodeFlow, SequenceTheorems, TLAPS

-----------------------------------------------------------------------------
(* Appending a pair to a tuple of pairs, as the builders of the query and  *)
(* of the body do.                                                         *)

LEMMA Snoc2 ==
    ASSUME NEW a, NEW b, NEW c
    PROVE  <<a, b>> \o <<c>> = <<a, b, c>>
<1> DEFINE S == {a, b, c}
<1>1. <<a, b>> \in Seq(S) /\ <<c>> \in Seq(S) /\ <<a, b, c>> \in Seq(S)
    OBVIOUS
<1>2. /\ <<a, b>> \o <<c>> \in Seq(S)
      /\ Len(<<a, b>> \o <<c>>) = 3
      /\ \A i \in 1..3 : (<<a, b>> \o <<c>>)[i] =
                           IF i <= 2 THEN <<a, b>>[i] ELSE <<c>>[i - 2]
    BY <1>1, ConcatProperties
<1>3. \A i \in 1..3 : (<<a, b>> \o <<c>>)[i] = <<a, b, c>>[i]
    BY <1>2
<1>4. Len(<<a, b, c>>) = 3
    OBVIOUS
<1>. QED
    BY <1>1, <1>2, <1>3, <1>4, SeqEqual, Zenon

LEMMA Snoc3 ==
    ASSUME NEW a, NEW b, NEW c, NEW d
    PROVE  <<a, b, c>> \o <<d>> = <<a, b, c, d>>
<1> DEFINE S == {a, b, c, d}
<1>1. <<a, b, c>> \in Seq(S) /\ <<d>> \in Seq(S) /\ <<a, b, c, d>> \in Seq(S)
    OBVIOUS
<1>2. /\ <<a, b, c>> \o <<d>> \in Seq(S)
      /\ Len(<<a, b, c>> \o <<d>>) = 4
      /\ \A i \in 1..4 : (<<a, b, c>> \o <<d>>)[i] =
                           IF i <= 3 THEN <<a, b, c>>[i] ELSE <<d>>[i - 3]
    BY <1>1, ConcatProperties
<1>3. \A i \in 1..4 : (<<a, b, c>> \o <<d>>)[i] = <<a, b, c, d>>[i]
    BY <1>2
<1>4. Len(<<a, b, c, d>>) = 4
    OBVIOUS
<1>. QED
    BY <1>1, <1>2, <1>3, <1>4, SeqEqual, Zenon

LEMMA Snoc4 ==
    ASSUME NEW a, NEW b, NEW c, NEW d, NEW e
    PROVE  <<a, b, c, d>> \o <<e>> = <<a, b, c, d, e>>
<1> DEFINE S == {a, b, c, d, e}
<1>1. /\ <<a, b, c, d>> \in Seq(S) /\ <<e>> \in Seq(S)
      /\ <<a, b, c, d, e>> \in Seq(S)
    OBVIOUS
<1>2. /\ <<a, b, c, d>> \o <<e>> \in Seq(S)
      /\ Len(<<a, b, c, d>> \o <<e>>) = 5
      /\ \A i \in 1..5 : (<<a, b, c, d>> \o <<e>>)[i] =
                           IF i <= 4 THEN <<a, b, c, d>>[i] ELSE <<e>>[i - 4]
    BY <1>1, ConcatProperties
<1>3. \A i \in 1..5 : (<<a, b, c, d>> \o <<e>>)[i] = <<a, b, c, d, e>>[i]
    BY <1>2
<1>4. Len(<<a, b, c, d, e>>) = 5
    OBVIOUS
<1>. QED
    BY <1>1, <1>2, <1>3, <1>4, SeqEqual, Zenon

-----------------------------------------------------------------------------
(* Reading a pair back.                                                    *)

\* The value of a name is the one of the first pair carrying it.
LEMMA ValueAt ==
    ASSUME NEW q, NEW n, NEW i \in Nat \ {0},
           DOMAIN q \subseteq Nat \ {0}, i \in DOMAIN q, q[i].name = n,
           \A j \in 1..(i - 1) : q[j].name # n
    PROVE  Value(q, n) = q[i].value
<1>1. \A k \in DOMAIN q :
          (q[k].name = n /\ \A j \in 1..(k - 1) : q[j].name # n) => k = i
    BY DEF Value
<1>. QED
    BY <1>1 DEF Value

\* The query of step 1 carries the client, the redirect URI and the state
\* of the request params, whatever the scope and its order.
LEMMA QueryFields ==
    ASSUME NEW p, NEW order,
           p.client_id = ClientId, p.redirect_uri = RedirectUri,
           p.state \in States, p.pkce = None
    PROVE  LET q == AuthorizationRequestQuery(p, order)
           IN  /\ Value(q, "client_id") = ClientId
               /\ Value(q, "redirect_uri") = RedirectUri
               /\ Value(q, "state") = p.state
<1> DEFINE head == << Pair("response_type", "code"), Pair("client_id", ClientId),
                      Pair("state", p.state), Pair("redirect_uri", RedirectUri) >>
<1>1. AuthorizationRequestQuery(p, order) = head \o ScopePair(order)
  <2>1. p.state # None /\ RedirectUri # None
    BY FlowAssumption
  <2>. QED
    BY <2>1 DEF AuthorizationRequestQuery, OptPair
<1>2. CASE ScopePair(order) = <<>>
  <2>1. AuthorizationRequestQuery(p, order) = head
    BY <1>1, <1>2
  <2>. QED
    BY <2>1, ValueAt DEF Pair
<1>3. CASE ScopePair(order) = <<Pair("scope", JoinScope(order))>>
  <2>1. AuthorizationRequestQuery(p, order)
          = head \o <<Pair("scope", JoinScope(order))>>
    BY <1>1, <1>3
  <2>2. AuthorizationRequestQuery(p, order)
          = << Pair("response_type", "code"), Pair("client_id", ClientId),
               Pair("state", p.state), Pair("redirect_uri", RedirectUri),
               Pair("scope", JoinScope(order)) >>
    BY <2>1, Snoc4
  <2>. QED
    BY <2>2, ValueAt DEF Pair
<1>. QED
    BY <1>2, <1>3 DEF ScopePair

\* The body of step 3 carries the code it was built with, and the client
\* and the redirect URI of the example.
LEMMA BodyFields ==
    ASSUME NEW c
    PROVE  LET b == AccessTokenRequestBody(
                      [code |-> c, redirect_uri |-> RedirectUri,
                       client_id |-> ClientId, verifier |-> None])
           IN  /\ Value(b, "code") = c
               /\ Value(b, "client_id") = ClientId
               /\ Value(b, "redirect_uri") = RedirectUri
<1>1. AccessTokenRequestBody(
          [code |-> c, redirect_uri |-> RedirectUri,
           client_id |-> ClientId, verifier |-> None])
        = << Pair("grant_type", "authorization_code"), Pair("code", c),
             Pair("redirect_uri", RedirectUri), Pair("client_id", ClientId) >>
  <2>1. AccessTokenRequestBody(
            [code |-> c, redirect_uri |-> RedirectUri,
             client_id |-> ClientId, verifier |-> None])
          = ((<< Pair("grant_type", "authorization_code"), Pair("code", c) >>
               \o << Pair("redirect_uri", RedirectUri) >>)
               \o << Pair("client_id", ClientId) >>) \o << >>
    BY FlowAssumption DEF AccessTokenRequestBody, OptPair
  <2>2. << Pair("grant_type", "authorization_code"), Pair("code", c) >>
          \o << Pair("redirect_uri", RedirectUri) >>
        = << Pair("grant_type", "authorization_code"), Pair("code", c),
             Pair("redirect_uri", RedirectUri) >>
    BY Snoc2
  <2>3. << Pair("grant_type", "authorization_code"), Pair("code", c),
             Pair("redirect_uri", RedirectUri) >>
          \o << Pair("client_id", ClientId) >>
        = << Pair("grant_type", "authorization_code"), Pair("code", c),
             Pair("redirect_uri", RedirectUri), Pair("client_id", ClientId) >>
    BY Snoc3
  <2>. QED
    BY <2>1, <2>2, <2>3
<1>. QED
    BY <1>1, ValueAt DEF Pair

-----------------------------------------------------------------------------
(* The inductive invariant.                                                *)

\* The phases once step 1 has run, and once a redirect was parsed.
Authorized ==
    {"authorized", "malformed_callback", "redirected", "states_mismatch",
     "checked", "token"}
Redirected == {"redirected", "states_mismatch", "checked", "token"}

\* The body step 3 builds from the callback.
ExpectedBody ==
    AccessTokenRequestBody([code |-> callback.code, redirect_uri |-> RedirectUri,
                            client_id |-> ClientId, verifier |-> None])

FlowInv ==
    /\ phase \in {"start", "connect_error"} \cup Authorized
    /\ phase \in Authorized =>
           /\ requestParams.state \in States
           /\ Value(query, "client_id") = ClientId
           /\ Value(query, "redirect_uri") = RedirectUri
           /\ Value(query, "state") = requestParams.state
    /\ phase \in Redirected => callback \in Redirects
    /\ phase \in {"checked", "token"} => callback.state = requestParams.state
    /\ phase = "token" => tokenBody = ExpectedBody

LEMMA InitFlowInv == Init => FlowInv
BY DEF Init, FlowInv, Authorized, Redirected

LEMMA NextFlowInv == FlowInv /\ [Next]_vars => FlowInv'
<1> SUFFICES ASSUME FlowInv, [Next]_vars PROVE FlowInv'
    OBVIOUS
<1>1. CASE Authorize
  <2>1. CASE phase' = "connect_error"
    BY <1>1, <2>1 DEF Authorize, FlowInv, Authorized, Redirected
  <2>2. CASE phase' # "connect_error"
    <3>1. PICK line \in Lines, st \in States :
            LET p == [client_id |-> ClientId, redirect_uri |-> RedirectUri,
                      scope |-> SplitWhitespace(line), state |-> st,
                      pkce |-> None]
            IN  /\ requestParams' = p
                /\ \E order \in Orders(p.scope) :
                     query' = AuthorizationRequestQuery(p, order)
                /\ phase' = "authorized"
      BY <1>1, <2>2 DEF Authorize
    <3> DEFINE p == [client_id |-> ClientId, redirect_uri |-> RedirectUri,
                     scope |-> SplitWhitespace(line), state |-> st,
                     pkce |-> None]
    <3>2. PICK order \in Orders(p.scope) :
            query' = AuthorizationRequestQuery(p, order)
      BY <3>1
    <3>3. /\ Value(query', "client_id") = ClientId
          /\ Value(query', "redirect_uri") = RedirectUri
          /\ Value(query', "state") = st
      BY <3>2, QueryFields
    <3>. QED
      BY <3>1, <3>3 DEF FlowInv, Authorized, Redirected
  <2>. QED BY <2>1, <2>2
<1>2. CASE Callback
  <2>1. /\ phase = "authorized"
        /\ UNCHANGED <<requestParams, query, tokenBody>>
    BY <1>2 DEF Callback
  <2>2. Redirects' = Redirects
    BY <2>1 DEF Redirects
  <2>3. phase' = "malformed_callback" \/ (phase' = "redirected" /\ callback' \in Redirects)
    BY <1>2 DEF Callback
  <2>. QED
    BY <2>1, <2>2, <2>3 DEF FlowInv, Authorized, Redirected
<1>3. CASE CheckState
  <2>1. /\ phase = "redirected"
        /\ UNCHANGED <<requestParams, query, callback, tokenBody>>
        /\ phase' = IF requestParams.state # callback.state
                      THEN "states_mismatch" ELSE "checked"
    BY <1>3 DEF CheckState
  <2>2. Redirects' = Redirects
    BY <2>1 DEF Redirects
  <2>. QED
    BY <2>1, <2>2 DEF FlowInv, Authorized, Redirected
<1>4. CASE ExchangeCode
  <2>1. /\ phase = "checked" /\ phase' = "token"
        /\ UNCHANGED <<requestParams, query, callback>>
        /\ tokenBody' = ExpectedBody
    BY <1>4 DEF ExchangeCode, ExpectedBody
  <2>2. Redirects' = Redirects /\ ExpectedBody' = ExpectedBody
    BY <2>1 DEF Redirects, ExpectedBody
  <2>. QED
    BY <2>1, <2>2 DEF FlowInv, Authorized, Redirected
<1>5. CASE TokenStep \/ Stopped \/ UNCHANGED vars
  <2>1. UNCHANGED flowVars
    BY <1>5 DEF TokenStep, Stopped, vars
  <2>2. Redirects' = Redirects /\ ExpectedBody' = ExpectedBody
    BY <2>1 DEF flowVars, Redirects, ExpectedBody
  <2>. QED
    BY <2>1, <2>2 DEF flowVars, FlowInv
<1>. QED
  BY <1>1, <1>2, <1>3, <1>4, <1>5 DEF Next

LEMMA FlowInvBound == FlowInv => ExchangeBoundToAuthorization
<1> SUFFICES ASSUME FlowInv, phase = "token"
             PROVE  /\ Value(tokenBody, "code") = IssuedCode
                    /\ Value(tokenBody, "client_id") = Value(query, "client_id")
                    /\ Value(tokenBody, "redirect_uri") = Value(query, "redirect_uri")
    BY DEF ExchangeBoundToAuthorization
<1>1. /\ tokenBody = ExpectedBody
      /\ callback \in Redirects
      /\ callback.state = requestParams.state
      /\ requestParams.state \in States
      /\ Value(query, "client_id") = ClientId
      /\ Value(query, "redirect_uri") = RedirectUri
    BY DEF FlowInv, Authorized, Redirected
<1>2. callback.code = IssuedCode
    BY <1>1, FlowAssumption DEF Redirects
<1>. QED
    BY <1>1, <1>2, BodyFields DEF ExpectedBody

\* Whatever redirect the user pastes (the server's, or one forged with an
\* attacker's code and a state that is not the fresh one, or none), the
\* example's state comparison lets only the code the authorization server
\* issued reach the token endpoint, sent with the client and the redirect
\* URI of the authorization query (RFC 6749, sections 4.1.3 and 10.12).
THEOREM CsrfDefence == Spec => []ExchangeBoundToAuthorization
<1>1. Init => FlowInv BY InitFlowInv
<1>2. FlowInv /\ [Next]_vars => FlowInv' BY NextFlowInv
<1>3. FlowInv => ExchangeBoundToAuthorization BY FlowInvBound
<1>. QED BY <1>1, <1>2, <1>3, PTL DEF Spec


-----------------------------------------------------------------------------
(* Refinement of AuthorizationGrant.                                       *)

\* Before step 1 the query is empty, and before step 3 the body is: a
\* server reads every name of them as absent.
LEMMA ValueEmpty ==
    ASSUME NEW n
    PROVE  Value(<<>>, n) = None
BY DEF Value

LEMMA InitGrant == Init => Grant!Init
<1> SUFFICES ASSUME Init PROVE Grant!Init
    OBVIOUS
<1>1. query = <<>> /\ tokenBody = <<>> /\ phase = "start"
    BY DEF Init
<1>2. SentRequest = Grant!NoRequest /\ SentExchange = Grant!NoExchange
    BY <1>1, ValueEmpty DEF SentRequest, SentExchange, Grant!NoRequest,
                            Grant!NoExchange
<1>3. GrantStage = "start"
    BY <1>1 DEF GrantStage
<1>. QED
    BY <1>2, <1>3 DEF Init, Grant!Init, NoCallback, Grant!NoCallback

\* One step of main is one step of the grant, or none.
LEMMA StepGrant ==
    FlowInv /\ [Next]_vars => [Grant!Next]_Grant!grantVars
<1> SUFFICES ASSUME FlowInv, [Next]_vars
             PROVE  [Grant!Next]_Grant!grantVars
    OBVIOUS
<1>1. CASE Authorize
  <2>1. phase = "start" /\ GrantStage = "start"
    BY <1>1 DEF Authorize, GrantStage
  <2>2. UNCHANGED <<callback, tokenBody>>
    BY <1>1 DEF Authorize
  <2>3. CASE phase' = "connect_error"
    <3>1. GrantStage' = "failed" /\ query' = query
      BY <1>1, <2>3 DEF Authorize, GrantStage
    <3>. QED
      BY <2>1, <2>2, <3>1 DEF Grant!Next, Grant!Fail, SentRequest, SentExchange
  <2>4. CASE phase' # "connect_error"
    <3>1. PICK line \in Lines, st \in States :
            LET p == [client_id |-> ClientId, redirect_uri |-> RedirectUri,
                      scope |-> SplitWhitespace(line), state |-> st,
                      pkce |-> None]
            IN  /\ \E order \in Orders(p.scope) :
                     query' = AuthorizationRequestQuery(p, order)
                /\ phase' = "authorized"
      BY <1>1, <2>4 DEF Authorize
    <3> DEFINE p == [client_id |-> ClientId, redirect_uri |-> RedirectUri,
                     scope |-> SplitWhitespace(line), state |-> st,
                     pkce |-> None]
    <3>2. PICK order \in Orders(p.scope) :
            query' = AuthorizationRequestQuery(p, order)
      BY <3>1
    <3>3. SentRequest' = [client |-> ClientId, redirect |-> RedirectUri,
                          state |-> st]
      BY <3>2, QueryFields DEF SentRequest
    <3>4. GrantStage' = "requested"
      BY <3>1 DEF GrantStage
    <3>. QED
      BY <2>1, <2>2, <3>3, <3>4 DEF Grant!Next, Grant!Request, SentExchange
  <2>. QED
    BY <2>3, <2>4
<1>2. CASE Callback
  <2>1. /\ phase = "authorized" /\ GrantStage = "requested"
        /\ UNCHANGED <<query, tokenBody>>
    BY <1>2 DEF Callback, GrantStage
  <2>2. CASE phase' = "malformed_callback"
    <3>1. GrantStage' = "failed" /\ callback' = callback
      BY <1>2, <2>2 DEF Callback, GrantStage
    <3>. QED
      BY <2>1, <3>1 DEF Grant!Next, Grant!Fail, SentRequest, SentExchange
  <2>3. CASE phase' # "malformed_callback"
    <3>1. phase' = "redirected" /\ callback' \in Redirects
      BY <1>2, <2>3 DEF Callback
    <3>2. Value(query, "state") \in States
      BY <2>1 DEF FlowInv, Authorized
    <3>3. callback' \in [code : {IssuedCode, InjectedCode},
                         state : States \cup {None}]
      BY <3>1, <3>2 DEF Redirects
    <3>4. GrantStage' = "called_back"
      BY <3>1 DEF GrantStage
    <3>. QED
      BY <2>1, <3>3, <3>4 DEF Grant!Next, Grant!Redirect, SentRequest,
                              SentExchange
  <2>. QED
    BY <2>2, <2>3
<1>3. CASE CheckState
  <2>1. /\ phase = "redirected" /\ GrantStage = "called_back"
        /\ UNCHANGED <<requestParams, query, callback, tokenBody>>
    BY <1>3 DEF CheckState, GrantStage
  <2>2. SentRequest.state = requestParams.state
    BY <2>1 DEF FlowInv, Authorized, SentRequest
  <2>3. GrantStage' = IF callback.state = SentRequest.state
                        THEN "verified" ELSE "rejected"
    BY <1>3, <2>1, <2>2 DEF CheckState, GrantStage
  <2>. QED
    BY <2>1, <2>3 DEF Grant!Next, Grant!Verify, SentRequest, SentExchange
<1>4. CASE ExchangeCode
  <2>1. /\ phase = "checked" /\ GrantStage = "verified"
        /\ phase' = "token" /\ GrantStage' = "exchanging"
        /\ UNCHANGED <<query, callback>>
        /\ tokenBody' = ExpectedBody
    BY <1>4 DEF ExchangeCode, GrantStage, ExpectedBody
  <2>2. /\ SentRequest.client = ClientId
        /\ SentRequest.redirect = RedirectUri
    BY <2>1 DEF FlowInv, Authorized, SentRequest
  <2>3. SentExchange' = [code |-> callback.code, client |-> ClientId,
                         redirect |-> RedirectUri]
    BY <2>1, BodyFields DEF SentExchange, ExpectedBody
  <2>. QED
    BY <2>1, <2>2, <2>3 DEF Grant!Next, Grant!Exchange, SentRequest
<1>5. CASE TokenStep \/ Stopped \/ UNCHANGED vars
  <2>1. UNCHANGED flowVars
    BY <1>5 DEF TokenStep, Stopped, vars
  <2>. QED
    BY <2>1 DEF flowVars, Grant!grantVars, GrantStage, SentRequest,
                SentExchange
<1>. QED
  BY <1>1, <1>2, <1>3, <1>4, <1>5 DEF Next

\* The example implements the authorization code grant of sections 2, 4.1
\* and 4.4, for every set of states, scope line and scope order: read back
\* from its encoded query and token body, the state it sends is the one it
\* compares, it sends a token request only after a match, and the request
\* carries the callback's code with the client and the redirect URI of the
\* query (examples/authorization-code-grant.rs, main).
THEOREM GrantRefinement == Spec => ImplementsGrant
<1>1. Init => Grant!Init BY InitGrant
<1>2. FlowInv /\ [Next]_vars => [Grant!Next]_Grant!grantVars BY StepGrant
<1>3. Spec => []FlowInv BY InitFlowInv, NextFlowInv, PTL DEF Spec
<1>. QED
    BY <1>1, <1>2, <1>3, PTL DEF Spec, ImplementsGrant, Grant!Spec

=============================================================================
