# Formal models of io-oauth

TLA+ models of the OAuth 2.0 authorization-code client in `src/`. The
models are checked with TLC on small instances, and their main invariants
are proved with TLAPS for every value of the constants. The code is
sans-I/O: the coroutines never touch a socket. They hand `Io` requests to
the caller, who performs them and passes the result back through
`resume`. The modules model that control flow, the expiry arithmetic and
the PKCE length rules.

## The system

| Part | Code | Role |
|---|---|---|
| Token-endpoint coroutines | `authorization-code-grant/access-token-request.rs`, `refresh-access-token.rs` | `new` puts the form body on an `http` request builder and wraps io-http's `Send`. `resume(Option<Io>)` forwards `Send`'s `Io` requests as `Err(io)` until `Send` returns the response. It then classifies that response by status class (`is_success`), then by JSON shape. |
| Response parameters | `issue-access-token.rs` | `IssueAccessTokenSuccessParams` (with `issued_at` defaulting to `SystemTime::now`), `IssueAccessTokenErrorParams` and the six error codes. `sync_expires_in` lowers `expires_in` by the seconds elapsed since `issued_at`. The params serialize to JSON and deserialize back. |
| PKCE | `authorization-code-grant/pkce.rs` | The verifier comes from `new(size)`, `default()` or `from_str`. The challenge is the verifier for `plain`, or base64url(SHA-256(verifier)) for `S256`. |
| Request parameters | `authorization-code-grant/authorization-request.rs`, the params of `access-token-request.rs` and `refresh-access-token.rs` | Form-urlencoded query of the authorization URI and bodies of the two token requests. The scopes are joined with a space in `HashSet` order. |
| Example program | `examples/authorization-code-grant.rs` | Splits the typed scope line, builds the authorization URI with a fresh `State`, parses the redirect the user pastes, compares the CSRF state, builds the token request from the callback's code and drives `SendAccessTokenRequest` in a loop: `resume(arg.take())`, `handle(stream, io)`, repeat. |
| External | io-http `Send`, io-stream `handle`, the TLS/TCP stream, the server | Not in this repository. |

`authorization-code-grant/mod.rs` declares the modules `state` and
`authorization_response`, but their files are not in the repository, so
`State` and `AuthorizationResponseParams` cannot be modelled from code.
`AuthCodeFlow` treats a state as an opaque value and takes the contract
of `from_url` (the code and the state of the redirect, or an error) from
section 4.4 of the specification.
The example also does not compile as written: it sets a field
`pkce_code_challenge` on `AccessTokenRequestParams`, whose field is
`pkce_code_verifier`. This only matters with the `pkce` feature.

## Modules

### `TokenExchange` (core), with `MCTokenExchange`

State:
- `caller`: the example's control point (`new`, `loop`, or a final point).
- `send`: `Send`'s progress, as request chunks written and response chunks read.
- `io`: the pending `Io` request.
- `arg`: the caller's `arg`, the result of the last handled `Io`.
- `wire`: what the transport moved.
- `response`: the server's answer.
- `result`: the value `resume` returned.

Byte strings are abstracted. The request and the response become a
number of transport chunks (`ReqChunks`, `RespChunks`), so partial writes
and reads happen. A body becomes the shape serde can find in it
(`Bodies`: an access token present or not, an error code or none).

Actions:

| Action | Code |
|---|---|
| `New` | `SendAccessTokenRequest::new` / `RefreshAccessToken::new`. Building the request may fail, and the example unwraps. |
| `ResumeWith(input)` | The whole `resume`: `Send` accounts for the `Io` result, then either asks for the next `Io` or returns the response, which `ClassifyResponse` classifies (`IsSuccess` first, then the body). |
| `Resume` | The example's `send.resume(arg.take())`. |
| `Handle` | The example's `handle(&mut stream, io)`: a partial write, or a partial read once the server has answered. |
| `TransportFail` | `handle(..)` fails, and the example's `unwrap()` ends the flow. |
| `Serve` | The server answers a complete request with any status and body. |
| `Terminated` | The program has stopped. |

`Send`'s contract (`SendAccount`, `SendWant`, `Received`) is modelled from
sections 4.5 and 6 of the specification, because io-http is not in this
repository.

The two coroutines have the same `resume` and differ only in the bytes of
their bodies, so one model covers both.

### `ExchangeProtocol` (abstract)

This is the protocol of section 4.5 of the specification:
`Init → Built | RequestBuildError`, `Built → AwaitingIO`, and
`AwaitingIO → AwaitingIO | Complete | TransportIoError`. A result is the
two-level classification of the server's answer (`Expected`).
`TokenExchange` maps onto it with `AbsState`:
- `new` is Init.
- Nothing sent and nothing pending is Built.
- Anything else inside the loop is AwaitingIO.
- The final points map to Complete, RequestBuildError and TransportIoError.

`ImplementsProtocol` checks the refinement.

### `TokenExpiry`, with `MCTokenExpiry`

State:
- `now`: the wall clock (`SystemTime::now()`), in seconds.
- `real`: a history variable for the time that really passed. It advances with the wall clock and is never set back.
- `held`: whether the caller holds a token.
- `token`: the held token's `expires_in` and `issued_at`.
- `stored`: the saved JSON.
- Two more history variables, both measured in real time: `grant` (when the token was issued and the lifetime it was given) and `lastSync` (the time of the last sync).
- The constant `ClockSetBack` says whether the wall clock may be set back.

Actions:

| Action | Code |
|---|---|
| `Receive` | Deserializing a fresh response. `issued_at` takes its serde default `now`. |
| `SyncExpiresIn` | `sync_expires_in`, including both early returns. |
| `Save` | `String::try_from(&params)`. The derived `Serialize` writes `issued_at`. |
| `Load` | Deserializing saved JSON, whose `issued_at` is present. |
| `Tick`, `ClockBack` | A second passes and `SystemTime` advances with it; or, when `ClockSetBack`, `SystemTime` alone is set back. |

### `Pkce`, with `MCPkce`

A verifier is abstracted to its length. `new()` and `default()` draw only
from `UNRESERVED`, `from_str` rejects any other byte, and base64url is
unreserved, so the alphabet is guaranteed by construction.

Actions:

| Action | Code |
|---|---|
| `New(size)` | The whole `new`, for every `u8` size: the clamp, then `choose_multiple`, which samples without replacement from the 66 bytes. |
| `Default` | `default()`. |
| `FromStr(len)` | `from_str` of a string of unreserved bytes. Its `Err` changes nothing. |
| `SetMethod` | The caller setting the method. |

`Encode` is the pure `encode()`.

### `FormUrlEncoded` and `ParamsEncoding`, with `MCParamsEncoding`

`FormUrlEncoded` holds the encoders as pure operators. An encoded query
or body is the sequence of the `(name, value)` pairs given to
`Serializer::append_pair`, in the order the code appends them. The url
crate's percent-escaping is left out: `form_urlencoded::parse` undoes it,
so a pair is what a server reads back (`Value`). Identifiers, codes and
secrets are single symbols. A scope token is a sequence of characters,
because the scope value is built by joining tokens with a space
(`JoinScope`, the `glue` loop) and read back by splitting on spaces
(`DecodedScope`, RFC 6749 section 3.3). `SplitWhitespace` is the
example's `str::split_whitespace`. The module uses only `Sequences`
and `FiniteSets`, so that it can be proved about. `JoinScope` is a
recursive function over the positions of the token order, not a fold.
`Orders(S)` is the set of iteration orders of a set, as injective
sequences. `TextsUpTo(C, n)` is the set of lines of at most `n`
characters that `read_line` can return.

`ParamsEncoding` is a caller of the library who builds any parameter
struct and encodes it. Its actions are the three `to_string` methods:
`EncodeAuthorizationRequest`, `EncodeAccessTokenRequest` and
`EncodeRefreshAccessToken`. Each is taken for every iteration order of
the scope `HashSet` (`Orders`), because that order is not fixed.

### `AuthCodeFlow`, with `MCAuthCodeFlow`

The example's `main` end to end, composed with `TokenExchange` through
`INSTANCE`. Its state is `phase` (where `main` is), `requestParams`,
`query`, `callback` and `tokenBody`, plus the variables of
`TokenExchange`.

| Action | Code |
|---|---|
| `Authorize` | `connect` (which may panic), then step 1: the typed scope line through `split_whitespace`, a fresh `State`, the encoded query on the authorization URI. |
| `Callback` | Step 2: the user pastes a redirect. It is either the server's, with the code it issued and the state it read in the query, or a forged one, with an attacker's code and a state other than the fresh one, or none. `from_url` may also fail, and the example unwraps. |
| `CheckState` | `if request_params.state != response_params.state { panic!(..) }`. |
| `ExchangeCode` | Step 3: `AccessTokenRequestParams` from the callback's code, the same redirect URI and client, then `SendAccessTokenRequest::new`. |
| `TokenStep` | The token loop and step 4, as `TokenExchange` models them. |
| `Stopped` | `main` has panicked. |

A forged state never equals the fresh one because `State::new()` is
random; an attacker guessing it is outside the model. `FlowAssumption`
states that the placeholder `None` is neither a state nor an identifier.
A forged redirect without a state (`state` = `None`) therefore never
passes the comparison.

### `AuthorizationGrant` (abstract)

This is what a client of the authorization code grant promises, taken
from sections 2, 4.1 and 4.4 of the specification. Its variables are
`stage`, `request` (the client, redirect URI and state the
authorization request carries), `callback` and `exchange` (what the
token request carries). Its actions are:
- `Request`: the authorization request, with a fresh state;
- `Fail`: connecting or parsing fails;
- `Redirect`: a callback arrives, with any code and any state or none;
- `Verify`: the returned state is compared with the issued one;
- `Exchange`: the token request, bound to the callback's code and to the
  request's client and redirect URI.

`AuthCodeFlow` maps onto it as follows. `GrantStage` maps each phase of
`main` to a stage. `SentRequest` and `SentExchange` read the encoded
query and token body back with `Value`, as a server would. The
refinement therefore also checks the encoders. Before step 1 and step 3
the query and the body are empty, and every name reads as `None`, which
is the abstract placeholder. `ImplementsGrant` is the refinement.
`TokenStep` maps to stutters: the token exchange refines
`ExchangeProtocol` separately.

## Runs

| Run | Checks | Shows |
|---|---|---|
| `token_exchange` | `TypeOK`, `ResultFaithful`, `Termination` | Across partial writes and reads, transport failures and any server answer, a result is only ever the classification of the response the server produced: `AccessToken` only from a 2xx response with a token, `ErrorParams` only from a non-2xx response with the server's code, and `JsonError` only when the shape does not match. Under fairness, the loop always ends. |
| `token_exchange_refines` | `ImplementsProtocol` | The coroutines, driven by the example, implement `ExchangeProtocol`. |
| `token_expiry` | `TypeOK`, `SyncedNotOptimistic` | With a wall clock that is never set back: after a sync, `expires_in` never exceeds what is really left of the token. This holds across saves, loads and repeated syncs. |
| `token_expiry_setback` | `SyncNonIncreasing` | With a wall clock that may be set back, this is the action property of section 3 of the specification: a sync never raises, sets or clears `expires_in`, even when `issued_at` is ahead of the clock. |
| `token_expiry_clock_setback` (violation) | `SyncedNotOptimistic` | After the wall clock is set back, a sync can leave `expires_in` above the time really left (finding 5). |
| `sync_idempotent` (violation) | `SyncIdempotent` | A second sync with no time elapsed lowers `expires_in` again. |
| `pkce` | `GeneratedWithinRfc` | Verifiers from `new`/`default`, and their challenges with either method, are 43 to 128 characters. |
| `pkce_requested_size` (violation) | `NewHonoursSize` | `new(size)` gives 66 bytes for any size above 66. |
| `pkce_parsed_length` (violation) | `HeldVerifierWithinRfc` | `from_str` accepts any length. |
| `params_encoding` | `EncodingRoundTrip` | For all three structs, a server reads back every field, and exactly the scope set in every `HashSet` order, when the tokens are the space-free ones the example builds. |
| `scope_round_trip_any_token` (violation) | `EncodingRoundTrip` | A scope token holding a space, which the unvalidated `HashSet` accepts, comes back as two tokens. |
| `auth_code_flow` | `ExchangeBoundToAuthorization`, `ImplementsGrant` | Whatever redirect the user pastes, the example sends the token endpoint only the code the server issued for its own request, with that request's client and redirect URI. The example, read through its encoded messages, implements `AuthorizationGrant`. |

Each property of a passing run has a mutant in `PROJECT.json`, and TLC
finds each mutant violates its property:
- A `handle` whose read returns more than is left of the response breaks `TypeOK`.
- `is_success` read as `== 200` breaks `ResultFaithful`.
- Resuming with `None` instead of `arg` breaks `Termination`.
- Classifying without looking at the status breaks `ImplementsProtocol`.
- Subtracting without `min` (a usize underflow) breaks `TypeOK` of the expiry model.
- Loading without the stored `issued_at` breaks `SyncedNotOptimistic`.
- A clamp without its lower bound breaks `GeneratedWithinRfc`.
- Setting the glue before the first scope token breaks `EncodingRoundTrip`.
- Dropping the state comparison breaks `ExchangeBoundToAuthorization`.
- A token request without the redirect URI breaks `ImplementsGrant`.
- A sync without the early return on clock skew, using the signed
  difference, breaks `SyncNonIncreasing`.

### Findings

1. **`sync_expires_in` is not idempotent** (`issue-access-token.rs:78`).
   It subtracts everything elapsed since `issued_at` but never moves
   `issued_at`. Each call after the first therefore subtracts the same
   time again. Take `expires_in = 2`: one second later a sync gives 1,
   and an immediate second sync gives 0. Section 8 of the specification
   says the second call changes nothing. The error only ever errs
   early: without a clock set back `SyncedNotOptimistic` holds, so a caller never trusts an
   expired token, but it may discard a valid one.
2. **`PkceCodeVerifier::new(size)` never exceeds 66 bytes**
   (`pkce.rs:70`). `choose_multiple` samples without replacement, so
   sizes 67 to 255 all give 66 distinct bytes, not the clamped size.
3. **`from_str` does not check the length** (`pkce.rs:99`). The empty
   string and a 200-byte string are both accepted as verifiers.
4. **Scope tokens are not validated** (`authorization-request.rs:69`,
   a `TODO`). The `HashSet` takes any string and the tokens are joined
   with a space, so a token `"a b"` is read back by the server as the two
   scopes `a` and `b`. Section 3 of the specification says scope tokens
   are non-empty and whitespace-free. `RefreshAccessTokenParams.scopes`
   has the same gap. The example is not affected, because
   `split_whitespace` never yields such a token.

5. **A clock set back makes a synced `expires_in` optimistic**
   (`issue-access-token.rs:72`). `issued_at.elapsed()` reads the wall
   clock. If the clock is set back by less than the time since issue,
   `elapsed()` succeeds but counts too little. Take a token issued at
   second 1 with `expires_in = 2`. One second passes, the clock is set
   back to 1, and a sync leaves `expires_in = 2` with one second really
   left. Section 4.6 of the specification covers only `issued_at` in
   the future, and tells callers to sync before trusting `expires_in`.
   Without a set-back, `SyncNeverOptimistic` proves that this cannot
   happen.

### Bounds

- **Token exchange.** Two chunks each way, so both a partial and a full
  write and read happen. The statuses are 200, 204, 302 and 400 (success
  with and without a token body, a redirect, a client error), with two
  error codes and "no error member". Every branch of `ClassifyResponse`
  is reached, including the divergent ones: a token body under 302, and
  an error body under 2xx.
- **Expiry.** Four seconds of real time, with lifetimes 0, 2 and 5: one
  that runs out, one that does not, and a zero one. That is enough for a
  token to be synced, saved and reloaded. When `ClockSetBack` holds,
  there is also room to set the wall clock back below a token's
  `issued_at`, or back by less than the time since issue.
- **PKCE.** Every `u8` size, and parsed strings of 0 to 130 bytes, so
  lengths below 43, within 43..128 and above 128 all occur.
- **Encoding.** Scope tokens over `a` and `b` of one or two characters,
  and sets of up to two tokens, so both iteration orders of a two-token
  set occur. Each optional field is present or absent. The violating run
  adds the token `a SP b`.
- **Flow.** Scope lines of up to three characters over `a`, `b` and the
  space: the empty line, one and two words, leading, trailing and
  repeated spaces. Two possible fresh states, so a forged state that
  differs from the fresh one exists, and forged callbacks with no state.
  The token exchange uses one chunk each way and the statuses 200 and
  400; `token_exchange` already covers partial transfers.

### Fairness

`FairSpec` assumes weak fairness of `New`, `Resume`, `Handle` and
`Serve`, and nothing of `TransportFail`. This matches the example:
- `handle` blocks until the stream completes the `Io`.
- The loop calls `resume` again as soon as `handle` returns.
- A server eventually answers a complete request. That is an assumption about the environment.

A transport failure may happen but is never forced.

## Proofs (TLAPS)

- **`TokenExchangeProofs`.**
  - `TypeCorrect`: `Spec => []TypeOK`.
  - `ResultFaithfulness`: `Spec => []ResultFaithful`.

  Both hold for every chunk count, status set and error-code set allowed
  by `ChunksAssumption`, `StatusesAssumption` and `NoErrorAssumption`.
  `ResultFaithful` is not inductive: a step of `Resume` classifies
  `Received(send)`, and that equals `response` only if `Send` has read
  the whole response and the server has produced one. The strengthening
  `ExchangeInv` states what is needed:
  - pending `Io` requests match what `Send` still needs;
  - `wire` equals `send` plus the result in `arg` that has not been handed back yet;
  - bytes were read only after the server answered;
  - a result equals `ClassifyResponse(response)`.

  One lemma per action shows that each step preserves `ExchangeInv`.
  `ResultFaithful` then follows from `ExchangeInv` and
  `is_success <=> 2xx` on statuses in 100..999, the range http's `StatusCode` accepts.
  - `Refinement`: `Spec => ImplementsProtocol`, the step-by-step
    refinement of `ExchangeProtocol` under the mapping `AbsState`.
    `ExchangeInv` alone is not enough. In `Init` and after a build error
    `Serve` must not be enabled, so `RefineInv` adds that nothing was
    sent while `caller` is `"new"` or `"build_error"`, and that `Send` has
    neither been handed a result nor accounted for one while `caller` is
    `"new"`. The steps then
    correspond as follows:
    - `New` is `Construct`;
    - a `Resume` that finds `Send` done is `Complete` (`ClassifyResponse`
      is the protocol's `Expected`);
    - any other `Resume` is `Suspend`;
    - `TransportFail` is `Abort`;
    - `Serve` is `Answer`;
    - `Handle` and `Terminated` are stutters.
- **`AuthCodeFlowProofs`.** `CsrfDefence`:
  `Spec => []ExchangeBoundToAuthorization`, for every set of states,
  every scope line and every scope order. The property speaks of values
  read back from the query and the body, so it is not inductive. The
  strengthening `FlowInv` says:
  - once step 1 has run, the query carries the client and the redirect
    URI, and the state is a member of `States`;
  - once a redirect was parsed, it is one of `Redirects`;
  - once the states were compared and found equal, the callback's state
    is the fresh one;
  - in the token phase, the body is the one built from the callback.

  An injected code comes only with a state other than the fresh one, or
  with `None`, which is not a state (`FlowAssumption`). So only the
  issued code passes the comparison. `ValueAt` gives the value of the
  first pair with a name. `QueryFields` and `BodyFields` apply it to the
  tuples the builders produce. The tuple lemmas `Snoc2`..`Snoc4` show,
  with `SeqEqual`, how appending a pair to a tuple of pairs comes out.

  `GrantRefinement`: `Spec => ImplementsGrant`, the step-by-step
  refinement of `AuthorizationGrant`.
  - `FlowInv` gains one conjunct: the state read back from the query is
    `requestParams.state`, the one `CheckState` compares.
  - `InitGrant` maps `Init` to the abstract `Init`, using `ValueEmpty`:
    every name reads as `None` in an empty query.
  - `StepGrant` has one case per action:
    - `Authorize` is `Request` or `Fail`;
    - `Callback` is `Redirect` or `Fail`. A server redirect carries the
      query's state, which `FlowInv` puts in `States`;
    - `CheckState` is `Verify`;
    - `ExchangeCode` is `Exchange`, by `BodyFields`;
    - `TokenStep`, `Stopped` and stutters leave the mapped variables
      unchanged.
- **`TokenExpiryProofs`.**
  - `ExpiryTypeCorrect`: `Spec => []TypeOK`.
  - `SyncNeverOptimistic`: assuming `~ClockSetBack`,
    `Spec => []SyncedNotOptimistic`. Finding 5 shows that the
    assumption is needed.
  - `SyncMonotone`: `Spec => SyncNonIncreasing`, the action property.
    It needs only the type invariant. With `issued_at` ahead of the
    clock the token is unchanged. Otherwise the elapsed time is a
    natural number, and `FlooredSubtraction` keeps the result in
    `0..expires_in`.

  All three hold for every clock bound and every set of lifetimes allowed by
  `TimeAssumption` and `LifetimesAssumption`. `SyncedNotOptimistic` is
  not inductive: a sync computes from `token` on the wall clock, and the
  time left is measured from `grant` on the real clock, so the proof
  needs the two to agree. The strengthening `ExpiryInv` adds:
  - `Consistent` for the held token and for the stored one: `expires_in`
    is present exactly when a lifetime was given, and is at most the
    lifetime;
  - the wall clock is never ahead of the real one;
  - under `~ClockSetBack`, `Monotonic`: the wall clock shows the real
    time, and both tokens carry their grant's issue time.

  A load
  restores a stored token together with its grant, so the stored copy
  must be consistent too. Two arithmetic lemmas cover the sync: after
  the floored subtraction what is left is a natural number below both
  the lifetime and the time left, and a token issued ahead of the clock
  is never above what is left.
- **`PkceProofs`.** `GeneratedVerifierWithinRfc`:
  `Spec => []GeneratedWithinRfc`, for every bound on parsed strings. Two
  lemmas give the lengths: the clamp followed by sampling lies in
  43..66, and the S256 challenge is 43 long.

Left to TLC:
- `Termination` is liveness under fairness, which the installed provers
  do not handle.
- `EncodingRoundTrip` is model-checked only. Joining the scope tokens
  and splitting the result back gives the same set for every token
  sequence. That is a statement about the recursive function
  `JoinScope` for every input, so it needs induction over data, and the
  library's induction theorems take an operator parameter that the
  installed provers cannot instantiate.
- `NewHonoursSize`, `HeldVerifierWithinRfc` and `SyncIdempotent` are
  violated by the code. Their runs show the counterexamples, and there
  is nothing to prove.

## Not modelled, and the plan

- **The url crate's percent-escaping.** It is undone by
  `form_urlencoded::parse`, so the models keep the pairs, not the bytes.
- **`String::from_utf8_lossy` of the state** (`authorization-request.rs:95`).
  A state with bytes that are not UTF-8 would be sent altered. Which
  bytes `State::new()` produces is in `state.rs`, which is not in the
  repository.
- **The example's other inputs and its printing.** Reading the client,
  the URIs and their parsing only feed constants of the model.
- **Outside the repository:** io-http's byte-level framing, the TLS
  stream, SHA-256, the random generator and serde's field parsing.
