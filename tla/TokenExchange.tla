--------------------------- MODULE TokenExchange ---------------------------
(***************************************************************************)
(* The I/O-free token-endpoint coroutines SendAccessTokenRequest           *)
(* (access-token-request.rs) and RefreshAccessToken                        *)
(* (refresh-access-token.rs), driven the way the example program drives    *)
(* them (examples/authorization-code-grant.rs, lines 92-101):              *)
(*                                                                         *)
(*   loop { match send.resume(arg.take()) {                                *)
(*            Err(io)      => arg = Some(handle(&mut stream, io).unwrap()),*)
(*            Ok(Err(err)) => panic!(...),                                 *)
(*            Ok(Ok(res))  => break res } }                                *)
(*                                                                         *)
(* Both coroutines wrap the HTTP/1.1 Send coroutine of io-http and share   *)
(* the same resume body; they differ only in the form body they post.     *)
(* Send is not part of this repository: its contract (write the request,  *)
(* possibly in several partial writes, then read the response, possibly   *)
(* in several partial reads) is modelled from the specification (section  *)
(* 4.5 and 6).  The transport and the authorization server are the        *)
(* environment.  Request and response bytes are abstracted to a number of *)
(* chunks; a response is its status code and the JSON shape of its body.  *)
(***************************************************************************)
EXTENDS Integers

CONSTANTS
    ReqChunks,   \* size of the form-urlencoded request, in transport chunks
    RespChunks,  \* size of the HTTP response, in transport chunks
    Statuses,    \* the HTTP status codes the server may answer with
    ErrorCodes,  \* the variants of IssueAccessTokenErrorCode
    NoError      \* a body without a valid "error" member

ASSUME ChunksAssumption == ReqChunks \in Nat \ {0} /\ RespChunks \in Nat \ {0}
ASSUME StatusesAssumption == Statuses \subseteq 100..999
ASSUME NoErrorAssumption == NoError \notin ErrorCodes

VARIABLES
    caller,    \* where the example's main is: "new", "loop" or a final point
    send,      \* the Send coroutine: request chunks written, response chunks read
    io,        \* the Io request resume last returned and nobody has handled yet
    arg,       \* the caller's `arg`: the result of the last handled Io, if any
    wire,      \* what the transport moved: chunks the server got / the client got
    response,  \* the response the server produced (status 0: none yet)
    result     \* the value resume finally returned

vars == <<caller, send, io, arg, wire, response, result>>

-----------------------------------------------------------------------------
(* Data.                                                                   *)

\* A token-endpoint body, by what serde can find in it: the members
\* access_token and token_type of IssueAccessTokenSuccessParams, and an
\* "error" member naming one of the IssueAccessTokenErrorCode variants.
Bodies == [token : BOOLEAN, error : ErrorCodes \cup {NoError}]

Unparseable == [token |-> FALSE, error |-> NoError]

Responses == [status : Statuses, body : Bodies]

NoResponse == [status |-> 0, body |-> Unparseable]

\* Result<serde_json::Result<AccessTokenResponse>, _>: "AccessToken" is
\* Ok(Ok(Ok(res))), "ErrorParams" is Ok(Ok(Err(res))), "JsonError" is
\* Ok(Err(err)); "none" while resume has not returned Ok yet.
Outcomes == [kind : {"AccessToken", "ErrorParams", "JsonError"},
             error : ErrorCodes \cup {NoError}]

NoResult == [kind |-> "none", error |-> NoError]

JsonError == [kind |-> "JsonError", error |-> NoError]

\* The Io values exchanged with the transport: what resume asks for, and
\* what handle gives back (an operation and the chunks it moved).
IoRequests == {"write", "read"}

NoArg == [op |-> "none", n |-> 0]

Terminal == {"done", "build_error", "io_error"}

-----------------------------------------------------------------------------
(* The Send coroutine of io-http (specification, section 4.5).            *)

\* Send accounts for the result of the Io it asked for.
SendAccount(s, a) ==
    [written |-> IF a.op = "write" THEN s.written + a.n ELSE s.written,
     read    |-> IF a.op = "read"  THEN s.read + a.n    ELSE s.read]

\* What Send asks for next: the rest of the request, then the rest of the
\* response, then it hands the parsed response back.
SendWant(s) ==
    IF s.written < ReqChunks THEN "write"
    ELSE IF s.read < RespChunks THEN "read"
    ELSE "response"

\* The response Send parses out of the chunks it has read.
Received(s) ==
    IF s.read >= RespChunks THEN response
    ELSE [response EXCEPT !.body = Unparseable]

-----------------------------------------------------------------------------
(* The code of this repository.                                            *)

\* Mutant: only "200 OK" taken for success.
IsSuccessOnlyOk(status) == status = 200

\* http::StatusCode::is_success: the status class 2xx.
IsSuccess(status) == status \in 200..299

\* Mutant: the body is tried as success parameters, then as error
\* parameters, whatever the status.
ClassifyIgnoringStatus(r) ==
    IF r.body.token THEN [kind |-> "AccessToken", error |-> NoError]
    ELSE IF r.body.error # NoError
         THEN [kind |-> "ErrorParams", error |-> r.body.error]
         ELSE JsonError

\* The two-level classification of resume: status class, then JSON shape.
ClassifyResponse(r) ==
    IF IsSuccess(r.status)
    THEN IF r.body.token THEN [kind |-> "AccessToken", error |-> NoError]
         ELSE JsonError
    ELSE IF r.body.error # NoError
         THEN [kind |-> "ErrorParams", error |-> r.body.error]
         ELSE JsonError

Init ==
    /\ caller = "new"
    /\ send = [written |-> 0, read |-> 0]
    /\ io = "none"
    /\ arg = NoArg
    /\ wire = [sent |-> 0, recv |-> 0]
    /\ response = NoResponse
    /\ result = NoResult

\* SendAccessTokenRequest::new / RefreshAccessToken::new: set the content
\* type and the form body on the caller's request builder, which fails if
\* the builder already holds an invalid part; the example unwraps.
New ==
    /\ caller = "new"
    /\ \/ caller' = "loop"
       \/ caller' = "build_error"
    /\ UNCHANGED <<send, io, arg, wire, response, result>>

\* SendAccessTokenRequest::resume(input) / RefreshAccessToken::resume(input):
\* Send consumes the Io result; resume propagates Send's next Io request
\* (Err(io)), or classifies the response Send returns.  The example ends
\* its loop on either Ok.
ResumeWith(input) ==
    /\ caller = "loop"
    /\ io = "none"
    /\ LET s == SendAccount(send, input) IN
         /\ send' = s
         /\ arg' = NoArg
         /\ IF SendWant(s) = "response"
              THEN /\ result' = ClassifyResponse(Received(s))
                   /\ caller' = "done"
                   /\ io' = "none"
              ELSE /\ io' = SendWant(s)
                   /\ UNCHANGED <<result, caller>>
    /\ UNCHANGED <<wire, response>>

\* Mutant: the loop calls send.resume(None) instead of handing back the
\* result of the Io it handled.
ResumeWithoutArg == ResumeWith(NoArg)

\* One iteration of the example's loop: send.resume(arg.take()).
Resume == ResumeWith(arg)

\* Mutant: a read hands back as many chunks as the stream holds, not only
\* what is left of the response.
HandleReadingPastResponse ==
    /\ caller = "loop"
    /\ io \in IoRequests
    /\ \/ /\ io = "write"
          /\ \E k \in 1..(ReqChunks - send.written) :
               /\ wire' = [wire EXCEPT !.sent = IF @ + k > ReqChunks
                                                 THEN ReqChunks ELSE @ + k]
               /\ arg' = [op |-> "write", n |-> k]
       \/ /\ io = "read"
          /\ response.status # 0
          /\ \E k \in 1..RespChunks :
               /\ wire' = [wire EXCEPT !.recv = @ + k]
               /\ arg' = [op |-> "read", n |-> k]
    /\ io' = "none"
    /\ UNCHANGED <<caller, send, response, result>>

\* handle(&mut stream, io): the transport performs the requested Io.  A
\* write sends part of what Send still has to write; a read blocks until
\* the server has answered and returns part of what is left to read.
Handle ==
    /\ caller = "loop"
    /\ io \in IoRequests
    /\ \/ /\ io = "write"
          /\ \E k \in 1..(ReqChunks - send.written) :
               /\ wire' = [wire EXCEPT !.sent = IF @ + k > ReqChunks
                                                 THEN ReqChunks ELSE @ + k]
               /\ arg' = [op |-> "write", n |-> k]
       \/ /\ io = "read"
          /\ response.status # 0
          /\ \E k \in 1..(RespChunks - wire.recv) :
               /\ wire' = [wire EXCEPT !.recv = @ + k]
               /\ arg' = [op |-> "read", n |-> k]
    /\ io' = "none"
    /\ UNCHANGED <<caller, send, response, result>>

\* handle returns an I/O error and the example's unwrap() aborts the flow.
TransportFail ==
    /\ caller = "loop"
    /\ io \in IoRequests
    /\ caller' = "io_error"
    /\ io' = "none"
    /\ UNCHANGED <<send, arg, wire, response, result>>

\* The authorization server answers once it has the whole request.
Serve ==
    /\ wire.sent = ReqChunks
    /\ response.status = 0
    /\ \E st \in Statuses, b \in Bodies :
         response' = [status |-> st, body |-> b]
    /\ UNCHANGED <<caller, send, io, arg, wire, result>>

\* The program has stopped: it printed the token, or panicked.
Terminated ==
    /\ caller \in Terminal
    /\ UNCHANGED vars

Next ==
    \/ New
    \/ Resume
    \/ Handle
    \/ TransportFail
    \/ Serve
    \/ Terminated

\* The example blocks in handle() until the transport completes, calls
\* resume again as soon as it returns, and the server eventually answers a
\* complete request; transport failures are possible, never forced.
Fairness ==
    /\ WF_vars(New)
    /\ WF_vars(Resume)
    /\ WF_vars(Handle)
    /\ WF_vars(Serve)

Spec == Init /\ [][Next]_vars

FairSpec == Spec /\ Fairness

-----------------------------------------------------------------------------
(* Properties.                                                             *)

TypeOK ==
    /\ caller \in {"new", "loop"} \cup Terminal
    /\ send \in [written : 0..ReqChunks, read : 0..RespChunks]
    /\ io \in IoRequests \cup {"none"}
    /\ arg \in [op : IoRequests, n : 1..ReqChunks + RespChunks] \cup {NoArg}
    /\ wire \in [sent : 0..ReqChunks, recv : 0..RespChunks]
    /\ response \in Responses \cup {NoResponse}
    /\ result \in Outcomes \cup {NoResult}

\* The status class 2xx, as section 4.5 of the specification states it.
Is2xx(status) == 200 <= status /\ status < 300

\* The value resume returns is the one the server's response calls for
\* (SendAccessTokenRequest::resume, RefreshAccessToken::resume): an access
\* token only from a 2xx response whose body holds one, a grant error only
\* from a non-2xx response and with the code the server sent, and a JSON
\* error only when the body does not fit the shape its status class calls
\* for.  The response was produced by the server before any result.
ResultFaithful ==
    result # NoResult =>
        /\ response # NoResponse
        /\ result.kind = "AccessToken" =>
               Is2xx(response.status) /\ response.body.token
        /\ result.kind = "ErrorParams" =>
               /\ ~Is2xx(response.status)
               /\ result.error = response.body.error
        /\ result.kind = "JsonError" =>
               /\ Is2xx(response.status) => ~response.body.token
               /\ ~Is2xx(response.status) => response.body.error = NoError

\* The inductive invariant behind ResultFaithful: the Io requests follow
\* what Send still needs, the transport's counters are Send's counters plus
\* the result not yet handed back, a response was read only after the
\* server produced one, and a result is the classification of it.
ExchangeInv ==
    /\ TypeOK
    /\ io # "none" => caller = "loop" /\ arg = NoArg
    /\ io = "write" => send.written < ReqChunks
    /\ io = "read" => send.written = ReqChunks /\ send.read < RespChunks
    /\ arg.op = "read" => send.written = ReqChunks
    /\ wire.sent = send.written + (IF arg.op = "write" THEN arg.n ELSE 0)
    /\ wire.recv = send.read + (IF arg.op = "read" THEN arg.n ELSE 0)
    /\ wire.recv > 0 => response # NoResponse
    /\ result # NoResult =>
           /\ response # NoResponse
           /\ result = ClassifyResponse(response)

\* The exchange always comes to an end (the example's loop exits or the
\* program panics) when the transport and the server make progress.
Termination == <>(caller \in Terminal)

-----------------------------------------------------------------------------
(* Refinement of the protocol of section 4.5.                              *)

\* The coroutine's protocol state, read off the example's control point c,
\* the pending Io i, the caller's arg a and what Send has accounted for s.
ProtocolState(c, i, a, s) ==
    IF c = "new" THEN "Init"
    ELSE IF c = "build_error" THEN "RequestBuildError"
    ELSE IF c = "io_error" THEN "TransportIoError"
    ELSE IF c = "done" THEN "Complete"
    ELSE IF i = "none" /\ a = NoArg /\ s.written = 0 THEN "Built"
    ELSE "AwaitingIO"

AbsState == ProtocolState(caller, io, arg, send)

Protocol == INSTANCE ExchangeProtocol
                WITH state <- AbsState, reply <- response, outcome <- result

\* SendAccessTokenRequest and RefreshAccessToken implement the protocol of
\* section 4.5: each resume, handle and server step is a protocol step or
\* a stutter, and every result is the classification the protocol calls for.
ImplementsProtocol == Protocol!Spec

=============================================================================
