------------------------ MODULE TokenExchangeProofs ------------------------
(***************************************************************************)
(* Proofs about the token-endpoint coroutines, for every size of request   *)
(* and response, every set of status codes and every set of error codes:  *)
(* the type invariant; that resume only returns the result the server's   *)
(* response calls for; and that the coroutines implement the protocol of  *)
(* ExchangeProtocol.  All rest on the inductive invariant ExchangeInv.     *)
(***************************************************************************)
EXTENDS TokenExchange, TLAPS

-----------------------------------------------------------------------------
(* The response the server has produced is never the placeholder.         *)

LEMMA ResponseNotPlaceholder ==
    ASSUME NEW r \in Responses
    PROVE  r # NoResponse
BY StatusesAssumption DEF Responses, NoResponse

LEMMA InitInv == Init => ExchangeInv
BY ChunksAssumption DEF Init, ExchangeInv, TypeOK, NoArg, NoResponse,
                        NoResult, Terminal, IoRequests, Responses, Bodies,
                        Unparseable, Outcomes

-----------------------------------------------------------------------------
(* Each action preserves ExchangeInv.                                     *)

LEMMA NewInv == ExchangeInv /\ New => ExchangeInv'
BY DEF ExchangeInv, TypeOK, New, Terminal

LEMMA ResumeInv == ExchangeInv /\ Resume => ExchangeInv'
<1> SUFFICES ASSUME ExchangeInv, Resume PROVE ExchangeInv'
    OBVIOUS
<1> DEFINE s == SendAccount(send, arg)
<1>0. /\ ReqChunks \in Nat /\ RespChunks \in Nat
      /\ send \in [written : 0..ReqChunks, read : 0..RespChunks]
      /\ wire \in [sent : 0..ReqChunks, recv : 0..RespChunks]
    BY ChunksAssumption DEF ExchangeInv, TypeOK
<1>1. /\ s.written = wire.sent
      /\ s.read = wire.recv
      /\ s \in [written : 0..ReqChunks, read : 0..RespChunks]
    BY <1>0 DEF ExchangeInv, TypeOK, SendAccount, NoArg, IoRequests
<1>2. /\ send' = s
      /\ arg' = NoArg
      /\ wire' = wire
      /\ response' = response
      /\ caller = "loop"
    BY DEF Resume, ResumeWith
<1>3. arg' \in [op : IoRequests, n : 1..ReqChunks + RespChunks] \cup {NoArg}
      /\ arg'.op = "none"
    BY <1>2 DEF NoArg
<1>4. /\ wire'.sent = send'.written + (IF arg'.op = "write" THEN arg'.n ELSE 0)
      /\ wire'.recv = send'.read + (IF arg'.op = "read" THEN arg'.n ELSE 0)
      /\ send' \in [written : 0..ReqChunks, read : 0..RespChunks]
      /\ wire' \in [sent : 0..ReqChunks, recv : 0..RespChunks]
    BY <1>0, <1>1, <1>2, <1>3
<1>5. wire'.recv > 0 => response' # NoResponse
    BY <1>2 DEF ExchangeInv
<1>6. response' \in Responses \cup {NoResponse}
    BY <1>2 DEF ExchangeInv, TypeOK
<1>7. CASE SendWant(s) = "response"
  <2>1. s.read >= RespChunks
    BY <1>7, <1>1, <1>0 DEF SendWant
  <2>2. wire.recv > 0
    BY <2>1, <1>1, ChunksAssumption
  <2>3. response # NoResponse
    BY <2>2 DEF ExchangeInv
  <2>4. Received(s) = response
    BY <2>1 DEF Received
  <2>5. /\ result' = ClassifyResponse(response)
        /\ caller' = "done"
        /\ io' = "none"
    BY <1>7, <2>4 DEF Resume, ResumeWith
  <2>6. response \in Responses
    BY <2>3 DEF ExchangeInv, TypeOK
  <2>7. ClassifyResponse(response) \in Outcomes
    BY <2>6, NoErrorAssumption
    DEF ClassifyResponse, Outcomes, JsonError, Responses, Bodies
  <2>8. ClassifyResponse(response) # NoResult
    BY DEF ClassifyResponse, NoResult, JsonError
  <2>9. TypeOK'
    BY <1>3, <1>4, <1>6, <2>5, <2>7 DEF TypeOK, Terminal, IoRequests
  <2>. QED
    BY <1>2, <1>3, <1>4, <1>5, <2>3, <2>5, <2>8, <2>9 DEF ExchangeInv
<1>8. CASE SendWant(s) # "response"
  <2>1. /\ io' = SendWant(s)
        /\ result' = result
        /\ caller' = caller
    BY <1>8 DEF Resume, ResumeWith
  <2>2. /\ io' = "write" => s.written < ReqChunks
        /\ io' = "read" => s.written = ReqChunks /\ s.read < RespChunks
        /\ io' \in IoRequests
    BY <2>1, <1>8, <1>1, <1>0 DEF SendWant, IoRequests
  <2>3. result # NoResult => /\ response # NoResponse
                             /\ result = ClassifyResponse(response)
    BY DEF ExchangeInv
  <2>4. result \in Outcomes \cup {NoResult}
    BY DEF ExchangeInv, TypeOK
  <2>5. TypeOK'
    BY <1>2, <1>3, <1>4, <1>6, <2>1, <2>2, <2>4 DEF TypeOK, Terminal
  <2>. QED
    BY <1>2, <1>3, <1>4, <1>5, <2>1, <2>2, <2>3, <2>5 DEF ExchangeInv
<1>. QED
    BY <1>7, <1>8

LEMMA HandleInv == ExchangeInv /\ Handle => ExchangeInv'
<1> SUFFICES ASSUME ExchangeInv, Handle PROVE ExchangeInv'
    OBVIOUS
<1>0. /\ ReqChunks \in Nat /\ RespChunks \in Nat
      /\ send \in [written : 0..ReqChunks, read : 0..RespChunks]
      /\ wire \in [sent : 0..ReqChunks, recv : 0..RespChunks]
    BY ChunksAssumption DEF ExchangeInv, TypeOK
<1>1. arg = NoArg /\ caller = "loop" /\ io \in IoRequests
    BY DEF Handle, ExchangeInv, IoRequests
<1>2. /\ wire.sent = send.written
      /\ wire.recv = send.read
    BY <1>0, <1>1 DEF ExchangeInv, NoArg
<1>3. /\ caller' = caller /\ send' = send
      /\ response' = response /\ result' = result
      /\ io' = "none"
    BY DEF Handle
<1>4. /\ result # NoResult => /\ response # NoResponse
                              /\ result = ClassifyResponse(response)
      /\ response \in Responses \cup {NoResponse}
      /\ result \in Outcomes \cup {NoResult}
    BY DEF ExchangeInv, TypeOK
<1>5. CASE io = "write"
  <2>1. PICK k \in 1..(ReqChunks - send.written) :
          /\ wire' = [wire EXCEPT !.sent = IF @ + k > ReqChunks
                                            THEN ReqChunks ELSE @ + k]
          /\ arg' = [op |-> "write", n |-> k]
    BY <1>5 DEF Handle
  <2>2. send.written + k <= ReqChunks /\ k \in 1..ReqChunks + RespChunks
    BY <1>0
  <2>3. /\ wire'.sent = send.written + k
        /\ wire'.recv = wire.recv
        /\ wire' \in [sent : 0..ReqChunks, recv : 0..RespChunks]
    BY <2>1, <2>2, <1>0, <1>2
  <2>4. arg'.op = "write" /\ arg'.n = k
        /\ arg' \in [op : IoRequests, n : 1..ReqChunks + RespChunks]
    BY <2>1, <2>2 DEF IoRequests
  <2>5. TypeOK'
    BY <1>0, <1>1, <1>3, <1>4, <2>3, <2>4 DEF TypeOK, Terminal
  <2>. QED
    BY <1>2, <1>3, <1>4, <2>3, <2>4, <2>5, <1>0 DEF ExchangeInv
<1>6. CASE io = "read"
  <2>1. PICK k \in 1..(RespChunks - wire.recv) :
          /\ wire' = [wire EXCEPT !.recv = @ + k]
          /\ arg' = [op |-> "read", n |-> k]
    BY <1>6 DEF Handle
  <2>2. response # NoResponse
    BY <1>6 DEF Handle, NoResponse
  <2>3. send.written = ReqChunks
    BY <1>6 DEF ExchangeInv
  <2>4. /\ wire'.recv = send.read + k
        /\ wire'.sent = wire.sent
        /\ wire' \in [sent : 0..ReqChunks, recv : 0..RespChunks]
        /\ k \in 1..ReqChunks + RespChunks
    BY <2>1, <1>0, <1>2
  <2>5. arg'.op = "read" /\ arg'.n = k
        /\ arg' \in [op : IoRequests, n : 1..ReqChunks + RespChunks]
    BY <2>1, <2>4 DEF IoRequests
  <2>6. TypeOK'
    BY <1>0, <1>1, <1>3, <1>4, <2>4, <2>5 DEF TypeOK, Terminal
  <2>. QED
    BY <1>2, <1>3, <1>4, <2>2, <2>3, <2>4, <2>5, <2>6 DEF ExchangeInv
<1>. QED
    BY <1>1, <1>5, <1>6 DEF IoRequests

LEMMA TransportFailInv == ExchangeInv /\ TransportFail => ExchangeInv'
BY DEF ExchangeInv, TypeOK, TransportFail, Terminal, IoRequests

LEMMA ServeInv == ExchangeInv /\ Serve => ExchangeInv'
<1> SUFFICES ASSUME ExchangeInv, Serve PROVE ExchangeInv'
    OBVIOUS
<1>1. PICK st \in Statuses, b \in Bodies :
        response' = [status |-> st, body |-> b]
    BY DEF Serve
<1>2. response' \in Responses
    BY <1>1 DEF Responses
<1>3. response' # NoResponse
    BY <1>2, ResponseNotPlaceholder
<1>4. response = NoResponse
  <2>1. response \in Responses \cup {NoResponse}
    BY DEF ExchangeInv, TypeOK
  <2>2. response.status = 0
    BY DEF Serve
  <2>3. response \notin Responses
    BY <2>2, StatusesAssumption DEF Responses
  <2>. QED
    BY <2>1, <2>3
<1>5. result = NoResult
    BY <1>4 DEF ExchangeInv
<1>. QED
    BY <1>2, <1>3, <1>5 DEF ExchangeInv, TypeOK, Serve

LEMMA NextInv == ExchangeInv /\ [Next]_vars => ExchangeInv'
<1> SUFFICES ASSUME ExchangeInv, [Next]_vars PROVE ExchangeInv'
    OBVIOUS
<1>1. CASE New BY <1>1, NewInv
<1>2. CASE Resume BY <1>2, ResumeInv
<1>3. CASE Handle BY <1>3, HandleInv
<1>4. CASE TransportFail BY <1>4, TransportFailInv
<1>5. CASE Serve BY <1>5, ServeInv
<1>6. CASE Terminated \/ UNCHANGED vars
    BY <1>6 DEF Terminated, vars, ExchangeInv, TypeOK
<1>. QED
    BY <1>1, <1>2, <1>3, <1>4, <1>5, <1>6 DEF Next

-----------------------------------------------------------------------------
(* The theorems.                                                           *)

\* Every reachable state of the coroutine, its caller, the transport and
\* the server is well typed.
THEOREM TypeCorrect == Spec => []TypeOK
<1>1. Init => ExchangeInv BY InitInv
<1>2. ExchangeInv /\ [Next]_vars => ExchangeInv' BY NextInv
<1>3. ExchangeInv => TypeOK BY DEF ExchangeInv
<1>. QED BY <1>1, <1>2, <1>3, PTL DEF Spec

\* ExchangeInv implies the property ResultFaithful.
LEMMA InvResultFaithful == ExchangeInv => ResultFaithful
<1> SUFFICES ASSUME ExchangeInv, result # NoResult PROVE ResultFaithful
    BY DEF ResultFaithful
<1>1. /\ response # NoResponse
      /\ result = ClassifyResponse(response)
      /\ response \in Responses
    BY DEF ExchangeInv, TypeOK
<1>2. response.status \in Statuses /\ response.body \in Bodies
    BY <1>1 DEF Responses
<1>3. IsSuccess(response.status) <=> Is2xx(response.status)
  <2>1. response.status \in 100..999
    BY <1>2, StatusesAssumption
  <2>. QED
    BY <2>1 DEF IsSuccess, Is2xx
<1>. QED
    BY <1>1, <1>3, NoErrorAssumption
    DEF ResultFaithful, ClassifyResponse, JsonError

\* resume returns an access token only for a 2xx response holding one, a
\* grant error only for a non-2xx response and with the server's code, and
\* a JSON error only for a body that fits neither shape its status calls
\* for (SendAccessTokenRequest::resume, RefreshAccessToken::resume).
THEOREM ResultFaithfulness == Spec => []ResultFaithful
<1>1. Init => ExchangeInv BY InitInv
<1>2. ExchangeInv /\ [Next]_vars => ExchangeInv' BY NextInv
<1>3. ExchangeInv => ResultFaithful BY InvResultFaithful
<1>. QED BY <1>1, <1>2, <1>3, PTL DEF Spec

-----------------------------------------------------------------------------
(* Refinement: the coroutines implement ExchangeProtocol (section 4.5).   *)
(* The strengthening adds what ExchangeInv does not say: before the loop  *)
(* starts, and after the request failed to build, nothing was sent, so    *)
(* the server cannot answer while the protocol is in Init, Built or       *)
(* RequestBuildError.                                                     *)

RefineInv ==
    /\ ExchangeInv
    /\ caller \in {"new", "build_error"} => wire.sent = 0
    /\ caller = "new" => arg = NoArg /\ send.written = 0

LEMMA InitRefineInv == Init => RefineInv
BY InitInv DEF Init, RefineInv

LEMMA NextRefineInv == RefineInv /\ [Next]_vars => RefineInv'
<1> SUFFICES ASSUME RefineInv, [Next]_vars PROVE RefineInv'
    OBVIOUS
<1>1. ExchangeInv'
    BY NextInv DEF RefineInv
<1>2. (caller \in {"new", "build_error"} => wire.sent = 0)'
    BY DEF RefineInv, Next, New, Resume, ResumeWith, Handle, TransportFail,
           Serve, Terminated, vars
<1>3. (caller = "new" => arg = NoArg /\ send.written = 0)'
    BY DEF RefineInv, Next, New, Resume, ResumeWith, Handle, TransportFail,
           Serve, Terminated, vars
<1>. QED
    BY <1>1, <1>2, <1>3 DEF RefineInv

\* The two classifications agree: http's is_success is the 2xx class of
\* section 4.5 on every status the server may send.
LEMMA ClassifyIsExpected ==
    ASSUME NEW r \in Responses
    PROVE  ClassifyResponse(r) = Protocol!Expected(r)
<1>1. r.status \in 100..999
    BY StatusesAssumption DEF Responses
<1>2. IsSuccess(r.status) <=> (200 <= r.status /\ r.status < 300)
    BY <1>1 DEF IsSuccess
<1>. QED
    BY <1>2 DEF ClassifyResponse, Protocol!Expected, JsonError

\* The placeholders of the two modules are the same values.
LEMMA PlaceholdersAgree ==
    /\ NoResponse = Protocol!NoReply
    /\ NoResult = Protocol!NoOutcome
BY DEF NoResponse, Unparseable, Protocol!NoReply, NoResult,
       Protocol!NoOutcome

\* The protocol state of each control point of the example.
LEMMA ProtocolStateCases ==
    ASSUME NEW c, NEW i, NEW a, NEW s
    PROVE  /\ c = "new" => ProtocolState(c, i, a, s) = "Init"
           /\ c = "build_error" => ProtocolState(c, i, a, s) = "RequestBuildError"
           /\ c = "io_error" => ProtocolState(c, i, a, s) = "TransportIoError"
           /\ c = "done" => ProtocolState(c, i, a, s) = "Complete"
           /\ c = "loop" /\ i = "none" /\ a = NoArg /\ s.written = 0 =>
                  ProtocolState(c, i, a, s) = "Built"
           /\ c = "loop" /\ ~(i = "none" /\ a = NoArg /\ s.written = 0) =>
                  ProtocolState(c, i, a, s) = "AwaitingIO"
<1>1. c = "new" => ProtocolState(c, i, a, s) = "Init"
    BY DEF ProtocolState, NoArg
<1>2. c = "build_error" => ProtocolState(c, i, a, s) = "RequestBuildError"
    BY DEF ProtocolState, NoArg
<1>3. c = "io_error" => ProtocolState(c, i, a, s) = "TransportIoError"
    BY DEF ProtocolState, NoArg
<1>4. c = "done" => ProtocolState(c, i, a, s) = "Complete"
    BY DEF ProtocolState, NoArg
<1>5. c = "loop" /\ i = "none" /\ a = NoArg /\ s.written = 0 =>
          ProtocolState(c, i, a, s) = "Built"
    BY DEF ProtocolState, NoArg
<1>6. c = "loop" /\ ~(i = "none" /\ a = NoArg /\ s.written = 0) =>
          ProtocolState(c, i, a, s) = "AwaitingIO"
    BY DEF ProtocolState, NoArg
<1>. QED
    BY <1>1, <1>2, <1>3, <1>4, <1>5, <1>6

\* The abstract state before and after a step.
LEMMA AbsStates ==
    /\ AbsState = ProtocolState(caller, io, arg, send)
    /\ AbsState' = ProtocolState(caller', io', arg', send')
BY DEF AbsState

LEMMA InitRefines == Init => Protocol!Init
<1> SUFFICES ASSUME Init PROVE Protocol!Init
    OBVIOUS
<1>1. AbsState = "Init"
    BY AbsStates, ProtocolStateCases DEF Init
<1>. QED
    BY <1>1, PlaceholdersAgree DEF Init, Protocol!Init

LEMMA StepRefines ==
    RefineInv /\ [Next]_vars => [Protocol!Next]_<<AbsState, response, result>>
<1> SUFFICES ASSUME RefineInv, [Next]_vars
             PROVE  [Protocol!Next]_<<AbsState, response, result>>
    OBVIOUS
<1>0. ExchangeInv /\ TypeOK
    BY DEF RefineInv, ExchangeInv
<1>A. /\ AbsState = ProtocolState(caller, io, arg, send)
      /\ AbsState' = ProtocolState(caller', io', arg', send')
    BY AbsStates
<1>1. CASE New
  <2>1. caller = "new" /\ caller' \in {"loop", "build_error"}
        /\ UNCHANGED <<send, io, arg, wire, response, result>>
    BY <1>1 DEF New
  <2>2. AbsState = "Init"
    BY <2>1, <1>A, ProtocolStateCases
  <2>3. CASE caller' = "build_error"
    BY <2>1, <2>2, <2>3, <1>A, ProtocolStateCases
    DEF Protocol!Next, Protocol!Construct
  <2>4. CASE caller' = "loop"
    <3>1. io = "none" /\ arg = NoArg /\ send.written = 0
      BY <2>1, <1>0 DEF ExchangeInv, RefineInv
    <3>. QED
      BY <2>1, <2>2, <2>4, <3>1, <1>A, ProtocolStateCases
      DEF Protocol!Next, Protocol!Construct
  <2>. QED
    BY <2>1, <2>3, <2>4
<1>2. CASE Resume
  <2> DEFINE s == SendAccount(send, arg)
  <2>1. caller = "loop" /\ io = "none" /\ UNCHANGED <<wire, response>>
    BY <1>2 DEF Resume, ResumeWith
  <2>2. CASE SendWant(s) = "response"
    <3>1. /\ result' = ClassifyResponse(Received(s))
          /\ caller' = "done"
      BY <1>2, <2>2 DEF Resume, ResumeWith
    <3>2. /\ s.written >= ReqChunks /\ s.read >= RespChunks
          /\ s.written = wire.sent /\ s.read = wire.recv
      BY <2>2, <1>0, ChunksAssumption
      DEF SendWant, SendAccount, ExchangeInv, TypeOK, NoArg, IoRequests
    <3>3. wire.recv > 0
      BY <3>2, <1>0, ChunksAssumption DEF TypeOK
    <3>4. response # NoResponse /\ response \in Responses
      BY <3>3, <1>0 DEF ExchangeInv, TypeOK
    <3>5. result' = Protocol!Expected(response)
      BY <3>1, <3>2, <3>4, ClassifyIsExpected DEF Received
    <3>6. send.written > 0 \/ arg # NoArg
      <4>1. CASE arg = NoArg
        <5>1. s.written = send.written
          BY <4>1 DEF SendAccount, NoArg
        <5>. QED
          BY <3>2, <5>1, <1>0, ChunksAssumption DEF TypeOK
      <4>. QED
        BY <4>1
    <3>7. AbsState = "AwaitingIO"
      BY <2>1, <3>6, <1>A, ProtocolStateCases
    <3>8. AbsState' = "Complete"
      BY <3>1, <1>A, ProtocolStateCases
    <3>. QED
      BY <2>1, <3>4, <3>5, <3>7, <3>8, PlaceholdersAgree
      DEF Protocol!Next, Protocol!Complete
  <2>3. CASE SendWant(s) # "response"
    <3>1. io' = SendWant(s) /\ io' # "none" /\ UNCHANGED <<result, caller>>
      BY <1>2, <2>3 DEF Resume, ResumeWith, SendWant
    <3>2. AbsState' = "AwaitingIO"
      BY <2>1, <3>1, <1>A, ProtocolStateCases
    <3>3. AbsState \in {"Built", "AwaitingIO"}
      BY <2>1, <1>A, ProtocolStateCases
    <3>. QED
      BY <2>1, <3>1, <3>2, <3>3 DEF Protocol!Next, Protocol!Suspend
  <2>. QED BY <2>2, <2>3
<1>3. CASE Handle
  <2>1. caller = "loop" /\ io \in IoRequests /\ io' = "none"
        /\ UNCHANGED <<caller, response, result>>
    BY <1>3 DEF Handle
  <2>2. arg' # NoArg
    BY <1>3 DEF Handle, NoArg
  <2>3. io # "none"
    BY <2>1 DEF IoRequests
  <2>4. AbsState = "AwaitingIO" /\ AbsState' = "AwaitingIO"
    BY <2>1, <2>2, <2>3, <1>A, ProtocolStateCases
  <2>. QED
    BY <2>1, <2>4
<1>4. CASE TransportFail
  <2>1. caller = "loop" /\ io \in IoRequests /\ caller' = "io_error"
        /\ UNCHANGED <<response, result>>
    BY <1>4 DEF TransportFail
  <2>2. io # "none"
    BY <2>1 DEF IoRequests
  <2>3. AbsState = "AwaitingIO" /\ AbsState' = "TransportIoError"
    BY <2>1, <2>2, <1>A, ProtocolStateCases
  <2>. QED
    BY <2>1, <2>3 DEF Protocol!Next, Protocol!Abort
<1>5. CASE Serve
  <2>1. PICK st \in Statuses, b \in Bodies :
          response' = [status |-> st, body |-> b]
    BY <1>5 DEF Serve
  <2>2. /\ wire.sent = ReqChunks /\ response.status = 0
        /\ UNCHANGED <<caller, send, io, arg, result>>
    BY <1>5 DEF Serve
  <2>3. response = NoResponse
    BY <2>2, <1>0, StatusesAssumption DEF TypeOK, Responses
  <2>4. caller \notin {"new", "build_error"}
    BY <2>2, ChunksAssumption DEF RefineInv
  <2>5. ~(io = "none" /\ arg = NoArg /\ send.written = 0)
    <3>1. send.written = 0 /\ arg = NoArg => wire.sent = 0
      BY <1>0 DEF ExchangeInv, NoArg
    <3>. QED
      BY <2>2, <3>1, ChunksAssumption
  <2>6. AbsState \notin {"Init", "Built", "RequestBuildError"}
    <3>1. caller \in {"loop", "done", "io_error"}
      BY <2>4, <1>0 DEF TypeOK, Terminal
    <3>. QED
      BY <2>5, <3>1, <1>A, ProtocolStateCases
  <2>7. AbsState' = AbsState
    BY <2>2, <1>A
  <2>8. b \in Protocol!Bodies
    BY DEF Bodies, Protocol!Bodies
  <2>. QED
    BY <2>1, <2>2, <2>3, <2>6, <2>7, <2>8, PlaceholdersAgree
    DEF Protocol!Next, Protocol!Answer
<1>6. CASE Terminated \/ UNCHANGED vars
  <2>1. UNCHANGED vars
    BY <1>6 DEF Terminated
  <2>. QED
    BY <2>1, <1>A DEF vars
<1>. QED
  BY <1>1, <1>2, <1>3, <1>4, <1>5, <1>6 DEF Next

\* SendAccessTokenRequest and RefreshAccessToken, driven by the example's
\* loop, implement the protocol of section 4.5: the request is built or
\* fails before any I/O, resume suspends on I/O until the whole answer is
\* read, and it then completes with the classification of that answer.
THEOREM Refinement == Spec => ImplementsProtocol
<1>1. Init => RefineInv BY InitRefineInv
<1>2. RefineInv /\ [Next]_vars => RefineInv' BY NextRefineInv
<1>3. Spec => []RefineInv BY <1>1, <1>2, PTL DEF Spec
<1>4. Init => Protocol!Init BY InitRefines
<1>5. RefineInv /\ [Next]_vars => [Protocol!Next]_<<AbsState, response, result>>
    BY StepRefines
<1>. QED
    BY <1>3, <1>4, <1>5, PTL DEF Spec, ImplementsProtocol, Protocol!Spec

=============================================================================
