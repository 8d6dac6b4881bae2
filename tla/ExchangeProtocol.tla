-------------------------- MODULE ExchangeProtocol --------------------------
(***************************************************************************)
(* What a token-endpoint coroutine promises (specification, sections 4.5, *)
(* 7 and 9): a state machine Built | AwaitingIO | Complete driven by       *)
(* resume.  Building the request fails before any I/O or yields Built; the *)
(* first resume always suspends on an I/O request; a terminal result comes *)
(* only from AwaitingIO, after the server has answered, and is the         *)
(* two-level classification of that answer (status class, then JSON      *)
(* shape); a transport error ends the flow.  Complete is final.           *)
(***************************************************************************)
EXTENDS Integers

CONSTANTS Statuses, ErrorCodes, NoError

VARIABLES
    state,   \* "Init", "Built", "AwaitingIO", "Complete" or a failure
    reply,   \* the token endpoint's answer (status 0: none yet)
    outcome  \* the terminal result

Bodies == [token : BOOLEAN, error : ErrorCodes \cup {NoError}]

NoReply == [status |-> 0, body |-> [token |-> FALSE, error |-> NoError]]

NoOutcome == [kind |-> "none", error |-> NoError]

\* Section 4.5: a 2xx answer is read as success parameters, any other as
\* error parameters; a body that does not fit is a parse error, distinct
\* from an error the server reports.
Expected(r) ==
    CASE 200 <= r.status /\ r.status < 300 /\ r.body.token ->
             [kind |-> "AccessToken", error |-> NoError]
      [] ~(200 <= r.status /\ r.status < 300) /\ r.body.error # NoError ->
             [kind |-> "ErrorParams", error |-> r.body.error]
      [] OTHER -> [kind |-> "JsonError", error |-> NoError]

Init ==
    /\ state = "Init"
    /\ reply = NoReply
    /\ outcome = NoOutcome

\* Construction: RequestBuildError fails fast, before any I/O.
Construct ==
    /\ state = "Init"
    /\ state' \in {"Built", "RequestBuildError"}
    /\ UNCHANGED <<reply, outcome>>

\* resume returns an I/O request and suspends.
Suspend ==
    /\ state \in {"Built", "AwaitingIO"}
    /\ state' = "AwaitingIO"
    /\ UNCHANGED <<reply, outcome>>

\* The server answers a request that has been (at least partly) sent.
Answer ==
    /\ state \notin {"Init", "Built", "RequestBuildError"}
    /\ reply = NoReply
    /\ \E st \in Statuses, b \in Bodies : reply' = [status |-> st, body |-> b]
    /\ UNCHANGED <<state, outcome>>

\* resume returns the terminal result.
Complete ==
    /\ state = "AwaitingIO"
    /\ reply # NoReply
    /\ state' = "Complete"
    /\ outcome' = Expected(reply)
    /\ UNCHANGED reply

\* The transport reports an error; the flow ends.
Abort ==
    /\ state = "AwaitingIO"
    /\ state' = "TransportIoError"
    /\ UNCHANGED <<reply, outcome>>

Next == Construct \/ Suspend \/ Answer \/ Complete \/ Abort

Spec == Init /\ [][Next]_<<state, reply, outcome>>

=============================================================================
