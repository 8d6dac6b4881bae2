---------------------------- MODULE TokenExpiry ----------------------------
(***************************************************************************)
(* Expiry tracking of IssueAccessTokenSuccessParams (issue-access-token.rs)*)
(* A success response is deserialized with issued_at defaulting to         *)
(* SystemTime::now(); sync_expires_in() lowers expires_in by the whole     *)
(* seconds elapsed since issued_at, floored at zero, and does nothing      *)
(* without expires_in or when issued_at is ahead of the clock.  The        *)
(* parameters serialize to JSON with issued_at (the derived Serialize),    *)
(* and a stored copy deserializes back with its own issued_at.  The wall   *)
(* clock counts whole seconds; it advances and, when ClockSetBack, may be  *)
(* set back.                                                               *)
(*                                                                         *)
(* The history variable `real` is the time that really passed, in whole    *)
(* seconds: it advances with the wall clock and is not set back.  The      *)
(* history variable `grant` remembers when, in real time, the token now    *)
(* held was issued and the lifetime it was given, to measure the time      *)
(* really left of it.                                                      *)
(***************************************************************************)
EXTENDS Integers

CONSTANTS
    MaxTime,     \* the last second of wall-clock time the model explores
    Lifetimes,   \* the expires_in values the server may send
    ClockSetBack \* whether the wall clock may be set back

ASSUME TimeAssumption == MaxTime \in Nat
ASSUME LifetimesAssumption == Lifetimes \subseteq Nat
ASSUME ClockAssumption == ClockSetBack \in BOOLEAN

\* expires_in: None, encoded as -1.
NoExpiry == -1

VARIABLES
    now,      \* SystemTime::now(), in seconds
    real,     \* history: the real time, in seconds
    held,     \* the caller holds success params
    token,    \* those params: expires_in and issued_at
    stored,   \* the JSON string the caller saved (with its history), if any
    grant,    \* history: issue time and lifetime of the held token
    lastSync  \* history: real time of the last sync of the held token,
              \* -1: none

vars == <<now, real, held, token, stored, grant, lastSync>>

Tokens == [expires_in : Nat \cup {NoExpiry}, issued_at : Nat]

Grants == [at : Nat, lifetime : Nat \cup {NoExpiry}]

NoToken == [expires_in |-> NoExpiry, issued_at |-> 0]

NoGrant == [at |-> 0, lifetime |-> NoExpiry]

MinOf(a, b) == IF a <= b THEN a ELSE b

Init ==
    /\ now \in 0..MaxTime
    /\ real = now
    /\ held = FALSE
    /\ token = NoToken
    /\ stored = [saved |-> FALSE, token |-> NoToken, grant |-> NoGrant]
    /\ grant = NoGrant
    /\ lastSync = -1

\* IssueAccessTokenSuccessParams::try_from(bytes) on a fresh token
\* response: expires_in as the server sent it, issued_at = now by the
\* serde default (the response carries no issued_at).
Receive ==
    /\ \E e \in Lifetimes \cup {NoExpiry} :
         /\ token' = [expires_in |-> e, issued_at |-> now]
         /\ grant' = [at |-> real, lifetime |-> e]
    /\ held' = TRUE
    /\ lastSync' = -1
    /\ UNCHANGED <<now, real, stored>>

\* Mutant: the elapsed time is subtracted without elapsed.min(*expires_in).
SyncExpiresInUnfloored ==
    /\ held
    /\ token' = IF token.expires_in # NoExpiry /\ now >= token.issued_at
                  THEN [token EXCEPT !.expires_in = @ - (now - token.issued_at)]
                  ELSE token
    /\ lastSync' = real
    /\ UNCHANGED <<now, real, held, stored, grant>>

\* Mutant: no early return when issued_at is ahead of the clock; the
\* elapsed time is taken as the signed difference.
SyncExpiresInIgnoringSkew ==
    /\ held
    /\ token' = IF token.expires_in # NoExpiry
                  THEN [token EXCEPT !.expires_in =
                                      @ - MinOf(now - token.issued_at, @)]
                  ELSE token
    /\ lastSync' = real
    /\ UNCHANGED <<now, real, held, stored, grant>>

\* sync_expires_in(): return without expires_in; return when
\* issued_at.elapsed() fails (issued_at later than now); otherwise
\* *expires_in -= elapsed.min(*expires_in).
SyncExpiresIn ==
    /\ held
    /\ token' = IF token.expires_in # NoExpiry /\ now >= token.issued_at
                  THEN [token EXCEPT !.expires_in =
                                      @ - MinOf(now - token.issued_at, @)]
                  ELSE token
    /\ lastSync' = real
    /\ UNCHANGED <<now, real, held, stored, grant>>

\* String::try_from(&params): the JSON keeps expires_in and issued_at.
Save ==
    /\ held
    /\ stored' = [saved |-> TRUE, token |-> token, grant |-> grant]
    /\ UNCHANGED <<now, real, held, token, grant, lastSync>>

\* Mutant: issued_at is not persisted, so loading takes the serde default.
LoadResettingIssuedAt ==
    /\ stored.saved
    /\ token' = [stored.token EXCEPT !.issued_at = now]
    /\ grant' = stored.grant
    /\ held' = TRUE
    /\ lastSync' = -1
    /\ UNCHANGED <<now, real, stored>>

\* IssueAccessTokenSuccessParams::try_from(bytes) on the saved JSON: the
\* issued_at member is present, so the serde default is not used.
Load ==
    /\ stored.saved
    /\ token' = stored.token
    /\ grant' = stored.grant
    /\ held' = TRUE
    /\ lastSync' = -1
    /\ UNCHANGED <<now, real, stored>>

\* A second passes, and the wall clock advances with it.
Tick ==
    /\ real < MaxTime
    /\ real' = real + 1
    /\ now' = now + 1
    /\ UNCHANGED <<held, token, stored, grant, lastSync>>

\* The wall clock is set back by a second (SystemTime is not monotonic).
ClockBack ==
    /\ ClockSetBack
    /\ now > 0
    /\ now' = now - 1
    /\ UNCHANGED <<real, held, token, stored, grant, lastSync>>

Next == Receive \/ SyncExpiresIn \/ Save \/ Load \/ Tick \/ ClockBack

Spec == Init /\ [][Next]_vars

-----------------------------------------------------------------------------
(* Properties.                                                             *)

TypeOK ==
    /\ now \in 0..MaxTime
    /\ real \in 0..MaxTime
    /\ held \in BOOLEAN
    /\ token \in Tokens
    /\ stored \in [saved : BOOLEAN, token : Tokens, grant : Grants]
    /\ grant \in Grants
    /\ lastSync \in -1..MaxTime

\* The lifetime the server granted that is really left at real time t.
TrueRemaining(t) ==
    IF grant.lifetime - (t - grant.at) > 0
    THEN grant.lifetime - (t - grant.at) ELSE 0

\* After sync_expires_in() has run, expires_in never promises more than
\* what is really left of the token at that time, whatever saves, loads
\* and repeated syncs came before: a caller trusting expires_in never uses
\* an expired token.  Time is measured on the real clock, not on the wall
\* clock that sync_expires_in() reads.
SyncedNotOptimistic ==
    (held /\ lastSync # -1) =>
        token.expires_in <= TrueRemaining(lastSync)

\* Section 3 of the specification: expires_in, once set, is monotonically
\* non-increasing under sync_expires_in.  A sync never raises it, never
\* sets an absent one and never clears a present one, whatever the clock
\* did since issued_at (set back included) and whatever syncs, saves and
\* loads came before.
SyncNonIncreasing ==
    [][SyncExpiresIn =>
           /\ (token'.expires_in = NoExpiry) = (token.expires_in = NoExpiry)
           /\ token'.expires_in <= token.expires_in]_vars

\* Section 8 of the specification: calling sync_expires_in() twice in
\* immediate succession leaves expires_in unchanged on the second call.
SyncIdempotent ==
    [][(SyncExpiresIn /\ held /\ lastSync = real) =>
           token'.expires_in = token.expires_in]_vars

=============================================================================
