-------------------------------- MODULE Pkce --------------------------------
(***************************************************************************)
(* The PKCE code verifier and its challenge (authorization-code-grant/     *)
(* pkce.rs).  A verifier and a challenge are abstracted to their length: *)
(* every byte new() and default() draw comes from the 66-byte UNRESERVED  *)
(* alphabet, from_str() rejects any other, and base64url is unreserved,   *)
(* so no property here depends on which bytes are drawn, only on how      *)
(* many.  The caller builds a PkceCodeChallenge (method and verifier),    *)
(* replaces its verifier with new(size), default() or from_str(s), sets   *)
(* its method, and encodes it.  from_str's Err leaves the state as it was.*)
(***************************************************************************)
EXTENDS Integers

CONSTANT MaxParsed   \* the longest string the caller hands to from_str

ASSUME MaxParsedAssumption == MaxParsed \in Nat

VARIABLES
    verifier,   \* PkceCodeChallenge.verifier: its length in bytes
    method,     \* PkceCodeChallenge.method
    origin,     \* history: how the verifier was built
    requested   \* history: the size given to new(), -1 otherwise

vars == <<verifier, method, origin, requested>>

\* UNRESERVED.len(): ALPHA / DIGIT / "-" / "." / "_" / "~".
UnreservedLen == 66

\* The sizes new() can be given (u8).
U8 == 0..255

\* Length in bytes of a SHA-256 digest.
DigestLen == 32

Methods == {"plain", "S256"}

MinOf(a, b) == IF a <= b THEN a ELSE b

MaxOf(a, b) == IF a >= b THEN a ELSE b

\* Mutant: the lower bound of the clamp is dropped.
ClampUnbounded(size) == MinOf(size, 128)

\* size.max(43).min(128).
Clamp(size) == MinOf(MaxOf(size, 43), 128)

\* SliceRandom::choose_multiple(amount) samples without replacement, so it
\* yields amount.min(len) distinct elements.
ChooseMultipleLen(amount) == MinOf(amount, UnreservedLen)

\* BASE64_URL_SAFE_NO_PAD: 4 characters per 3 bytes, the last group cut
\* short instead of padded; its alphabet is unreserved.
Base64NoPadLen(n) == (4 * n + 2) \div 3

\* PkceCodeChallenge::encode(): plain is the verifier itself, S256 the
\* unpadded base64url of its SHA-256 digest.
Encode(m, v) ==
    IF m = "plain" THEN v ELSE Base64NoPadLen(DigestLen)

\* PkceCodeChallenge::default(): Sha256 and PkceCodeVerifier::default().
Init ==
    /\ verifier = 43
    /\ method = "S256"
    /\ origin = "default"
    /\ requested = -1

\* PkceCodeVerifier::new(size).
New(size) ==
    /\ verifier' = ChooseMultipleLen(Clamp(size))
    /\ origin' = "new"
    /\ requested' = size
    /\ UNCHANGED method

\* PkceCodeVerifier::default(): choose_multiple_array into [u8; 43].
Default ==
    /\ verifier' = 43
    /\ origin' = "default"
    /\ requested' = -1
    /\ UNCHANGED method

\* PkceCodeVerifier::from_str(s) on a string of unreserved bytes: Ok with
\* the bytes of s, whatever their number.
FromStr(len) ==
    /\ verifier' = len
    /\ origin' = "parse"
    /\ requested' = -1
    /\ UNCHANGED method

\* The caller sets the pub field PkceCodeChallenge.method.
SetMethod(m) ==
    /\ method' = m
    /\ UNCHANGED <<verifier, origin, requested>>

Next ==
    \/ \E size \in U8 : New(size)
    \/ Default
    \/ \E len \in 0..MaxParsed : FromStr(len)
    \/ \E m \in Methods : SetMethod(m)

Spec == Init /\ [][Next]_vars

-----------------------------------------------------------------------------
(* Properties.                                                             *)

TypeOK ==
    /\ verifier \in Nat
    /\ method \in Methods
    /\ origin \in {"new", "default", "parse"}
    /\ requested \in U8 \cup {-1}

\* RFC 7636, sections 4.1 and 4.2: a verifier made by new() or default(),
\* and the challenge encode() sends for it with either method, are 43 to
\* 128 characters long, whatever size the caller asked for.
GeneratedWithinRfc ==
    origin \in {"new", "default"} =>
        /\ verifier \in 43..128
        /\ Encode(method, verifier) \in 43..128

\* Section 8 of the specification: new(size) for a size in [0, 255] yields
\* a verifier of exactly size clamped into [43, 128].
NewHonoursSize ==
    origin = "new" => verifier = Clamp(requested)

\* Section 3 of the specification: every PkceCodeVerifier is 43 to 128
\* bytes long, however it was built.
HeldVerifierWithinRfc ==
    verifier \in 43..128

=============================================================================
