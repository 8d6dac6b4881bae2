----------------------------- MODULE PkceProofs -----------------------------
(***************************************************************************)
(* A verifier that PkceCodeVerifier::new or ::default built, and the       *)
(* challenge encode() derives from it, stay within RFC 7636's 43..128     *)
(* characters for every size a caller can pass and every method, however  *)
(* long the strings handed to from_str are.                               *)
(***************************************************************************)
EXTENDS Pkce, TLAPS

\* The inductive invariant: the type of the state and GeneratedWithinRfc.
PkceInv == TypeOK /\ GeneratedWithinRfc

\* The clamp of new() and the sampling of choose_multiple give 43..66.
LEMMA NewLength ==
    ASSUME NEW size \in U8
    PROVE  ChooseMultipleLen(Clamp(size)) \in 43..66
BY DEF ChooseMultipleLen, Clamp, MinOf, MaxOf, UnreservedLen, U8

\* The S256 challenge is 43 characters long.
LEMMA DigestChallengeLength == Base64NoPadLen(DigestLen) = 43
BY DEF Base64NoPadLen, DigestLen

LEMMA InitPkceInv == Init => PkceInv
BY DigestChallengeLength
DEF Init, PkceInv, TypeOK, GeneratedWithinRfc, Encode, Methods, U8

LEMMA NextPkceInv == PkceInv /\ [Next]_vars => PkceInv'
<1> SUFFICES ASSUME PkceInv, [Next]_vars PROVE PkceInv'
    OBVIOUS
<1>1. method \in Methods
    BY DEF PkceInv, TypeOK
<1>2. ASSUME NEW v \in 43..128, NEW m \in Methods
      PROVE  Encode(m, v) \in 43..128
    BY DigestChallengeLength DEF Encode
<1>3. CASE \E size \in U8 : New(size)
  <2>1. PICK size \in U8 : New(size)
    BY <1>3
  <2>2. verifier' \in 43..66
    BY <2>1, NewLength DEF New
  <2>. QED
    BY <1>1, <1>2, <2>1, <2>2 DEF New, PkceInv, TypeOK, GeneratedWithinRfc
<1>4. CASE Default
    BY <1>1, <1>2, <1>4 DEF Default, PkceInv, TypeOK, GeneratedWithinRfc, U8
<1>5. CASE \E len \in 0..MaxParsed : FromStr(len)
    BY <1>5, MaxParsedAssumption DEF FromStr, PkceInv, TypeOK, GeneratedWithinRfc
<1>6. CASE \E m \in Methods : SetMethod(m)
    BY <1>2, <1>6 DEF SetMethod, PkceInv, TypeOK, GeneratedWithinRfc
<1>7. CASE UNCHANGED vars
    BY <1>7 DEF vars, PkceInv, TypeOK, GeneratedWithinRfc
<1>. QED
    BY <1>3, <1>4, <1>5, <1>6, <1>7 DEF Next

\* Whatever sizes the caller passes to new(), whatever it parses and
\* whichever method it sets, a verifier built by new() or default() and
\* the challenge encode() sends for it are 43 to 128 characters long.
THEOREM GeneratedVerifierWithinRfc == Spec => []GeneratedWithinRfc
<1>1. Init => PkceInv BY InitPkceInv
<1>2. PkceInv /\ [Next]_vars => PkceInv' BY NextPkceInv
<1>3. PkceInv => GeneratedWithinRfc BY DEF PkceInv
<1>. QED BY <1>1, <1>2, <1>3, PTL DEF Spec

=============================================================================
