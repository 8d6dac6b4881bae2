------------------------- MODULE TokenExpiryProofs -------------------------
(***************************************************************************)
(* sync_expires_in() keeps expires_in a natural number and never raises   *)
(* it, for every clock bound and every set of lifetimes, whatever the wall *)
(* clock does.  While the wall clock is not set back, a synced expires_in  *)
(* never exceeds the time really left of the token, across saves, loads   *)
(* and repeated syncs.                                                     *)
(***************************************************************************)
EXTENDS TokenExpiry, TLAPS

\* What a held or a stored token keeps of its grant: the presence of
\* expires_in, and an expires_in no larger than the lifetime.
Consistent(tok, g) ==
    /\ (tok.expires_in = NoExpiry) <=> (g.lifetime = NoExpiry)
    /\ tok.expires_in <= g.lifetime

\* What holds while the wall clock is never set back: it shows the real
\* time, issued_at is the real issue time, and SyncedNotOptimistic.
Monotonic ==
    /\ now = real
    /\ held => token.issued_at = grant.at
    /\ stored.saved => stored.token.issued_at = stored.grant.at
    /\ SyncedNotOptimistic

\* The inductive invariant.
ExpiryInv ==
    /\ TypeOK
    /\ now <= real
    /\ held => Consistent(token, grant)
    /\ stored.saved => Consistent(stored.token, stored.grant)
    /\ ~ClockSetBack => Monotonic

LEMMA InitExpiryInv == Init => ExpiryInv
<1> SUFFICES ASSUME Init PROVE ExpiryInv
    OBVIOUS
<1>1. NoToken \in Tokens /\ NoGrant \in Grants
    BY DEF NoToken, NoGrant, Tokens, Grants, NoExpiry
<1>2. TypeOK
  <2>1. now \in 0..MaxTime /\ real \in 0..MaxTime
    BY DEF Init
  <2>4. held \in BOOLEAN
    <3>1. held = FALSE BY DEF Init
    <3>. QED BY <3>1
  <2>5. lastSync \in -1..MaxTime
    BY TimeAssumption DEF Init
  <2>2. token \in Tokens /\ grant \in Grants
    BY <1>1 DEF Init
  <2>3. stored \in [saved : BOOLEAN, token : Tokens, grant : Grants]
    BY <1>1 DEF Init
  <2>. QED
    BY <2>1, <2>2, <2>3, <2>4, <2>5 DEF TypeOK
<1>3. now <= real
    BY <1>2 DEF Init, TypeOK
<1>. QED
    BY <1>2, <1>3 DEF Init, ExpiryInv, Monotonic, SyncedNotOptimistic

\* The arithmetic of one sync: what is left after the subtraction is a
\* natural number, no larger than the lifetime nor than the time left.
LEMMA SyncArithmetic ==
    ASSUME NEW e \in Nat, NEW l \in Int, NEW at \in Nat, NEW t \in Nat,
           e <= l, t >= at
    PROVE  /\ e - MinOf(t - at, e) \in Nat
           /\ e - MinOf(t - at, e) <= l
           /\ e - MinOf(t - at, e)
                <= IF l - (t - at) > 0 THEN l - (t - at) ELSE 0
BY DEF MinOf

\* A token whose issue time is ahead of the clock keeps within its grant.
LEMMA AheadArithmetic ==
    ASSUME NEW e \in Nat \cup {-1}, NEW l \in Int, NEW at \in Nat,
           NEW t \in Nat, e <= l, t < at
    PROVE  e <= IF l - (t - at) > 0 THEN l - (t - at) ELSE 0
OBVIOUS

\* A step that leaves the held token, its grant and the last sync alone
\* keeps SyncedNotOptimistic.
LEMMA SyncedUnchanged ==
    ASSUME SyncedNotOptimistic, held' = held, token' = token,
           grant' = grant, lastSync' = lastSync
    PROVE  SyncedNotOptimistic'
BY DEF SyncedNotOptimistic, TrueRemaining

LEMMA NextExpiryInv == ExpiryInv /\ [Next]_vars => ExpiryInv'
<1> SUFFICES ASSUME ExpiryInv, [Next]_vars PROVE ExpiryInv'
    OBVIOUS
<1>0. /\ TypeOK /\ now <= real
      /\ held => Consistent(token, grant)
      /\ stored.saved => Consistent(stored.token, stored.grant)
      /\ ~ClockSetBack => Monotonic
    BY DEF ExpiryInv
<1>. USE DEF TypeOK, Tokens, Grants, NoExpiry
<1>1. CASE Receive
  <2>1. PICK e \in Lifetimes \cup {NoExpiry} :
               /\ token' = [expires_in |-> e, issued_at |-> now]
               /\ grant' = [at |-> real, lifetime |-> e]
    BY <1>1 DEF Receive
  <2>2. e \in Nat \cup {-1}
    BY LifetimesAssumption
  <2>3. TypeOK' /\ now' <= real'
    BY <1>0, <1>1, <2>1, <2>2, TimeAssumption DEF Receive
  <2>4. Consistent(token, grant)'
    BY <2>1, <2>2 DEF Consistent
  <2>5. (~ClockSetBack => Monotonic)'
    BY <1>0, <1>1, <2>1 DEF Receive, Monotonic, SyncedNotOptimistic
  <2>6. (stored.saved => Consistent(stored.token, stored.grant))'
    BY <1>0, <1>1 DEF Receive
  <2>. QED
    BY <2>3, <2>4, <2>5, <2>6 DEF ExpiryInv
<1>2. CASE SyncExpiresIn
  <2>0. /\ held /\ UNCHANGED <<now, real, held, stored, grant>>
        /\ lastSync' = real
    BY <1>2 DEF SyncExpiresIn
  <2>1. Consistent(token, grant)
    BY <1>0, <2>0
  <2>2. /\ (stored.saved => Consistent(stored.token, stored.grant))'
        /\ now' <= real'
    BY <1>0, <2>0
  <2>3. CASE token.expires_in # NoExpiry /\ now >= token.issued_at
    <3>1. token.expires_in \in Nat /\ token.expires_in <= grant.lifetime
          /\ grant.lifetime \in Int
          /\ token.issued_at \in Nat /\ now \in Nat
      BY <1>0, <2>1, <2>3 DEF Consistent
    <3>2. token' = [token EXCEPT !.expires_in =
                      token.expires_in
                      - MinOf(now - token.issued_at, token.expires_in)]
      BY <1>2, <2>3 DEF SyncExpiresIn
    <3>3. /\ token.expires_in
                - MinOf(now - token.issued_at, token.expires_in) \in Nat
          /\ token.expires_in
                - MinOf(now - token.issued_at, token.expires_in)
                <= grant.lifetime
          /\ token.expires_in
                - MinOf(now - token.issued_at, token.expires_in)
                <= IF grant.lifetime - (now - token.issued_at) > 0
                   THEN grant.lifetime - (now - token.issued_at) ELSE 0
      BY <2>3, <3>1, SyncArithmetic
    <3>4. TypeOK'
      BY <1>0, <2>0, <3>2, <3>3
    <3>5. Consistent(token, grant)'
      BY <2>0, <3>1, <3>2, <3>3 DEF Consistent
    <3>6. (~ClockSetBack => Monotonic)'
      <4>1. SUFFICES ASSUME ~ClockSetBack PROVE Monotonic'
        OBVIOUS
      <4>2. now = real /\ token.issued_at = grant.at
        BY <1>0, <2>0, <4>1 DEF Monotonic
      <4>3. token'.expires_in <= TrueRemaining(real)
        BY <3>2, <3>3, <4>2 DEF TrueRemaining
      <4>4. token'.issued_at = grant'.at
        BY <1>0, <2>0, <3>2, <4>2
      <4>5. SyncedNotOptimistic'
        BY <2>0, <4>3 DEF SyncedNotOptimistic, TrueRemaining
      <4>6. (stored.saved => stored.token.issued_at = stored.grant.at)'
        BY <1>0, <2>0, <4>1 DEF Monotonic
      <4>. QED
        BY <2>0, <4>2, <4>4, <4>5, <4>6 DEF Monotonic
    <3>. QED
      BY <2>0, <2>2, <3>4, <3>5, <3>6 DEF ExpiryInv
  <2>4. CASE ~(token.expires_in # NoExpiry /\ now >= token.issued_at)
    <3>1. token' = token
      BY <1>2, <2>4 DEF SyncExpiresIn
    <3>2. TypeOK'
      BY <1>0, <2>0, <3>1
    <3>3. (~ClockSetBack => Monotonic)'
      <4>1. SUFFICES ASSUME ~ClockSetBack PROVE Monotonic'
        OBVIOUS
      <4>2. now = real /\ token.issued_at = grant.at
        BY <1>0, <2>0, <4>1 DEF Monotonic
      <4>3. token.expires_in <= TrueRemaining(real)
        <5>1. CASE token.expires_in = NoExpiry
          BY <1>0, <5>1 DEF TrueRemaining
        <5>2. CASE now < token.issued_at
          <6>1. /\ token.expires_in \in Nat \cup {-1}
                /\ grant.lifetime \in Int /\ token.issued_at \in Nat
                /\ now \in Nat /\ token.expires_in <= grant.lifetime
            BY <1>0, <2>0, <2>1 DEF Consistent
          <6>2. token.expires_in
                  <= IF grant.lifetime - (now - token.issued_at) > 0
                     THEN grant.lifetime - (now - token.issued_at) ELSE 0
            BY <5>2, <6>1, AheadArithmetic
          <6>3. grant.lifetime - (now - token.issued_at)
                  = grant.lifetime - (real - grant.at)
            BY <4>2
          <6>. QED BY <6>2, <6>3 DEF TrueRemaining
        <5>3. token.expires_in = NoExpiry \/ now < token.issued_at
          BY <1>0, <2>0, <2>4
        <5>. QED BY <5>1, <5>2, <5>3
      <4>4. SyncedNotOptimistic'
        BY <2>0, <3>1, <4>3 DEF SyncedNotOptimistic, TrueRemaining
      <4>5. (stored.saved => stored.token.issued_at = stored.grant.at)'
        BY <1>0, <2>0, <4>1 DEF Monotonic
      <4>. QED
        BY <2>0, <3>1, <4>2, <4>4, <4>5 DEF Monotonic
    <3>. QED
      BY <2>0, <2>1, <2>2, <3>1, <3>2, <3>3 DEF ExpiryInv
  <2>. QED BY <2>3, <2>4
<1>3. CASE Save
  <2>1. (~ClockSetBack => Monotonic)'
    <3>1. SUFFICES ASSUME ~ClockSetBack PROVE Monotonic'
      OBVIOUS
    <3>2. Monotonic
      BY <1>0, <3>1
    <3>3. SyncedNotOptimistic'
      BY <3>2, <1>3, SyncedUnchanged DEF Save, Monotonic
    <3>. QED
      BY <1>3, <3>2, <3>3 DEF Save, Monotonic
  <2>2. TypeOK'
    BY <1>0, <1>3 DEF Save
  <2>. QED
    BY <1>0, <1>3, <2>1, <2>2 DEF Save, ExpiryInv
<1>4. CASE Load
  <2>1. TypeOK'
    BY <1>0, <1>4, TimeAssumption DEF Load
  <2>2. held' /\ Consistent(token, grant)'
    BY <1>0, <1>4 DEF Load, Consistent
  <2>3. (~ClockSetBack => Monotonic)'
    BY <1>0, <1>4 DEF Load, Monotonic, SyncedNotOptimistic
  <2>. QED
    BY <1>0, <1>4, <2>1, <2>2, <2>3 DEF Load, ExpiryInv
<1>5. CASE Tick
  <2>1. (~ClockSetBack => Monotonic)'
    <3>1. SUFFICES ASSUME ~ClockSetBack PROVE Monotonic'
      OBVIOUS
    <3>2. Monotonic
      BY <1>0, <3>1
    <3>3. SyncedNotOptimistic'
      BY <3>2, <1>5, SyncedUnchanged DEF Tick, Monotonic
    <3>. QED
      BY <1>5, <3>2, <3>3 DEF Tick, Monotonic
  <2>2. TypeOK' /\ now' <= real'
    BY <1>0, <1>5, TimeAssumption DEF Tick
  <2>. QED
    BY <1>0, <1>5, <2>1, <2>2 DEF Tick, ExpiryInv
<1>6. CASE ClockBack
  <2>1. ClockSetBack
    BY <1>6 DEF ClockBack
  <2>2. TypeOK' /\ now' <= real'
    BY <1>0, <1>6, TimeAssumption DEF ClockBack
  <2>. QED
    BY <1>0, <1>6, <2>1, <2>2 DEF ClockBack, ExpiryInv
<1>7. CASE UNCHANGED vars
  BY <1>0, <1>7 DEF vars, ExpiryInv, Monotonic, SyncedNotOptimistic,
                    TrueRemaining, Consistent
<1>. QED
  BY <1>1, <1>2, <1>3, <1>4, <1>5, <1>6, <1>7 DEF Next

\* sync_expires_in() and the derived (de)serialization keep the params
\* well typed whatever the wall clock does: expires_in is never driven
\* below zero (no usize underflow).
THEOREM ExpiryTypeCorrect == Spec => []TypeOK
<1>1. Init => ExpiryInv BY InitExpiryInv
<1>2. ExpiryInv /\ [Next]_vars => ExpiryInv' BY NextExpiryInv
<1>3. ExpiryInv => TypeOK BY DEF ExpiryInv
<1>. QED BY <1>1, <1>2, <1>3, PTL DEF Spec

\* While the wall clock is never set back, and however often the caller
\* syncs, saves and reloads, a synced expires_in never exceeds the time
\* really left of the token: the caller never trusts an expired token.
THEOREM SyncNeverOptimistic ==
    ASSUME ~ClockSetBack
    PROVE  Spec => []SyncedNotOptimistic
<1>1. Init => ExpiryInv BY InitExpiryInv
<1>2. ExpiryInv /\ [Next]_vars => ExpiryInv' BY NextExpiryInv
<1>3. ExpiryInv => SyncedNotOptimistic BY DEF ExpiryInv, Monotonic
<1>. QED BY <1>1, <1>2, <1>3, PTL DEF Spec

-----------------------------------------------------------------------------
(* A sync never raises expires_in.                                         *)

\* The step of SyncNonIncreasing, as an action.
SyncStep ==
    SyncExpiresIn =>
        /\ (token'.expires_in = NoExpiry) = (token.expires_in = NoExpiry)
        /\ token'.expires_in <= token.expires_in

\* The floored subtraction of a non-negative elapsed time keeps a present
\* expires_in present and never raises it.
LEMMA FlooredSubtraction ==
    ASSUME NEW e \in Nat, NEW d \in Nat
    PROVE  /\ e - MinOf(d, e) \in 0..e
           /\ e - MinOf(d, e) # NoExpiry
BY DEF MinOf, NoExpiry

LEMMA TypeSyncStep == TypeOK => SyncStep
<1> SUFFICES ASSUME TypeOK, SyncExpiresIn
             PROVE  /\ (token'.expires_in = NoExpiry) = (token.expires_in = NoExpiry)
                    /\ token'.expires_in <= token.expires_in
    BY DEF SyncStep
<1>1. CASE token.expires_in # NoExpiry /\ now >= token.issued_at
  <2>1. token.expires_in \in Nat /\ now - token.issued_at \in Nat
    BY <1>1, TimeAssumption DEF TypeOK, Tokens, NoExpiry
  <2>2. token'.expires_in = token.expires_in
                             - MinOf(now - token.issued_at, token.expires_in)
    BY <1>1 DEF SyncExpiresIn
  <2>3. /\ token'.expires_in \in 0..token.expires_in
        /\ token'.expires_in # NoExpiry
    BY <2>1, <2>2, FlooredSubtraction
  <2>. QED
    BY <1>1, <2>1, <2>3
<1>2. CASE ~(token.expires_in # NoExpiry /\ now >= token.issued_at)
  <2>1. token' = token
    BY <1>2 DEF SyncExpiresIn
  <2>2. token.expires_in \in Int
    BY DEF TypeOK, Tokens, NoExpiry
  <2>. QED
    BY <2>1, <2>2
<1>. QED
    BY <1>1, <1>2

\* sync_expires_in() never raises expires_in, never sets an absent one and
\* never clears a present one, for every clock bound and set of lifetimes
\* (issue-access-token.rs, sync_expires_in).
THEOREM SyncMonotone == Spec => SyncNonIncreasing
<1>1. Spec => []TypeOK BY ExpiryTypeCorrect
<1>2. TypeOK => SyncStep BY TypeSyncStep
<1>. QED BY <1>1, <1>2, PTL DEF Spec, SyncNonIncreasing, SyncStep

=============================================================================
