-------------------------- MODULE OpenBaoKMSProofs --------------------------
(***************************************************************************)
(* Proofs about OpenBaoKMS, for any number of callers and tokens, any      *)
(* leases, any window and round trips of any length.                       *)
(***************************************************************************)
EXTENDS OpenBaoKMS, TLAPS

(* The inductive invariant: besides the types, what the client's idea of   *)
(* the end of a lease is made of, who holds the lock, and which tokens the  *)
(* cache and the callers can have.                                         *)
IInv ==
    /\ TypeOK
    /\ LeasesKnown
    /\ LockOwner
    /\ RefusedIsGone
    /\ NewestPending
    /\ LoginOnlyWhenNeeded

(* The initial state satisfies the invariant. *)
LEMMA InitInv == Init => IInv
  BY KmsAssumption DEF Init, IInv, TypeOK, LeasesKnown, LockOwner, RefusedIsGone,
     NewestPending, LoginOnlyWhenNeeded, ExpiryKnown, TokenInHand, Token, None

(* The invariant is preserved when time passes. *)
LEMMA TickInv == ASSUME IInv, Tick PROVE IInv'
  <1>1. TypeOK'
    BY KmsAssumption DEF IInv, TypeOK, Token, None, Tick, server, cached
  <1>2. LeasesKnown'
    <2>1. now' = now + 1 /\ now \in Nat /\ since \in [Callers -> Nat] /\ born \in [Token -> Nat]
          /\ UNCHANGED <<born, lease, delay, token, expiry, pc, tok, since>>
      BY DEF IInv, TypeOK, Tick, server, cached
    <2>2. ExpiryKnown'
      BY <2>1 DEF IInv, LeasesKnown, ExpiryKnown
    <2>3. ASSUME NEW c \in Callers, pc[c] = "issued" PROVE tok[c] # None /\ born[tok[c]] <= now + 1
      <3>1. tok[c] # None /\ born[tok[c]] <= now /\ tok[c] \in Token
        BY <2>3, KmsAssumption DEF IInv, TypeOK, LeasesKnown, Token, None
      <3>2. born[tok[c]] \in Nat
        BY <2>1, <3>1
      <3> QED BY <2>1, <3>1, <3>2
    <2>4. ASSUME NEW c \in Callers, pc[c] = "call" PROVE TokenInHand(c)'
      <3>1. TokenInHand(c) /\ since[c] \in Nat
        BY <2>1, <2>4 DEF IInv, LeasesKnown
      <3>2. since[c] <= now + 1
        BY <2>1, <3>1 DEF TokenInHand
      <3> QED BY <2>1, <3>1, <3>2 DEF TokenInHand
    <2> QED BY <2>1, <2>2, <2>3, <2>4 DEF LeasesKnown
  <1>3. LockOwner'
    BY KmsAssumption DEF IInv, LockOwner, TypeOK, Tick, server, cached
  <1>4. RefusedIsGone'
    BY KmsAssumption DEF IInv, RefusedIsGone, NewestPending, LockOwner, TypeOK, None, Token, Tick,
       server, cached
  <1>5. NewestPending'
    BY KmsAssumption DEF IInv, NewestPending, LockOwner, TypeOK, Token, None, Tick, server,
       cached
  <1>6. LoginOnlyWhenNeeded'
    BY KmsAssumption DEF IInv, LoginOnlyWhenNeeded, LockOwner, Fresh, TypeOK, None, Token, Tick,
       server, cached
  <1> QED
    BY <1>1, <1>2, <1>3, <1>4, <1>5, <1>6 DEF IInv

(* The invariant is preserved when a call begins. *)
LEMMA CallInv == ASSUME IInv, NEW c \in Callers, Call(c) PROVE IInv'
  <1>1. TypeOK'
    BY KmsAssumption DEF IInv, TypeOK, Token, None, Call, server, cached
  <1>2. LeasesKnown'
    BY KmsAssumption DEF IInv, LeasesKnown, ExpiryKnown, TokenInHand, TypeOK, Token, None, Call, server, cached
  <1>3. LockOwner'
    BY KmsAssumption DEF IInv, LockOwner, TypeOK, Call, server, cached
  <1>4. RefusedIsGone'
    BY KmsAssumption DEF IInv, RefusedIsGone, NewestPending, LockOwner, TypeOK, None, Token, Call,
       server, cached
  <1>5. NewestPending'
    BY KmsAssumption DEF IInv, NewestPending, LockOwner, TypeOK, Token, None, Call, server, cached
  <1>6. LoginOnlyWhenNeeded'
    BY KmsAssumption DEF IInv, LoginOnlyWhenNeeded, LockOwner, Fresh, TypeOK, None, Token, Call,
       server, cached
  <1> QED
    BY <1>1, <1>2, <1>3, <1>4, <1>5, <1>6 DEF IInv

(* The invariant is preserved when a caller takes the cached token or the lock. *)
LEMMA GetTokenInv == ASSUME IInv, NEW c \in Callers, GetToken(c) PROVE IInv'
  <1>1. TypeOK'
    BY KmsAssumption, ZenonT(60) DEF IInv, TypeOK, Token, None, GetToken, Free, Fresh, server, cached
  <1>2. LeasesKnown'
    <2>1. ExpiryKnown'
      BY DEF IInv, LeasesKnown, ExpiryKnown, GetToken, server, cached
    <2>2. ASSUME NEW d \in Callers, pc'[d] = "issued"
          PROVE  tok'[d] # None /\ born'[tok'[d]] <= now'
      BY <2>2 DEF IInv, TypeOK, LeasesKnown, GetToken, server
    <2>3. ASSUME NEW d \in Callers, pc'[d] = "call" PROVE TokenInHand(d)'
      <3>1. CASE d # c
        BY <2>3, <3>1 DEF IInv, TypeOK, LeasesKnown, TokenInHand, GetToken, server
      <3>2. CASE d = c
        <4>1. /\ tok'[d] = token /\ since'[d] = now
              /\ token # None /\ expiry > now + Window
              /\ UNCHANGED <<now, lease, born, delay>> /\ now \in Nat
          BY <2>3, <3>2 DEF IInv, TypeOK, GetToken, Fresh, server
        <4>2. lease[token] # 0 => expiry = born[token] + delay[token] + lease[token]
          BY <4>1 DEF IInv, LeasesKnown, ExpiryKnown
        <4> QED BY <4>1, <4>2, KmsAssumption DEF TokenInHand, IInv, TypeOK
      <3> QED BY <3>1, <3>2
    <2> QED BY <2>1, <2>2, <2>3 DEF LeasesKnown
  <1>3. LockOwner'
    BY KmsAssumption DEF IInv, LockOwner, TypeOK, GetToken, Free, Fresh, server, cached
  <1>4. RefusedIsGone'
    BY KmsAssumption DEF IInv, RefusedIsGone, NewestPending, LockOwner, TypeOK, None, Token, GetToken,
       Free, Fresh, server, cached
  <1>5. NewestPending'
    BY KmsAssumption DEF IInv, NewestPending, LockOwner, TypeOK, Token, None, GetToken, Free, Fresh,
       server, cached
  <1>6. LoginOnlyWhenNeeded'
    BY KmsAssumption DEF IInv, LoginOnlyWhenNeeded, LockOwner, Fresh, TypeOK, None, Token, GetToken,
       Free, server, cached
  <1> QED
    BY <1>1, <1>2, <1>3, <1>4, <1>5, <1>6 DEF IInv

(* The invariant is preserved when the server answers a login. *)
LEMMA IssueInv == ASSUME IInv, NEW c \in Callers, Issue(c) PROVE IInv'
  <1>1. TypeOK'
    <2>1. PICK l \in Leases : lease' = [lease EXCEPT ![issued'] = l]
      BY DEF Issue
    <2>2. l \in Nat /\ issued' \in 0 .. MaxTokens /\ issued' \in Token /\ issued' = issued + 1
      <3>1. l \in Nat
        BY KmsAssumption
      <3>2. MaxTokens \in Nat /\ issued \in 0 .. MaxTokens /\ issued < MaxTokens /\ issued' = issued + 1
        BY KmsAssumption DEF IInv, TypeOK, Issue
      <3> QED
        BY <3>1, <3>2 DEF Token
    <2>3. born' \in [Token -> Nat] /\ lease' \in [Token -> Nat]
      BY <2>1, <2>2 DEF IInv, TypeOK, Issue
    <2>4. 0 .. issued \subseteq 0 .. issued' /\ issued' \in 0 .. issued'
      BY <2>2 DEF IInv, TypeOK
    <2>5. tok' \in [Callers -> 0 .. issued']
      BY <2>4 DEF IInv, TypeOK, Issue
    <2> QED
      BY <2>2, <2>3, <2>4, <2>5 DEF IInv, TypeOK, Issue, cached
  <1>2. LeasesKnown'
    <2>1. PICK l \in Leases : lease' = [lease EXCEPT ![issued'] = l]
      BY DEF Issue
    <2>2. /\ issued' = issued + 1 /\ issued \in Nat /\ issued' \in Token
          /\ born' = [born EXCEPT ![issued'] = now]
          /\ UNCHANGED <<now, token, expiry, since, delay>> /\ now \in Nat
      BY KmsAssumption DEF IInv, TypeOK, Token, Issue, cached
    <2>3. \A t \in Token : t # issued' => lease'[t] = lease[t] /\ born'[t] = born[t]
      BY <2>1, <2>2 DEF IInv, TypeOK
    <2>4. \A t \in 1 .. issued : t \in Token /\ t # issued'
      BY <2>2, KmsAssumption DEF Token
    <2>5. token # None => token \in 1 .. issued
      BY DEF IInv, TypeOK, None
    <2>6. ExpiryKnown'
      BY <2>2, <2>3, <2>4, <2>5 DEF IInv, LeasesKnown, ExpiryKnown
    <2>7. ASSUME NEW d \in Callers, d # c
          PROVE  /\ pc'[d] = pc[d] /\ tok'[d] = tok[d]
                 /\ tok[d] # None => /\ lease'[tok[d]] = lease[tok[d]]
                                    /\ born'[tok[d]] = born[tok[d]]
      <3>1. tok[d] # None => tok[d] \in 1 .. issued
        BY DEF IInv, TypeOK, None
      <3> QED
        BY <2>3, <2>4, <2>7, <3>1 DEF IInv, TypeOK, Issue
    <2>8. pc'[c] = "issued" /\ tok'[c] = issued' /\ born'[issued'] = now
      BY <2>2 DEF IInv, TypeOK, Issue
    <2>9. ASSUME NEW d \in Callers, pc'[d] = "issued"
          PROVE  tok'[d] # None /\ born'[tok'[d]] <= now'
      <3>1. CASE d # c
        BY <2>2, <2>7, <2>9, <3>1 DEF IInv, LeasesKnown
      <3>2. CASE d = c
        BY <2>2, <2>8, <3>2 DEF None
      <3> QED BY <3>1, <3>2
    <2>10. ASSUME NEW d \in Callers, pc'[d] = "call" PROVE TokenInHand(d)'
      <3>1. d # c
        BY <2>8, <2>10
      <3> QED BY <2>2, <2>7, <2>10, <3>1 DEF IInv, LeasesKnown, TokenInHand
    <2> QED
      BY <2>6, <2>9, <2>10 DEF LeasesKnown
  <1>3. LockOwner'
    BY KmsAssumption DEF IInv, LockOwner, TypeOK, Issue, server, cached
  <1>4. RefusedIsGone'
    BY KmsAssumption DEF IInv, RefusedIsGone, NewestPending, LockOwner, TypeOK, None, Token, Issue,
       server, cached
  <1>5. NewestPending'
    <2>1. /\ issued' = issued + 1 /\ issued \in Nat /\ UNCHANGED <<token, refused, lock>>
          /\ token \in 0 .. issued
          /\ \A d \in Callers : tok[d] \in 0 .. issued /\ refused[d] \in 0 .. issued
          /\ tok' = [tok EXCEPT ![c] = issued'] /\ pc' = [pc EXCEPT ![c] = "issued"]
      BY DEF IInv, TypeOK, Issue, cached
    <2>2. lock = c /\ \A d \in Callers : pc'[d] = "issued" => d = c
      BY <2>1 DEF IInv, TypeOK, LockOwner, Issue
    <2>3. tok'[c] = issued' /\ \A d \in Callers \ {c} : tok'[d] = tok[d]
      BY <2>1 DEF IInv, TypeOK
    <2> QED
      BY <2>1, <2>2, <2>3 DEF NewestPending
  <1>6. LoginOnlyWhenNeeded'
    BY KmsAssumption DEF IInv, LoginOnlyWhenNeeded, LockOwner, Fresh, TypeOK, None, Token, Issue,
       server, cached
  <1> QED
    BY <1>1, <1>2, <1>3, <1>4, <1>5, <1>6 DEF IInv

(* The invariant is preserved when a login's reply arrives. *)
LEMMA LoginInv == ASSUME IInv, NEW c \in Callers, Login(c) PROVE IInv'
  <1>1. TypeOK'
    <2>1. tok[c] \in 1 .. issued /\ tok[c] \in Token /\ issued \in Nat
      BY KmsAssumption DEF IInv, TypeOK, LeasesKnown, Login, Token, None
    <2>2. lease[tok[c]] \in Nat /\ now \in Nat /\ DefaultLease \in Nat
      BY <2>1, KmsAssumption DEF IInv, TypeOK
    <2>3. expiry' \in Nat
      BY <2>2 DEF Login, CachedLease
    <2>4. born[tok[c]] \in Nat /\ born[tok[c]] <= now
      BY <2>1 DEF IInv, TypeOK, LeasesKnown, Login
    <2>5. now - born[tok[c]] \in Nat
      BY <2>2, <2>4
    <2>6. delay' \in [Token -> Nat]
      BY <2>5 DEF IInv, TypeOK, Login
    <2> QED
      BY <2>1, <2>3, <2>6 DEF IInv, TypeOK, Login, server
  <1>2. LeasesKnown'
    <2>1. tok[c] \in Token /\ tok[c] # None /\ tok[c] = issued /\ born[tok[c]] <= now
      BY KmsAssumption DEF IInv, TypeOK, LeasesKnown, NewestPending, Login, Token, None
    <2>2. /\ token' = tok[c] /\ UNCHANGED <<now, lease, born, tok>>
          /\ expiry' = now + CachedLease(lease[tok[c]])
          /\ delay' = [delay EXCEPT ![tok[c]] = now - born[tok[c]]]
          /\ now \in Nat /\ lease[tok[c]] \in Nat /\ born[tok[c]] \in Nat
      BY <2>1 DEF IInv, TypeOK, Login, server
    <2>3. /\ delay'[tok[c]] = now - born[tok[c]]
          /\ \A t \in Token : t # tok[c] => delay'[t] = delay[t]
      BY <2>1, <2>2 DEF IInv, TypeOK
    <2>4. now = born[tok[c]] + delay'[tok[c]]
      BY <2>1, <2>2, <2>3
    <2>5. ExpiryKnown'
      BY <2>2, <2>4 DEF ExpiryKnown, CachedLease
    <2>6. ASSUME NEW d \in Callers, pc'[d] = "issued"
          PROVE  tok'[d] # None /\ born'[tok'[d]] <= now'
      BY <2>2, <2>6 DEF IInv, TypeOK, LeasesKnown, Login
    <2>7. ASSUME NEW d \in Callers, pc'[d] = "call" PROVE TokenInHand(d)'
      <3>1. CASE d # c
        <4>1. pc[d] = "call" /\ since'[d] = since[d] /\ tok'[d] = tok[d]
          BY <2>2, <2>7, <3>1 DEF IInv, TypeOK, Login
        <4>2. tok[d] # None /\ tok[d] \in Token /\ tok[d] # tok[c]
          <5>1. tok[d] # None
            BY <4>1 DEF IInv, LeasesKnown, TokenInHand
          <5>2. tok[d] < issued /\ tok[d] \in 0 .. issued /\ issued \in 0 .. MaxTokens
            BY <3>1 DEF IInv, TypeOK, NewestPending, Login
          <5> QED BY <2>1, <5>1, <5>2, KmsAssumption DEF Token, None
        <4> QED BY <2>2, <2>3, <4>1, <4>2 DEF IInv, LeasesKnown, TokenInHand
      <3>2. CASE d = c
        <4>1. since'[c] = now
          BY DEF IInv, TypeOK, Login
        <4> QED BY <2>1, <2>2, <2>4, <3>2, <4>1 DEF TokenInHand
      <3> QED BY <3>1, <3>2
    <2> QED
      BY <2>5, <2>6, <2>7 DEF LeasesKnown
  <1>3. LockOwner'
    BY KmsAssumption DEF IInv, LockOwner, TypeOK, Login, CachedLease, server, cached
  <1>4. RefusedIsGone'
    BY KmsAssumption DEF IInv, RefusedIsGone, NewestPending, LockOwner, TypeOK, None, Token, Login,
       CachedLease, server, cached
  <1>5. NewestPending'
    BY KmsAssumption DEF IInv, NewestPending, LockOwner, TypeOK, Token, None, Login, CachedLease,
       server, cached
  <1>6. LoginOnlyWhenNeeded'
    BY KmsAssumption DEF IInv, LoginOnlyWhenNeeded, LockOwner, Fresh, TypeOK, None, Token, Login,
       CachedLease, server, cached
  <1> QED
    BY <1>1, <1>2, <1>3, <1>4, <1>5, <1>6 DEF IInv

(* The invariant is preserved when a call is answered. *)
LEMMA AnsweredInv == ASSUME IInv, NEW c \in Callers, Answered(c) PROVE IInv'
  <1>1. TypeOK'
    BY KmsAssumption DEF IInv, TypeOK, Token, None, Answered, Leave, server, cached
  <1>2. LeasesKnown'
    BY KmsAssumption DEF IInv, LeasesKnown, ExpiryKnown, TokenInHand, TypeOK, Token, None, Answered, Leave, server,
       cached
  <1>3. LockOwner'
    BY KmsAssumption DEF IInv, LockOwner, TypeOK, Answered, Leave, server, cached
  <1>4. RefusedIsGone'
    BY KmsAssumption DEF IInv, RefusedIsGone, NewestPending, LockOwner, TypeOK, None, Token, Answered,
       Leave, server, cached
  <1>5. NewestPending'
    BY KmsAssumption DEF IInv, NewestPending, LockOwner, TypeOK, Token, None, Answered, Leave, server,
       cached
  <1>6. LoginOnlyWhenNeeded'
    BY KmsAssumption DEF IInv, LoginOnlyWhenNeeded, LockOwner, Fresh, TypeOK, None, Token, Answered,
       Leave, server, cached
  <1> QED
    BY <1>1, <1>2, <1>3, <1>4, <1>5, <1>6 DEF IInv

(* The invariant is preserved when a call gets a 403. *)
LEMMA ForbiddenInv == ASSUME IInv, NEW c \in Callers, Forbidden(c) PROVE IInv'
  <1>1. TypeOK'
    <2>1. CASE refused[c] = None
      BY <2>1 DEF IInv, TypeOK, None, Forbidden, server, cached
    <2>2. CASE refused[c] # None
      BY <2>2 DEF IInv, TypeOK, None, Forbidden, Leave, server, cached
    <2> QED
      BY <2>1, <2>2
  <1>2. LeasesKnown'
    BY KmsAssumption, ZenonT(60)
    DEF IInv, LeasesKnown, ExpiryKnown, TokenInHand, TypeOK, Token, None, Forbidden, Leave,
        server, cached
  <1>3. LockOwner'
    BY KmsAssumption DEF IInv, LockOwner, TypeOK, Forbidden, Leave, server, cached
  <1>4. RefusedIsGone'
    BY KmsAssumption, ZenonT(60) DEF IInv, RefusedIsGone, NewestPending, LockOwner, TypeOK, None, Token,
       Forbidden, Leave, server, cached
  <1>5. NewestPending'
    <2>1. /\ UNCHANGED <<issued, token>> /\ issued \in Nat
          /\ \A d \in Callers : pc'[d] = "issued" => d # c /\ pc[d] = "issued"
          /\ \A d \in Callers \ {c} : tok'[d] = tok[d] /\ refused'[d] = refused[d]
          /\ tok'[c] = None /\ refused'[c] \in {None, tok[c]}
      BY DEF IInv, TypeOK, Forbidden, Leave, server, cached
    <2>2. \A d \in Callers : pc[d] = "issued" => issued > 0
      BY <2>1 DEF IInv, TypeOK, NewestPending
    <2> QED
      BY <2>1, <2>2 DEF IInv, NewestPending, None
  <1>6. LoginOnlyWhenNeeded'
    BY KmsAssumption DEF IInv, LoginOnlyWhenNeeded, LockOwner, Fresh, TypeOK, None, Token, Forbidden,
       Leave, server, cached
  <1> QED
    BY <1>1, <1>2, <1>3, <1>4, <1>5, <1>6 DEF IInv

(* The invariant is preserved when a caller drops the cached token. *)
LEMMA DropTokenInv == ASSUME IInv, NEW c \in Callers, DropToken(c) PROVE IInv'
  <1>1. TypeOK'
    BY KmsAssumption DEF IInv, TypeOK, Token, None, DropToken, Free, DroppedToken, server, cached
  <1>2. LeasesKnown'
    BY KmsAssumption DEF IInv, LeasesKnown, ExpiryKnown, TokenInHand, TypeOK, Token, None, DropToken, Free,
       DroppedToken, server, cached
  <1>3. LockOwner'
    BY KmsAssumption DEF IInv, LockOwner, TypeOK, DropToken, Free, DroppedToken, server, cached
  <1>4. RefusedIsGone'
    BY KmsAssumption DEF IInv, RefusedIsGone, NewestPending, LockOwner, TypeOK, None, Token,
       DropToken, Free, DroppedToken, server, cached
  <1>5. NewestPending'
    BY KmsAssumption DEF IInv, NewestPending, LockOwner, TypeOK, Token, None, DropToken, Free,
       DroppedToken, server, cached
  <1>6. LoginOnlyWhenNeeded'
    BY KmsAssumption DEF IInv, LoginOnlyWhenNeeded, LockOwner, Fresh, TypeOK, None, Token, DropToken,
       Free, DroppedToken, server, cached
  <1> QED
    BY <1>1, <1>2, <1>3, <1>4, <1>5, <1>6 DEF IInv

(* The invariant is preserved when a call raises. *)
LEMMA RaiseInv == ASSUME IInv, NEW c \in Callers, Raise(c) PROVE IInv'
  <1>1. TypeOK'
    BY KmsAssumption DEF IInv, TypeOK, Token, None, Raise, Leave, Released, server, cached
  <1>2. LeasesKnown'
    BY KmsAssumption DEF IInv, LeasesKnown, ExpiryKnown, TokenInHand, TypeOK, Token, None, Raise, Leave, Released,
       server, cached
  <1>3. LockOwner'
    BY KmsAssumption DEF IInv, LockOwner, TypeOK, Raise, Leave, Released, server, cached
  <1>4. RefusedIsGone'
    BY KmsAssumption DEF IInv, RefusedIsGone, NewestPending, LockOwner, TypeOK, None, Token, Raise,
       Leave, Released, server, cached
  <1>5. NewestPending'
    BY KmsAssumption DEF IInv, NewestPending, LockOwner, TypeOK, Token, None, Raise, Leave, Released,
       server, cached
  <1>6. LoginOnlyWhenNeeded'
    BY KmsAssumption DEF IInv, LoginOnlyWhenNeeded, LockOwner, Fresh, TypeOK, None, Token, Raise,
       Leave, Released, server, cached
  <1> QED
    BY <1>1, <1>2, <1>3, <1>4, <1>5, <1>6 DEF IInv

(* Every step of the specification preserves the invariant. *)
LEMMA StepInv == IInv /\ [Next]_vars => IInv'
  <1> SUFFICES ASSUME IInv, [Next]_vars PROVE IInv'
    OBVIOUS
  <1>1. CASE Tick
    BY <1>1, TickInv
  <1>2. ASSUME NEW c \in Callers, Call(c) PROVE IInv'
    BY <1>2, CallInv
  <1>3. ASSUME NEW c \in Callers, GetToken(c) PROVE IInv'
    BY <1>3, GetTokenInv
  <1>4. ASSUME NEW c \in Callers, Issue(c) PROVE IInv'
    BY <1>4, IssueInv
  <1>5. ASSUME NEW c \in Callers, Login(c) PROVE IInv'
    BY <1>5, LoginInv
  <1>6. ASSUME NEW c \in Callers, Answered(c) PROVE IInv'
    BY <1>6, AnsweredInv
  <1>7. ASSUME NEW c \in Callers, Forbidden(c) PROVE IInv'
    BY <1>7, ForbiddenInv
  <1>8. ASSUME NEW c \in Callers, DropToken(c) PROVE IInv'
    BY <1>8, DropTokenInv
  <1>9. ASSUME NEW c \in Callers, Raise(c) PROVE IInv'
    BY <1>9, RaiseInv
  <1>10. CASE UNCHANGED vars
    BY <1>10 DEF IInv, TypeOK, LeasesKnown, LockOwner, RefusedIsGone, NewestPending,
       LoginOnlyWhenNeeded, ExpiryKnown, TokenInHand, Fresh, vars, server, cached
  <1> QED
    BY <1>1, <1>2, <1>3, <1>4, <1>5, <1>6, <1>7, <1>8, <1>9, <1>10 DEF Next

(* The invariant holds in every reachable state. *)
LEMMA Invariance == Spec => []IInv
  BY InitInv, StepInv, PTL DEF Spec

(* The client and the server stay well typed. *)
THEOREM TypeCorrect == Spec => []TypeOK
  <1>1. IInv => TypeOK
    BY DEF IInv
  <1> QED
    BY <1>1, Invariance, PTL

(* A request carries a token whose lease has not ended, for every lease,   *)
(* window and latency, as long as the way of the login reply and that of   *)
(* the request together stay within the refresh window of _get_token and   *)
(* below the lease.                                                        *)
THEOREM TokenAliveAlways == Spec => []SentTokenAlive
  <1>1. ASSUME IInv, NEW c \in Callers, pc[c] = "call"
        PROVE  /\ tok[c] # None
               /\ Lag(c) <= Window /\ Lag(c) < lease[tok[c]] => Alive(tok[c])
    <2>1. TokenInHand(c)
      BY <1>1 DEF IInv, LeasesKnown
    <2>2. tok[c] \in Token
      BY <1>1, <2>1, KmsAssumption DEF IInv, TypeOK, TokenInHand, Token, None
    <2>3. /\ born[tok[c]] \in Nat /\ lease[tok[c]] \in Nat /\ delay[tok[c]] \in Nat
          /\ now \in Nat /\ since[c] \in Nat /\ Window \in Nat
      BY <1>1, <2>2, KmsAssumption DEF IInv, TypeOK
    <2> QED BY <2>1, <2>3 DEF TokenInHand, Lag, Alive
  <1>2. IInv => SentTokenAlive
    BY <1>1 DEF SentTokenAlive
  <1> QED
    BY <1>2, Invariance, PTL

(* A login is under way only while the cache holds no token good for the   *)
(* window: the lock of _get_token makes the callers wait for it, and they  *)
(* look at the cache again when they have the lock.                        *)
THEOREM LoginOnlyWhenNeededAlways == Spec => []LoginOnlyWhenNeeded
  <1>1. IInv => LoginOnlyWhenNeeded
    BY DEF IInv
  <1> QED
    BY <1>1, Invariance, PTL

(* The retry of _do after a 403 presents a newer token than the refused    *)
(* one, whatever other callers do to the cache.                            *)
THEOREM RetryIsNew == Spec => []RetryUsesNewToken
  <1>1. IInv => RetryUsesNewToken
    BY DEF IInv, RefusedIsGone, RetryUsesNewToken
  <1> QED
    BY <1>1, Invariance, PTL
=============================================================================
