------------------------ MODULE SharedObjectProofs ------------------------
(***************************************************************************)
(* Proofs about the three objects of omkit whose methods the tasks of one  *)
(* event loop call at the same time: the circuit breaker, the session      *)
(* store and the lifecycles of the models.  The three share no state; each *)
(* part below is about the specification of one of them alone, for any     *)
(* number of tasks and any value of the other constants.                   *)
(***************************************************************************)
EXTENDS CircuitBreaker, SessionStore, ModelLifecycle, TLAPS

-----------------------------------------------------------------------------
(* The breaker.  CountMatchesState and HalfOpenAfterTimeout need each      *)
(* other: a failure while half open restarts the clock only because the    *)
(* count is already at fail_max.                                           *)

BreakerInv == BreakerTypeOK /\ CountMatchesState /\ HalfOpenAfterTimeout

(* Admission, as a step predicate: the body of CoolDownAdmitsNobody. *)
AdmittedOutsideCoolDown ==
    \A c \in Callers :
        stage[c] # "inflight" /\ stage'[c] = "inflight" =>
            failures < FailMax \/ age = ResetTimeout

(* The breaker starts closed with no failure recorded. *)
LEMMA BreakerInitInv == BreakerInit => BreakerInv
<1> SUFFICES ASSUME BreakerInit PROVE BreakerInv
  OBVIOUS
<1>1. BreakerTypeOK
  <2>1. observed \in BOOLEAN /\ up \in BOOLEAN
    BY DEF BreakerInit
  <2>2. /\ failures \in 0 .. FailMax /\ age \in 0 .. ResetTimeout
        /\ attempt \in [Callers -> 1 .. MaxAttempts]
    BY BreakerAssumption DEF BreakerInit
  <2> QED BY <2>1, <2>2 DEF BreakerInit, BreakerTypeOK
<1>2. failures < FailMax /\ state = "closed"
  BY BreakerAssumption DEF BreakerInit
<1> QED BY <1>1, <1>2 DEF BreakerInv, CountMatchesState, HalfOpenAfterTimeout

(* Reading the state keeps the invariant and admits nobody who may not be. *)
LEMMA ReadStateKeeps ==
    ASSUME BreakerInv, ReadState
    PROVE  /\ state' \in {"closed", "open", "half_open"} /\ observed' \in BOOLEAN
           /\ CountMatchesState' /\ HalfOpenAfterTimeout'
           /\ Admits => failures < FailMax \/ age = ResetTimeout
  BY BreakerAssumption
  DEF BreakerInv, BreakerTypeOK, CountMatchesState, HalfOpenAfterTimeout,
      ReadState, SeenState, TurnsHalfOpen, Admits

(* Every step keeps the invariant and respects the cool-down. *)
LEMMA BreakerNextInv ==
    BreakerInv /\ [BreakerNext]_breakerVars => BreakerInv' /\ AdmittedOutsideCoolDown
<1> SUFFICES ASSUME BreakerInv, [BreakerNext]_breakerVars
             PROVE  BreakerInv' /\ AdmittedOutsideCoolDown
  OBVIOUS
<1> USE BreakerAssumption
  DEF BreakerInv, BreakerTypeOK, CountMatchesState, HalfOpenAfterTimeout,
      AdmittedOutsideCoolDown, breaker, Leave
<1>1. ASSUME NEW c \in Callers, Start(c)
      PROVE  BreakerInv' /\ AdmittedOutsideCoolDown
  BY <1>1 DEF Start
<1>2. ASSUME NEW c \in Callers, Attempt(c)
      PROVE  BreakerInv' /\ AdmittedOutsideCoolDown
  BY <1>2, ReadStateKeeps DEF Attempt, ReadState
<1>3. ASSUME NEW c \in Callers, Succeed(c)
      PROVE  BreakerInv' /\ AdmittedOutsideCoolDown
  <2>1. state' = "closed" /\ failures' = 0 /\ 0 < FailMax
    BY <1>3 DEF Succeed, RecordSuccess
  <2>2. CountMatchesState' /\ HalfOpenAfterTimeout'
    BY <2>1
  <2>3. observed' \in BOOLEAN
    BY <1>3 DEF Succeed, RecordSuccess
  <2>4. BreakerTypeOK' /\ AdmittedOutsideCoolDown
    BY <1>3, <2>1, <2>3 DEF Succeed, RecordSuccess
  <2> QED BY <2>2, <2>4
<1>4. ASSUME NEW c \in Callers, NEW transient \in BOOLEAN, Fail(c, transient)
      PROVE  BreakerInv' /\ AdmittedOutsideCoolDown
  <2>1. CountMatchesState' /\ HalfOpenAfterTimeout'
    <3>1. CASE failures' >= FailMax
      <4>1. failures' \in Nat /\ state' = "open"
        BY <1>4, <3>1 DEF Fail, RecordFailure
      <4> QED BY <3>1, <4>1
    <3>2. CASE ~(failures' >= FailMax)
      <4>1. failures' < FailMax /\ failures < FailMax
        BY <1>4, <3>2 DEF Fail, RecordFailure
      <4>2. UNCHANGED <<state, age, observed>>
        BY <1>4, <3>2 DEF Fail, RecordFailure
      <4> QED BY <4>1, <4>2
    <3> QED BY <3>1, <3>2
  <2>2. BreakerTypeOK'
    <3>1. observed' \in BOOLEAN /\ up' \in BOOLEAN
      BY <1>4 DEF Fail, RecordFailure
    <3>2. failures' \in 0 .. FailMax /\ age' \in 0 .. ResetTimeout
      BY <1>4 DEF Fail, RecordFailure
    <3>3. state' \in {"closed", "open", "half_open"}
      BY <1>4 DEF Fail, RecordFailure
    <3>4. /\ stage' \in [Callers -> {"idle", "ready", "inflight"}]
          /\ attempt' \in [Callers -> 1 .. MaxAttempts]
      BY <1>4 DEF Fail, Retries
    <3> QED BY <3>1, <3>2, <3>3, <3>4
  <2>3. AdmittedOutsideCoolDown
    BY <1>4 DEF Fail
  <2> QED BY <2>1, <2>2, <2>3
<1>5. ASSUME NEW c \in Callers, Cancel(c)
      PROVE  BreakerInv' /\ AdmittedOutsideCoolDown
  BY <1>5 DEF Cancel
<1>6. CASE Inspect
  BY <1>6, ReadStateKeeps DEF Inspect, ReadState
<1>7. CASE TimePasses
  BY <1>7 DEF TimePasses
<1>8. CASE Environment
  BY <1>8 DEF Environment
<1>9. CASE UNCHANGED breakerVars
  BY <1>9 DEF breakerVars
<1> QED
  BY <1>1, <1>2, <1>3, <1>4, <1>5, <1>6, <1>7, <1>8, <1>9
  DEF BreakerNext, Caller

(* The inductive invariant holds throughout every behaviour. *)
LEMMA BreakerSpecInv == BreakerSpec => []BreakerInv
<1>1. BreakerInv /\ [BreakerNext]_breakerVars => BreakerInv'
  BY BreakerNextInv
<1> QED BY <1>1, BreakerInitInv, PTL DEF BreakerSpec

(* The breaker's state stays well typed. *)
THEOREM BreakerTypeCorrect == BreakerSpec => []BreakerTypeOK
  BY BreakerSpecInv, PTL DEF BreakerInv

(* The circuit is closed exactly while the failure count is below the      *)
(* threshold.                                                              *)
THEOREM CountMatchesStateAlways == BreakerSpec => []CountMatchesState
  BY BreakerSpecInv, PTL DEF BreakerInv

(* A half-open circuit has waited for the whole reset_timeout. *)
THEOREM HalfOpenAfterTimeoutAlways == BreakerSpec => []HalfOpenAfterTimeout
  BY BreakerSpecInv, PTL DEF BreakerInv

(* Nobody is admitted during the cool-down. *)
THEOREM CoolDownHolds == BreakerSpec => CoolDownAdmitsNobody
<1>1. BreakerInv /\ [BreakerNext]_breakerVars => [AdmittedOutsideCoolDown]_breakerVars
  BY BreakerNextInv
<1>2. BreakerSpec => [][AdmittedOutsideCoolDown]_breakerVars
  BY <1>1, BreakerSpecInv, PTL DEF BreakerSpec
<1> QED BY <1>2 DEF CoolDownAdmitsNobody, AdmittedOutsideCoolDown

-----------------------------------------------------------------------------
(* The session store.  What is on its way and what is stored carry the     *)
(* lateness they may have; a scan knows what it has asked for.             *)

(* What the server was told to keep, and late by at most d. *)
Within(s, d) ==
    IF backend = "redis"
    THEN \/ s.until <= s.expires + d
         \/ s.expires < s.sent + PerSecond /\ s.until <= s.sent + PerSecond + d
    ELSE s.until = s.expires

PutsOnTheWay ==
    \A p \in Clients : doing[p] = "put" =>
        /\ arg[p] \in [token : Tokens, session : Session]
        /\ arg[p].session.sent <= now
        /\ now <= arg[p].session.sent + Latency
        /\ Within(arg[p].session, 0)

StoredForAWhile ==
    \A t \in Tokens : store[t] # Missing => Within(store[t], Latency)

(* While a list scans, what it has to return is there, what is there it    *)
(* may return, and what it has asked for it has.                           *)
ScanKnown ==
    \A p \in Clients :
        /\ doing[p] \in {"idle", "put"} => shown[p] = {} /\ Returned(p) = {}
        /\ doing[p] = "list" =>
             /\ \A t \in must[p] : Listed(t, tenant[p])
             /\ \A t \in Tokens : Listed(t, tenant[p]) => t \in may[p]
             /\ must[p] \cap shown[p] \subseteq Returned(p)
        /\ doing[p] = "listed" => must[p] \subseteq Returned(p)
        /\ Returned(p) \subseteq may[p]

(* The inductive invariant. *)
StoreInv == StoreTypeOK /\ PutsOnTheWay /\ StoredForAWhile /\ ScanKnown

(* A session of the store is not the mark of a missing one. *)
LEMMA MissingIsNone == Missing \notin Session
  BY StoreAssumption DEF Missing, Session

(* int() and the clamp to one second: the server is told to keep a session *)
(* until its end, or for a second if less than that is left.               *)
LEMMA TimeToLiveBound ==
    ASSUME now \in Nat, NEW e \in Nat
    PROVE  /\ TimeToLive(e) \in Nat
           /\ \/ now + TimeToLive(e) <= e
              \/ e < now + PerSecond /\ TimeToLive(e) = PerSecond
<1> DEFINE q == (e - now) \div PerSecond
<1>1. PerSecond \in Nat /\ PerSecond > 0
  BY StoreAssumption
<1>2. CASE e > now
  <2>1. e - now \in Nat
    BY <1>2
  <2>2. q \in Nat /\ PerSecond * q <= e - now /\ (q < 1 => e - now < PerSecond)
    BY <1>1, <2>1
  <2>3. WholeSeconds(e) = q
    BY <1>2 DEF WholeSeconds
  <2> HIDE DEF q
  <2>4. CASE q < 1
    <3>1. TimeToLive(e) = PerSecond * 1
      BY <2>3, <2>4 DEF TimeToLive
    <3> QED BY <1>1, <2>1, <2>2, <2>4, <3>1
  <2>5. CASE ~ (q < 1)
    <3>1. TimeToLive(e) = PerSecond * q
      BY <2>3, <2>5 DEF TimeToLive
    <3>2. PerSecond * q \in Nat
      BY <1>1, <2>2
    <3> QED BY <1>1, <2>1, <2>2, <3>1, <3>2
  <2> QED BY <2>4, <2>5
<1>3. CASE ~ (e > now)
  <2>1. TimeToLive(e) = PerSecond * 1
    BY <1>3 DEF TimeToLive, WholeSeconds
  <2> QED BY <1>1, <1>3, <2>1
<1> QED BY <1>2, <1>3

(* The initial state satisfies the invariant. *)
LEMMA StoreInitInv == StoreInit => StoreInv
  BY StoreAssumption
  DEF StoreInit, StoreInv, StoreTypeOK, PutsOnTheWay, StoredForAWhile,
      ScanKnown, Returned

(* The invariant is preserved when time passes. *)
LEMMA ClockMovesInv == ASSUME StoreInv, ClockMoves PROVE StoreInv'
  <1>1. StoreTypeOK'
    BY StoreAssumption, MissingIsNone
    DEF StoreInv, StoreTypeOK, Session, ClockMoves, Observe, Belongs, listing
  <1>2. PutsOnTheWay'
    BY StoreAssumption, MissingIsNone
    DEF StoreInv, PutsOnTheWay, StoreTypeOK, Session, Within, ClockMoves,
        Observe, Belongs, listing
  <1>3. StoredForAWhile'
    BY StoreAssumption, MissingIsNone
    DEF StoreInv, StoredForAWhile, PutsOnTheWay, StoreTypeOK, Session, Within,
        ClockMoves, Observe, Belongs, listing
  <1>4. ScanKnown'
    BY StoreAssumption, MissingIsNone
    DEF StoreInv, ScanKnown, Returned, Listed, Live, StoreTypeOK, ClockMoves, Observe,
        Belongs, listing
  <1> QED
    BY <1>1, <1>2, <1>3, <1>4 DEF StoreInv

(* The invariant is preserved when a put is sent. *)
LEMMA PutInv ==
  ASSUME StoreInv, NEW p \in Clients, NEW t \in Tokens, NEW x \in Tenants,
      NEW e \in Expiries, Put(p, t, x, e)
  PROVE  StoreInv'
  <1> DEFINE u == IF backend = "redis" THEN now + TimeToLive(e) ELSE e
             s == [tenant |-> x, expires |-> e, sent |-> now, until |-> u]
  <1>0. /\ u \in Nat /\ e \in Nat /\ now \in Nat
        /\ IF backend = "redis"
           THEN u <= e \/ (e < now + PerSecond /\ u <= now + PerSecond)
           ELSE u = e
    <2>1. e \in Nat /\ now \in Nat /\ PerSecond \in Nat
      BY StoreAssumption DEF StoreInv, StoreTypeOK
    <2>2. /\ TimeToLive(e) \in Nat
          /\ \/ now + TimeToLive(e) <= e
             \/ e < now + PerSecond /\ TimeToLive(e) = PerSecond
      BY <2>1, TimeToLiveBound
    <2> QED BY <2>1, <2>2
  <1>5. /\ arg' = [arg EXCEPT ![p] = [token |-> t, session |-> s]]
        /\ doing' = [doing EXCEPT ![p] = "put"]
        /\ UNCHANGED <<backend, now, store, listing>>
    BY DEF Put
  <1> HIDE DEF u
  <1>6. s \in Session
    BY <1>0 DEF Session
  <1>1. StoreTypeOK'
    BY <1>5, <1>6 DEF StoreInv, StoreTypeOK, listing
  <1>2. PutsOnTheWay'
    <2>1. IF backend = "redis"
          THEN \/ s.until <= s.expires + 0
               \/ s.expires < s.sent + PerSecond /\ s.until <= s.sent + PerSecond + 0
          ELSE s.until = s.expires
      <3>1. s.until = u /\ s.expires = e /\ s.sent = now
        OBVIOUS
      <3> QED BY <1>0, <3>1, StoreAssumption
    <2>2. ASSUME NEW q \in Clients, doing'[q] = "put"
          PROVE  /\ arg'[q] \in [token : Tokens, session : Session]
                 /\ arg'[q].session.sent <= now /\ now <= arg'[q].session.sent + Latency
                 /\ Within(arg[q].session, 0)'
      <3>1. CASE q = p
        <4>1. arg'[p] = [token |-> t, session |-> s]
          BY <1>5 DEF StoreInv, StoreTypeOK
        <4>2. now <= now /\ now <= now + Latency
          BY <1>0, StoreAssumption
        <4>3. arg'[p].session = s /\ s.sent = now
          BY <4>1
        <4>4. Within(arg[p].session, 0)'
          BY <1>5, <2>1, <4>3 DEF Within
        <4> QED BY <1>6, <3>1, <4>1, <4>2, <4>3, <4>4
      <3>2. CASE q # p
        <4>1. doing[q] = "put" /\ arg'[q] = arg[q]
          BY <1>5, <2>2, <3>2 DEF StoreInv, StoreTypeOK
        <4> QED BY <1>5, <4>1 DEF StoreInv, PutsOnTheWay, Within
      <3> QED BY <3>1, <3>2
    <2> QED BY <1>5, <2>2 DEF PutsOnTheWay
  <1>3. StoredForAWhile'
    BY StoreAssumption, MissingIsNone
    DEF StoreInv, StoredForAWhile, PutsOnTheWay, StoreTypeOK, Session, Within,
        Put, listing
  <1>4. ScanKnown'
    BY StoreAssumption, MissingIsNone
    DEF StoreInv, ScanKnown, Returned, Listed, Live, StoreTypeOK, Put,
        listing
  <1> QED
    BY <1>1, <1>2, <1>3, <1>4 DEF StoreInv

(* The invariant is preserved when a put reaches the server. *)
LEMMA PutArrivesInv ==
  ASSUME StoreInv, NEW p \in Clients, PutArrives(p)
  PROVE  StoreInv'
  <1>1. StoreTypeOK'
    <2> DEFINE t == arg[p].token
    <2> DEFINE s == arg[p].session
    <2>1. /\ t \in Tokens /\ s \in Session /\ s.sent <= now /\ now \in Nat
          /\ store[t] \in Session \cup {Missing}
      BY DEF StoreInv, PutsOnTheWay, StoreTypeOK, PutArrives
    <2>2. /\ s.sent \in Nat /\ s.until \in Nat /\ s.expires \in Nat /\ s.tenant \in Tenants
          /\ store[t] # Missing => store[t].tenant \in Tenants
          /\ s = [tenant |-> s.tenant, expires |-> s.expires, until |-> s.until,
              sent |-> s.sent]
      BY <2>1 DEF Session
    <2>3. now - s.sent \in Nat
      <3> HIDE DEF s
      <3> QED
        BY <2>1, <2>2
    <2>4. s.until + (now - s.sent) \in Nat
      <3> HIDE DEF s
      <3> QED
        BY <2>2, <2>3
    <2>5. Stored(store[t], s) \in Session
      <3> HIDE DEF s, t
      <3> QED
        BY <2>1, <2>2, <2>4 DEF Stored, Session
    <2>6. store' \in [Tokens -> Session \cup {Missing}]
      <3>1. store' = [store EXCEPT ![t] = Stored(store[t], s)]
        BY DEF PutArrives
      <3> HIDE DEF s, t
      <3> QED
        BY <3>1, <2>1, <2>5 DEF StoreInv, StoreTypeOK
    <2>7. must' \in [Clients -> SUBSET Tokens] /\ may' \in [Clients -> SUBSET Tokens]
      BY DEF StoreInv, StoreTypeOK, PutArrives, Observe
    <2> QED
      BY <2>6, <2>7 DEF StoreInv, StoreTypeOK, PutArrives
  <1>2. PutsOnTheWay'
    BY StoreAssumption, MissingIsNone
    DEF StoreInv, PutsOnTheWay, StoreTypeOK, Session, Within, PutArrives,
        Stored, Observe, Belongs, listing
  <1>3. StoredForAWhile'
    BY StoreAssumption, MissingIsNone
    DEF StoreInv, StoredForAWhile, PutsOnTheWay, StoreTypeOK, Session, Within,
        PutArrives, Stored, Observe, Belongs, listing
  <1>4. ScanKnown'
    <2>1. /\ doing[p] = "put" /\ doing'[p] = "idle" /\ UNCHANGED <<tenant, shown, out>>
          /\ \A q \in Clients \ {p} : doing'[q] = doing[q]
      BY DEF StoreInv, StoreTypeOK, PutArrives
    <2>2. ASSUME NEW q \in Clients
          PROVE  /\ must'[q] = {t \in must[q] : Listed(t, tenant[q])'}
                 /\ may[q] \subseteq may'[q]
                 /\ doing[q] = "list" => \A t \in Tokens : Listed(t, tenant[q])' => t \in may'[q]
      BY <2>1 DEF PutArrives, Observe, Belongs, Listed
    <2>3. ASSUME NEW q \in Clients PROVE Returned(q)' = Returned(q)
      BY <2>1 DEF Returned
    <2> QED
      BY <2>1, <2>2, <2>3 DEF StoreInv, ScanKnown
  <1> QED
    BY <1>1, <1>2, <1>3, <1>4 DEF StoreInv

(* The invariant is preserved when a put fails. *)
LEMMA PutFailsInv ==
  ASSUME StoreInv, NEW p \in Clients, PutFails(p)
  PROVE  StoreInv'
  <1>1. StoreTypeOK'
    BY StoreAssumption, MissingIsNone
    DEF StoreInv, StoreTypeOK, Session, PutFails, listing
  <1>2. PutsOnTheWay'
    BY StoreAssumption, MissingIsNone
    DEF StoreInv, PutsOnTheWay, StoreTypeOK, Session, Within, PutFails, listing
  <1>3. StoredForAWhile'
    BY StoreAssumption, MissingIsNone
    DEF StoreInv, StoredForAWhile, PutsOnTheWay, StoreTypeOK, Session, Within,
        PutFails, listing
  <1>4. ScanKnown'
    BY StoreAssumption, MissingIsNone
    DEF StoreInv, ScanKnown, Returned, Listed, Live, StoreTypeOK, PutFails, listing
  <1> QED
    BY <1>1, <1>2, <1>3, <1>4 DEF StoreInv

(* The invariant is preserved when a session is deleted. *)
LEMMA DeleteInv ==
  ASSUME StoreInv, NEW p \in Clients, NEW t \in Tokens,
      NEW x \in Tenants \cup {AnyTenant}, Delete(p, t, x)
  PROVE  StoreInv'
  <1>1. StoreTypeOK'
    BY StoreAssumption, MissingIsNone
    DEF StoreInv, StoreTypeOK, Session, Delete, Observe, Belongs, listing
  <1>2. PutsOnTheWay'
    BY StoreAssumption, MissingIsNone
    DEF StoreInv, PutsOnTheWay, StoreTypeOK, Session, Within, Delete, Observe,
        Belongs, listing
  <1>3. StoredForAWhile'
    BY StoreAssumption, MissingIsNone
    DEF StoreInv, StoredForAWhile, PutsOnTheWay, StoreTypeOK, Session, Within,
        Delete, Observe, Belongs, listing
  <1>4. ScanKnown'
    BY StoreAssumption, MissingIsNone
    DEF StoreInv, ScanKnown, Returned, Listed, Live, StoreTypeOK, Delete, Observe,
        Belongs, listing
  <1> QED
    BY <1>1, <1>2, <1>3, <1>4 DEF StoreInv

(* The invariant is preserved when a list begins. *)
LEMMA ListInv ==
  ASSUME StoreInv, NEW p \in Clients, NEW x \in Tenants, List(p, x)
  PROVE  StoreInv'
  <1>1. StoreTypeOK'
    BY StoreAssumption, MissingIsNone
    DEF StoreInv, StoreTypeOK, Session, List, listing
  <1>2. PutsOnTheWay'
    BY StoreAssumption, MissingIsNone
    DEF StoreInv, PutsOnTheWay, StoreTypeOK, Session, Within, List, listing
  <1>3. StoredForAWhile'
    BY StoreAssumption, MissingIsNone
    DEF StoreInv, StoredForAWhile, PutsOnTheWay, StoreTypeOK, Session, Within,
        List, listing
  <1>4. ScanKnown'
    BY StoreAssumption, MissingIsNone
    DEF StoreInv, ScanKnown, Returned, Listed, Live, StoreTypeOK, List, listing
  <1> QED
    BY <1>1, <1>2, <1>3, <1>4 DEF StoreInv

(* The invariant is preserved when the scan gets a key. *)
LEMMA ScanGetInv ==
  ASSUME StoreInv, NEW p \in Clients, NEW t \in Tokens, ScanGet(p, t)
  PROVE  StoreInv'
  <1>1. StoreTypeOK'
    BY StoreAssumption, MissingIsNone
    DEF StoreInv, StoreTypeOK, Session, ScanGet, EndsOn, listing
  <1>2. PutsOnTheWay'
    BY StoreAssumption, MissingIsNone
    DEF StoreInv, PutsOnTheWay, StoreTypeOK, Session, Within, ScanGet, EndsOn,
        listing
  <1>3. StoredForAWhile'
    BY StoreAssumption, MissingIsNone
    DEF StoreInv, StoredForAWhile, PutsOnTheWay, StoreTypeOK, Session, Within,
        ScanGet, EndsOn, listing
  <1>4. ScanKnown'
    BY StoreAssumption, MissingIsNone
    DEF StoreInv, ScanKnown, Returned, Listed, Live, StoreTypeOK, ScanGet, EndsOn,
        listing
  <1> QED
    BY <1>1, <1>2, <1>3, <1>4 DEF StoreInv

(* The invariant is preserved when the scan ends. *)
LEMMA ScanEndsInv ==
  ASSUME StoreInv, NEW p \in Clients, ScanEnds(p)
  PROVE  StoreInv'
  <1>1. StoreTypeOK'
    BY StoreAssumption, MissingIsNone
    DEF StoreInv, StoreTypeOK, Session, ScanEnds, listing
  <1>2. PutsOnTheWay'
    BY StoreAssumption, MissingIsNone
    DEF StoreInv, PutsOnTheWay, StoreTypeOK, Session, Within, ScanEnds, listing
  <1>3. StoredForAWhile'
    BY StoreAssumption, MissingIsNone
    DEF StoreInv, StoredForAWhile, PutsOnTheWay, StoreTypeOK, Session, Within,
        ScanEnds, listing
  <1>4. ScanKnown'
    BY StoreAssumption, MissingIsNone
    DEF StoreInv, ScanKnown, Returned, Listed, Live, StoreTypeOK, ScanEnds, listing
  <1> QED
    BY <1>1, <1>2, <1>3, <1>4 DEF StoreInv

(* The invariant is preserved when a list returns. *)
LEMMA ListReturnsInv ==
  ASSUME StoreInv, NEW p \in Clients, ListReturns(p)
  PROVE  StoreInv'
  <1>1. StoreTypeOK'
    BY StoreAssumption, MissingIsNone
    DEF StoreInv, StoreTypeOK, Session, ListReturns, listing
  <1>2. PutsOnTheWay'
    BY StoreAssumption, MissingIsNone
    DEF StoreInv, PutsOnTheWay, StoreTypeOK, Session, Within, ListReturns,
        listing
  <1>3. StoredForAWhile'
    BY StoreAssumption, MissingIsNone
    DEF StoreInv, StoredForAWhile, PutsOnTheWay, StoreTypeOK, Session, Within,
        ListReturns, listing
  <1>4. ScanKnown'
    BY StoreAssumption, MissingIsNone
    DEF StoreInv, ScanKnown, Returned, Listed, Live, StoreTypeOK, ListReturns, listing
  <1> QED
    BY <1>1, <1>2, <1>3, <1>4 DEF StoreInv

(* Every step of the specification preserves the invariant. *)
LEMMA StoreNextInv == StoreInv /\ [StoreNext]_storeVars => StoreInv'
  <1> SUFFICES ASSUME StoreInv, [StoreNext]_storeVars PROVE StoreInv'
    OBVIOUS
  <1>1. CASE ClockMoves
    BY <1>1, ClockMovesInv
  <1>2. ASSUME NEW p \in Clients, NEW t \in Tokens, NEW x \in Tenants,
      NEW e \in Expiries, Put(p, t, x, e) PROVE StoreInv'
    BY <1>2, PutInv
  <1>3. ASSUME NEW p \in Clients, PutArrives(p) PROVE StoreInv'
    BY <1>3, PutArrivesInv
  <1>4. ASSUME NEW p \in Clients, PutFails(p) PROVE StoreInv'
    BY <1>4, PutFailsInv
  <1>5. ASSUME NEW p \in Clients, NEW t \in Tokens,
      NEW x \in Tenants \cup {AnyTenant}, Delete(p, t, x) PROVE StoreInv'
    BY <1>5, DeleteInv
  <1>6. ASSUME NEW p \in Clients, NEW x \in Tenants, List(p, x) PROVE StoreInv'
    BY <1>6, ListInv
  <1>7. ASSUME NEW p \in Clients, NEW t \in Tokens, ScanGet(p, t) PROVE StoreInv'
    BY <1>7, ScanGetInv
  <1>8. ASSUME NEW p \in Clients, ScanEnds(p) PROVE StoreInv'
    BY <1>8, ScanEndsInv
  <1>9. ASSUME NEW p \in Clients, ListReturns(p) PROVE StoreInv'
    BY <1>9, ListReturnsInv
  <1>10. CASE UNCHANGED storeVars
    BY <1>10
    DEF StoreInv, StoreTypeOK, PutsOnTheWay, StoredForAWhile, Within,
        ScanKnown, Returned, Listed, Live, storeVars, listing
  <1> QED
    BY <1>1, <1>2, <1>3, <1>4, <1>5, <1>6, <1>7, <1>8, <1>9, <1>10 DEF StoreNext

(* The invariant holds in every reachable state. *)
LEMMA StoreSpecInv == StoreSpec => []StoreInv
  BY StoreInitInv, StoreNextInv, PTL DEF StoreSpec

(* The stored sessions and the clients stay well typed. *)
THEOREM StoreTypeCorrect == StoreSpec => []StoreTypeOK
  <1>1. StoreInv => StoreTypeOK
    BY DEF StoreInv
  <1> QED
    BY <1>1, StoreSpecInv, PTL

(* For every expiry and every latency, get() serves no session later than  *)
(* its expires_at and the way of its put, or, if less than a second was    *)
(* left at the put, than a second after the put and its way.               *)
THEOREM ExpiryKept == StoreSpec => []NotServedLate
  <1>1. StoreInv => NotServedLate
    BY StoreAssumption
    DEF StoreInv, StoreTypeOK, StoredForAWhile, Within, NotServedLate, Found,
        Live, Session
  <1> QED
    BY <1>1, StoreSpecInv, PTL

(* The list of RedisSessionStore is as good as one SELECT for the sessions *)
(* that stay, whatever is put, deleted or expires during its scan.         *)
THEOREM ListFaithfulAlways == StoreSpec => []ListIsFaithful
  <1>1. StoreInv => ListIsFaithful
    BY DEF StoreInv, ScanKnown, ListIsFaithful
  <1> QED
    BY <1>1, StoreSpecInv, PTL

-----------------------------------------------------------------------------
(* The model lifecycles.  Both results rest on what the lock protects: who *)
(* is inside the executor holds it, and a model that an unload has touched *)
(* is in memory only under the lock or after the unload was cut.           *)

UserStates    == {"idle", "lock", "load", "using"}
SweeperStates == {"off", "sleep", "sweep", "lock", "unload", "done", "raised"}

(* A task is in one of the places of its code. *)
Places ==
    /\ \A u \in Users : pc[u] \in UserStates
    /\ \A s \in Sweepers : pc[s] \in SweeperStates
    /\ \A t \in Tasks : pc[t] \in {"lock", "load", "unload",
        "using"} => on[t] \in Models

(* Who awaits the executor holds the lock of the model. *)
LockHeld ==
    \A t \in Tasks : pc[t] \in {"load", "unload"} => lock[on[t]] = t

(* Only an unload that was cut leaves a touched model behind the lock. *)
TouchedIsCut ==
    /\ threads \subseteq cut
    /\ \A m \in released : m \in cut \/ ~loaded[m] \/ lock[m] \in Sweepers

ModelInv == TypeOK /\ Places /\ LockHeld /\ TouchedIsCut

(* The state before any model is loaded. *)
LEMMA ModelInitInv == Init => ModelInv
<1> SUFFICES ASSUME Init PROVE ModelInv
  OBVIOUS
<1> USE BoundsAssumption, NamesAssumption DEF Init, Tasks, Sweepers, Ttls
<1>1. loaded \in [Models -> BOOLEAN]
  OBVIOUS
<1>2. /\ idle \in [Models -> 0 .. MaxTtl]
      /\ seen \in [Models -> -1 .. MaxTtl]
      /\ calls \in 0 .. MaxCalls /\ faults \in 0 .. MaxFaults /\ ttl \in Ttls
  BY DEF NoSweep
<1>3. TypeOK
  BY <1>1, <1>2 DEF TypeOK
<1> QED
  BY <1>3
  DEF ModelInv, Places, LockHeld, TouchedIsCut, UserStates, SweeperStates

(* Every step keeps the types. *)
LEMMA ModelNextTypeOK == TypeOK /\ Places /\ [Next]_vars => TypeOK'
<1> SUFFICES ASSUME TypeOK, Places, [Next]_vars PROVE TypeOK'
  OBVIOUS
<1> USE BoundsAssumption
  DEF TypeOK, Places, UserStates, SweeperStates, Tasks, Sweepers, Ttls, At,
      Release, Used, Call, Fault, NoSweep, models, sweep, hist
<1>1. ASSUME NEW u \in Users, NEW m \in Models, EnsureLoaded(u, m) PROVE TypeOK'
  BY <1>1 DEF EnsureLoaded, EnsureLocked, MustWait
<1>2. ASSUME NEW u \in Users, Load(u) PROVE TypeOK'
  BY <1>2 DEF Load
<1>3. ASSUME NEW u \in Users, LoadRaises(u) PROVE TypeOK'
  BY <1>3 DEF LoadRaises
<1>4. ASSUME NEW u \in Users, Touch(u) PROVE TypeOK'
  BY <1>4 DEF Touch
<1>5. ASSUME NEW u \in Users, Finish(u) PROVE TypeOK'
  BY <1>5 DEF Finish
<1>6. ASSUME NEW u \in Users, CancelUser(u) PROVE TypeOK'
  BY <1>6 DEF CancelUser
<1>7. ASSUME NEW t \in Tasks, GetLock(t) PROVE TypeOK'
  BY <1>7 DEF GetLock, EnsureLocked, UnloadLocked, BeginUnload
<1>8. ASSUME NEW s \in Sweepers, NEW m \in Models, Visit(s, m) PROVE TypeOK'
  BY <1>8 DEF Visit, Due, MustWait, BeginUnload
<1>9. ASSUME NEW s \in Sweepers, SweepDone(s) PROVE TypeOK'
  BY <1>9 DEF SweepDone
<1>10. ASSUME NEW s \in Sweepers, Unload(s) PROVE TypeOK'
  BY <1>10 DEF Unload
<1>11. ASSUME NEW s \in Sweepers, UnloadRaises(s) PROVE TypeOK'
  BY <1>11 DEF UnloadRaises, AfterRaise
<1>12. CASE Sweep
  BY <1>12 DEF Sweep
<1>13. CASE StartReaper
  BY <1>13 DEF StartReaper, CancelReaper, Unloading
<1>14. CASE StopReaper
  BY <1>14 DEF StopReaper, CancelReaper, Unloading
<1>15. CASE SetTtl
  BY <1>15 DEF SetTtl
<1>16. CASE UnloadAll
  BY <1>16 DEF UnloadAll, CancelReaper, Unloading
<1>17. CASE Tick
  BY <1>17 DEF Tick
<1>18. ASSUME NEW m \in threads, ThreadEnds(m) PROVE TypeOK'
  BY <1>18 DEF ThreadEnds
<1>19. CASE UNCHANGED vars
  BY <1>19 DEF vars, hist
<1> QED
  BY <1>1, <1>2, <1>3, <1>4, <1>5, <1>6, <1>7, <1>8, <1>9, <1>10, <1>11, <1>12,
      <1>13, <1>14, <1>15, <1>16, <1>17, <1>18, <1>19
  DEF Next, Request, Reaping

(* What the steps keep besides the types. *)
Inner == Places /\ LockHeld /\ TouchedIsCut

(* Every step of requests, reaper and unload_all() keeps the invariant. *)
LEMMA ModelNextInv == ModelInv /\ [Next]_vars => ModelInv'
<1> SUFFICES ASSUME ModelInv, [Next]_vars PROVE Inner'
  BY ModelNextTypeOK DEF ModelInv, Inner
<1> USE NamesAssumption
  DEF ModelInv, Inner, TypeOK, Places, LockHeld, TouchedIsCut, UserStates,
      SweeperStates, Tasks, Sweepers, At, Release, models, sweep, hist
<1>1. ASSUME NEW u \in Users, NEW m \in Models, EnsureLoaded(u, m) PROVE Inner'
  BY <1>1 DEF EnsureLoaded, EnsureLocked, MustWait
<1>2. ASSUME NEW u \in Users, Load(u) PROVE Inner'
  BY <1>2 DEF Load
<1>3. ASSUME NEW u \in Users, LoadRaises(u) PROVE Inner'
  BY <1>3 DEF LoadRaises
<1>4. ASSUME NEW u \in Users, Touch(u) PROVE Inner'
  BY <1>4 DEF Touch
<1>5. ASSUME NEW u \in Users, Finish(u) PROVE Inner'
  BY <1>5 DEF Finish
<1>6. ASSUME NEW u \in Users, CancelUser(u) PROVE Inner'
  BY <1>6 DEF CancelUser
<1>7. ASSUME NEW t \in Tasks, GetLock(t) PROVE Inner'
  BY <1>7 DEF GetLock, EnsureLocked, UnloadLocked, BeginUnload
<1>8. ASSUME NEW s \in Sweepers, NEW m \in Models, Visit(s, m) PROVE Inner'
  BY <1>8 DEF Visit, Due, MustWait, BeginUnload
<1>9. ASSUME NEW s \in Sweepers, SweepDone(s) PROVE Inner'
  BY <1>9 DEF SweepDone
<1>10. ASSUME NEW s \in Sweepers, Unload(s) PROVE Inner'
  BY <1>10 DEF Unload
<1>11. ASSUME NEW s \in Sweepers, UnloadRaises(s) PROVE Inner'
  BY <1>11 DEF UnloadRaises, AfterRaise
<1>12. CASE Sweep
  BY <1>12 DEF Sweep
<1>13. CASE StartReaper
  BY <1>13 DEF StartReaper, CancelReaper, Unloading
<1>14. CASE StopReaper
  BY <1>14 DEF StopReaper, CancelReaper, Unloading
<1>15. CASE SetTtl
  BY <1>15 DEF SetTtl
<1>16. CASE UnloadAll
  BY <1>16 DEF UnloadAll, CancelReaper, Unloading
<1>17. CASE Tick
  BY <1>17 DEF Tick
<1>18. ASSUME NEW m \in threads, ThreadEnds(m) PROVE Inner'
  BY <1>18 DEF ThreadEnds
<1>19. CASE UNCHANGED vars
  BY <1>19 DEF vars, hist
<1> QED
  BY <1>1, <1>2, <1>3, <1>4, <1>5, <1>6, <1>7, <1>8, <1>9, <1>10, <1>11, <1>12,
      <1>13, <1>14, <1>15, <1>16, <1>17, <1>18, <1>19
  DEF Next, Request, Reaping

-----------------------------------------------------------------------------
(* The inductive invariant holds throughout every behaviour. *)
LEMMA ModelSpecInv == Spec => []ModelInv
  BY ModelInitInv, ModelNextInv, PTL DEF Spec

(* Models, lock and tasks stay well typed. *)
THEOREM ModelTypeCorrect == Spec => []TypeOK
  BY ModelSpecInv, PTL DEF ModelInv

-----------------------------------------------------------------------------
(* Where the models are that unload_all() still has to unload. *)
Closing ==
    /\ pc["closer"] \in {"sweep", "lock", "unload", "done"} =>
          \A m \in Models : loaded[m] =>
              \/ m \in fresh
              \/ m \in todo["closer"]
              \/ pc["closer"] \in {"lock", "unload"} /\ on["closer"] = m
    /\ pc["closer"] = "done" => todo["closer"] = {}

(* Every step keeps what unload_all() has left to do. *)
LEMMA NextClosing == ModelInv /\ Closing /\ [Next]_vars => Closing'
<1> SUFFICES ASSUME ModelInv, Closing, [Next]_vars PROVE Closing'
  OBVIOUS
<1> USE NamesAssumption
  DEF ModelInv, TypeOK, Places, UserStates, SweeperStates, Tasks, Sweepers,
      Closing, At, Release, models, sweep, hist
<1>1. ASSUME NEW u \in Users, NEW m \in Models, EnsureLoaded(u, m) PROVE Closing'
  BY <1>1 DEF EnsureLoaded, EnsureLocked, MustWait
<1>2. ASSUME NEW u \in Users, Load(u) PROVE Closing'
  BY <1>2 DEF Load
<1>3. ASSUME NEW u \in Users, LoadRaises(u) PROVE Closing'
  BY <1>3 DEF LoadRaises
<1>4. ASSUME NEW u \in Users, Touch(u) PROVE Closing'
  BY <1>4 DEF Touch
<1>5. ASSUME NEW u \in Users, Finish(u) PROVE Closing'
  BY <1>5 DEF Finish
<1>6. ASSUME NEW u \in Users, CancelUser(u) PROVE Closing'
  BY <1>6 DEF CancelUser
<1>7. ASSUME NEW t \in Tasks, GetLock(t) PROVE Closing'
  BY <1>7 DEF GetLock, EnsureLocked, UnloadLocked, BeginUnload
<1>8. ASSUME NEW s \in Sweepers, NEW m \in Models, Visit(s, m) PROVE Closing'
  BY <1>8 DEF Visit, Due, MustWait, BeginUnload
<1>9. ASSUME NEW s \in Sweepers, SweepDone(s) PROVE Closing'
  BY <1>9 DEF SweepDone
<1>10. ASSUME NEW s \in Sweepers, Unload(s) PROVE Closing'
  BY <1>10 DEF Unload
<1>11. ASSUME NEW s \in Sweepers, UnloadRaises(s) PROVE Closing'
  BY <1>11 DEF UnloadRaises, AfterRaise
<1>12. CASE Sweep
  BY <1>12 DEF Sweep
<1>13. CASE StartReaper
  BY <1>13 DEF StartReaper, CancelReaper, Unloading
<1>14. CASE StopReaper
  BY <1>14 DEF StopReaper, CancelReaper, Unloading
<1>15. CASE SetTtl
  BY <1>15 DEF SetTtl
<1>16. CASE UnloadAll
  BY <1>16 DEF UnloadAll, CancelReaper, Unloading
<1>17. CASE Tick
  BY <1>17 DEF Tick
<1>18. ASSUME NEW m \in threads, ThreadEnds(m) PROVE Closing'
  BY <1>18 DEF ThreadEnds
<1>19. CASE UNCHANGED vars
  BY <1>19 DEF vars, hist
<1> QED
  BY <1>1, <1>2, <1>3, <1>4, <1>5, <1>6, <1>7, <1>8, <1>9, <1>10, <1>11, <1>12,
      <1>13, <1>14, <1>15, <1>16, <1>17, <1>18, <1>19
  DEF Next, Request, Reaping

(* When unload_all() returns, what is in memory was loaded after the call. *)
THEOREM ShutdownUnloadsAll == Spec => []ShutdownUnloads
<1>1. Init => Closing
  BY DEF Init, Closing, Tasks, Sweepers
<1>2. Closing => ShutdownUnloads
  BY DEF Closing, ShutdownUnloads
<1> QED
  BY <1>1, <1>2, ModelSpecInv, NextClosing, PTL DEF Spec

-----------------------------------------------------------------------------
(* A request that ensure_loaded() lets go on has a usable model. *)
Usable ==
    \A u \in Users : Returns(u) =>
        loaded'[on'[u]] /\ (on'[u] \in released' => on'[u] \in cut')

(* No step lets a request go on with a model that is being released. *)
LEMMA NextUsable == ModelInv /\ [Next]_vars => [Usable]_vars
<1> SUFFICES ASSUME ModelInv, [Next]_vars PROVE Usable \/ UNCHANGED vars
  OBVIOUS
<1> USE NamesAssumption
  DEF ModelInv, TypeOK, Places, TouchedIsCut, UserStates, SweeperStates, Tasks,
      Sweepers, Usable, Returns, At, Release, models, sweep, hist
<1>1. ASSUME NEW u \in Users, NEW m \in Models, EnsureLoaded(u, m) PROVE Usable
  BY <1>1 DEF EnsureLoaded, EnsureLocked, MustWait
<1>2. ASSUME NEW u \in Users, Load(u) PROVE Usable
  BY <1>2 DEF Load
<1>3. ASSUME NEW u \in Users, LoadRaises(u) PROVE Usable
  BY <1>3 DEF LoadRaises
<1>4. ASSUME NEW u \in Users, Touch(u) PROVE Usable
  BY <1>4 DEF Touch
<1>5. ASSUME NEW u \in Users, Finish(u) PROVE Usable
  BY <1>5 DEF Finish
<1>6. ASSUME NEW u \in Users, CancelUser(u) PROVE Usable
  BY <1>6 DEF CancelUser
<1>7. ASSUME NEW t \in Tasks, GetLock(t) PROVE Usable
  BY <1>7 DEF GetLock, EnsureLocked, UnloadLocked, BeginUnload
<1>8. ASSUME NEW s \in Sweepers, NEW m \in Models, Visit(s, m) PROVE Usable
  BY <1>8 DEF Visit, Due, MustWait, BeginUnload
<1>9. ASSUME NEW s \in Sweepers, SweepDone(s) PROVE Usable
  BY <1>9 DEF SweepDone
<1>10. ASSUME NEW s \in Sweepers, Unload(s) PROVE Usable
  BY <1>10 DEF Unload
<1>11. ASSUME NEW s \in Sweepers, UnloadRaises(s) PROVE Usable
  BY <1>11 DEF UnloadRaises, AfterRaise
<1>12. CASE Sweep
  BY <1>12 DEF Sweep
<1>13. CASE StartReaper
  BY <1>13 DEF StartReaper, CancelReaper, Unloading
<1>14. CASE StopReaper
  BY <1>14 DEF StopReaper, CancelReaper, Unloading
<1>15. CASE SetTtl
  BY <1>15 DEF SetTtl
<1>16. CASE UnloadAll
  BY <1>16 DEF UnloadAll, CancelReaper, Unloading
<1>17. CASE Tick
  BY <1>17 DEF Tick
<1>18. ASSUME NEW m \in threads, ThreadEnds(m) PROVE Usable
  BY <1>18 DEF ThreadEnds
<1>19. CASE UNCHANGED vars
  BY <1>19 DEF vars, hist
<1> QED
  BY <1>1, <1>2, <1>3, <1>4, <1>5, <1>6, <1>7, <1>8, <1>9, <1>10, <1>11, <1>12,
      <1>13, <1>14, <1>15, <1>16, <1>17, <1>18, <1>19
  DEF Next, Request, Reaping

(* ensure_loaded() returns only with a model in memory that no _do_unload  *)
(* has touched, unless an unload of it was cancelled or raised.            *)
THEOREM UsableAlways == Spec => UsableWhenEnsured
<1>1. Spec => [][Usable]_vars
  BY ModelSpecInv, NextUsable, PTL DEF Spec
<1> QED BY <1>1 DEF UsableWhenEnsured, Usable
=============================================================================
