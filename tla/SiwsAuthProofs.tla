---------------------------- MODULE SiwsAuthProofs ----------------------------
(***************************************************************************)
(* Theorems about Sign-In With Stellar, for any number of workers,         *)
(* addresses, challenges and verify calls, with either store.              *)
(***************************************************************************)
EXTENDS SiwsAuth, TLAPS

-----------------------------------------------------------------------------
(* The inductive invariants.                                               *)

(* A nonce lives in one store, and in one worker's memory. *)
StoresInv ==
    /\ store \in {"redis", "memory"}
    /\ store = "redis" => \A w \in Workers, n \in Nonces : memory[w][n] = 0
    /\ store = "memory" =>
        /\ \A n \in Nonces : redis[n] = 0 /\ challenge[n].at # "storing"
        /\ \A v \in Verifies : verify[v].at \notin {"consuming", "consumed"}
    /\ \A w \in Workers, n \in Nonces :
        memory[w][n] # 0 => challenge[n].at = "sent" /\ challenge[n].worker = w

(* A call that passed both checks carries a message that was handed out. *)
CallsInv ==
    /\ \A n \in Nonces : challenge[n].at # "unasked" => challenge[n].worker \in Workers
    /\ \A v \in Verifies : verify[v].at \in Passed =>
        /\ challenge[verify[v].nonce].at = "sent"
        /\ verify[v].signer = verify[v].address

(* A nonce is in its store, or on its way to one call, or was paid out. *)
SpendInv ==
    /\ \A n \in Nonces, a \in Addresses :
        (challenge[n].at # "sent" \/ redis[n] # 0 \/ \E w \in Workers : memory[w][n] # 0)
            => tokens[n][a] = 0
    /\ \A v \in Verifies : verify[v].at = "consumed" =>
        /\ verify[v].address = challenge[verify[v].nonce].address
        /\ redis[verify[v].nonce] = 0
        /\ \A a \in Addresses : tokens[verify[v].nonce][a] = 0
    /\ \A u, v \in Verifies :
        verify[u].at = "consumed" /\ verify[v].at = "consumed"
            /\ verify[u].nonce = verify[v].nonce => u = v
    /\ OneSessionPerChallenge

(* Nothing else ends a challenge before its time. *)
LiveInv ==
    \A n \in Nonces :
        ~Restarted /\ challenge[n].at = "sent" /\ challenge[n].expires > now =>
            \/ store = "redis" /\ redis[n] >= challenge[n].expires
            \/ store = "memory" /\ memory[challenge[n].worker][n] >= challenge[n].expires
            \/ Spent(n)

SiwsInv == StoresInv /\ CallsInv /\ SpendInv /\ LiveInv /\ RefusedForCause

-----------------------------------------------------------------------------
(* Types.                                                                  *)

LEMMA TypeInit == SiwsInit => SiwsTypeOK
BY SiwsAssumption DEF SiwsInit, SiwsTypeOK, NotAsked, Nobody

(* A call that passed both checks carries what it was sent with. *)
LEMMA PassedIsChecked ==
    ASSUME SiwsTypeOK, NEW v \in Verifies, verify[v].at \in Passed
    PROVE  verify[v] \in Checked
BY DEF SiwsTypeOK, Checked, Passed

(* Such a call may be moved to another stage. *)
LEMMA MovedIsChecked ==
    ASSUME NEW c \in Checked, NEW at \in Passed
    PROVE  [c EXCEPT !.at = at] \in Checked
BY DEF Checked

LEMMA TypeStep == SiwsTypeOK /\ [SiwsNext]_siwsVars => SiwsTypeOK'
<1> SUFFICES ASSUME SiwsTypeOK, [SiwsNext]_siwsVars PROVE SiwsTypeOK'
  OBVIOUS
<1> USE SiwsAssumption
<1>a. ASSUME NEW v \in Verifies, NEW at \in Passed, verify[v].at \in Passed,
             verify' = [verify EXCEPT ![v].at = at]
      PROVE  verify' \in [Verifies -> [at : {"new", "rejected"}] \cup Checked]
  <2>1. [verify[v] EXCEPT !.at = at] \in Checked
    BY <1>a, PassedIsChecked, MovedIsChecked
  <2>2. verify' = [verify EXCEPT ![v] = [verify[v] EXCEPT !.at = at]]
    BY <1>a
  <2> QED BY <2>1, <2>2 DEF SiwsTypeOK
<1>b. ASSUME NEW n \in Nonces, NEW at \in {"sent", "failed"},
             challenge' = [challenge EXCEPT ![n].at = at], now' = now
      PROVE  challenge' \in [Nonces -> [at : {"unasked", "storing", "sent", "failed"},
                                       address : Addresses \cup {Nobody},
                                       worker : Workers \cup {Nobody},
                                       expires : 0 .. now' + NonceTtl]]
  <2> DEFINE Record == [at : {"unasked", "storing", "sent", "failed"},
                        address : Addresses \cup {Nobody}, worker : Workers \cup {Nobody},
                        expires : 0 .. now + NonceTtl]
  <2>1. challenge \in [Nonces -> Record]
    BY DEF SiwsTypeOK
  <2>2. ASSUME NEW c \in Record PROVE [c EXCEPT !.at = at] \in Record
    OBVIOUS
  <2>3. challenge' = [challenge EXCEPT ![n] = [challenge[n] EXCEPT !.at = at]]
    BY <1>b
  <2> HIDE DEF Record
  <2>4. challenge' \in [Nonces -> Record]
    BY <2>1, <2>2, <2>3
  <2> QED BY <1>b, <2>4 DEF Record
<1>c. now + NonceTtl \in 0 .. now + NonceTtl
  BY DEF SiwsTypeOK
<1>0. CASE UNCHANGED siwsVars
  BY <1>0 DEF SiwsTypeOK, siwsVars
<1>1. CASE ClockTicks
  <2>1. now' \in 0 .. MaxNow /\ now \in Nat /\ now' = now + 1
    BY <1>1 DEF ClockTicks, SiwsTypeOK
  <2>2. 0 .. now + NonceTtl \subseteq 0 .. now' + NonceTtl
    BY <2>1
  <2> QED BY <1>1, <2>1, <2>2 DEF ClockTicks, SiwsTypeOK
<1>2. ASSUME NEW w \in Workers, WorkerRestarts(w) PROVE SiwsTypeOK'
  <2>1. ASSUME NEW v \in Verifies
        PROVE  verify'[v] \in [at : {"new", "rejected"}] \cup Checked
    <3>1. CASE verify[v].at \in {"consuming", "consumed"} /\ verify[v].worker = w
      <4>1. [verify[v] EXCEPT !.at = "failed"] \in Checked
        BY <3>1, PassedIsChecked, MovedIsChecked DEF Passed
      <4> QED BY <1>2, <3>1, <4>1 DEF WorkerRestarts
    <3>2. CASE ~(verify[v].at \in {"consuming", "consumed"} /\ verify[v].worker = w)
      BY <1>2, <3>2 DEF WorkerRestarts, SiwsTypeOK
    <3> QED BY <3>1, <3>2
  <2>2. memory' \in [Workers -> [Nonces -> 0 .. now + NonceTtl]] /\ lost' \in 0 .. MaxLost
    BY <1>2 DEF WorkerRestarts, SiwsTypeOK
  <2>4. verify' \in [Verifies -> [at : {"new", "rejected"}] \cup Checked]
    BY <1>2, <2>1 DEF WorkerRestarts
  <2> QED BY <1>2, <2>2, <2>4 DEF WorkerRestarts, SiwsTypeOK
<1>3. ASSUME NEW w \in Workers, NEW n \in Nonces, NEW a \in Addresses, ChallengeInRedis(w, n, a)
      PROVE  SiwsTypeOK'
  <2> QED BY <1>3, <1>c DEF ChallengeInRedis, AskedNow, SiwsTypeOK
<1>4. ASSUME NEW w \in Workers, NEW n \in Nonces, NEW a \in Addresses, ChallengeInMemory(w, n, a)
      PROVE  SiwsTypeOK'
  <2>2. ASSUME NEW m \in Nonces
        PROVE  (IF m = n THEN now + NonceTtl ELSE Sweep(memory[w][m])) \in 0 .. now + NonceTtl
    BY <1>c DEF Sweep, SiwsTypeOK
  <2>3. memory' \in [Workers -> [Nonces -> 0 .. now + NonceTtl]]
    BY <1>4, <2>2 DEF ChallengeInMemory, SiwsTypeOK
  <2> QED BY <1>4, <1>c, <2>3 DEF ChallengeInMemory, AskedNow, SiwsTypeOK
<1>5. ASSUME NEW n \in Nonces, RedisSet(n) PROVE SiwsTypeOK'
  <2>1. redis' \in [Nonces -> 0 .. now' + NonceTtl]
    BY <1>5, <1>c DEF RedisSet, ExpireAt, SiwsTypeOK
  <2> QED BY <1>5, <1>b, <2>1 DEF RedisSet, SiwsTypeOK
<1>6. ASSUME NEW n \in Nonces, RedisSetFails(n) PROVE SiwsTypeOK'
  <2>1. redis' \in [Nonces -> 0 .. now' + NonceTtl] /\ lost' \in 0 .. MaxLost
    BY <1>6, <1>c DEF RedisSetFails, ExpireAt, SiwsTypeOK
  <2> QED BY <1>6, <1>b, <2>1 DEF RedisSetFails, SiwsTypeOK
<1>7. ASSUME NEW v \in Verifies, NEW n \in Nonces, NEW a \in Addresses, NEW s \in Addresses,
             RejectMessage(v, n, a, s)
      PROVE  SiwsTypeOK'
  BY <1>7 DEF RejectMessage, SiwsTypeOK
<1>8. ASSUME NEW v \in Verifies, NEW w \in Workers, NEW n \in Nonces, NEW a \in Addresses,
             NEW s \in Addresses, VerifyInMemory(v, w, n, a, s)
      PROVE  SiwsTypeOK'
  <2>1. /\ Submitted(w, n, a, s, "granted") \in Checked
        /\ Submitted(w, n, a, s, "refused") \in Checked
    BY DEF Submitted, Checked, Passed
  <2>2. verify' \in [Verifies -> [at : {"new", "rejected"}] \cup Checked]
    BY <1>8, <2>1 DEF VerifyInMemory, SiwsTypeOK
  <2>3. memory' \in [Workers -> [Nonces -> 0 .. now + NonceTtl]]
    BY <1>8 DEF VerifyInMemory, DeleteFromMemory, SiwsTypeOK
  <2>4. tokens' \in [Nonces -> [Addresses -> Nat]]
    <3>1. CASE SignTokens(n, a)
      BY <3>1 DEF SignTokens, SiwsTypeOK
    <3>2. CASE UNCHANGED tokens
      BY <3>2 DEF SiwsTypeOK
    <3> QED BY <1>8, <3>1, <3>2 DEF VerifyInMemory
  <2> QED BY <1>8, <2>2, <2>3, <2>4 DEF VerifyInMemory, SiwsTypeOK
<1>9. ASSUME NEW v \in Verifies, NEW w \in Workers, NEW n \in Nonces, NEW a \in Addresses,
             NEW s \in Addresses, VerifyInRedis(v, w, n, a, s)
      PROVE  SiwsTypeOK'
  <2>1. Submitted(w, n, a, s, "consuming") \in Checked
    BY DEF Submitted, Checked, Passed
  <2> QED BY <1>9, <2>1 DEF VerifyInRedis, SiwsTypeOK
<1>10. ASSUME NEW v \in Verifies, GetDelHit(v) PROVE SiwsTypeOK'
  <2>1. verify' \in [Verifies -> [at : {"new", "rejected"}] \cup Checked]
    BY <1>10, <1>a DEF GetDelHit, Passed
  <2>2. verify[v].nonce \in Nonces
    BY <1>10, PassedIsChecked DEF GetDelHit, Passed, Checked
  <2> QED BY <1>10, <2>1, <2>2 DEF GetDelHit, Del, SiwsTypeOK
<1>11. ASSUME NEW v \in Verifies, GetDelMiss(v) PROVE SiwsTypeOK'
  <2>1. verify' \in [Verifies -> [at : {"new", "rejected"}] \cup Checked]
    BY <1>11, <1>a DEF GetDelMiss, Passed
  <2> QED BY <1>11, <2>1 DEF GetDelMiss, SiwsTypeOK
<1>12. ASSUME NEW v \in Verifies, Grant(v) PROVE SiwsTypeOK'
  <2>1. verify' \in [Verifies -> [at : {"new", "rejected"}] \cup Checked]
    BY <1>12, <1>a DEF Grant, Passed
  <2>2. verify[v].nonce \in Nonces /\ verify[v].address \in Addresses
    BY <1>12, PassedIsChecked DEF Grant, Passed, Checked
  <2> QED BY <1>12, <2>1, <2>2 DEF Grant, SignTokens, SiwsTypeOK
<1>13. ASSUME NEW v \in Verifies, GetDelFails(v) PROVE SiwsTypeOK'
  <2>1. verify' \in [Verifies -> [at : {"new", "rejected"}] \cup Checked]
    BY <1>13, <1>a DEF GetDelFails, Passed
  <2> QED BY <1>13, <2>1 DEF GetDelFails, SiwsTypeOK
<1> QED
  BY <1>0, <1>1, <1>2, <1>3, <1>4, <1>5, <1>6, <1>7, <1>8, <1>9, <1>10, <1>11, <1>12, <1>13
  DEF SiwsNext, Challenge, VerifyCall

(* Every variable of the sign-in keeps its type, whatever the bounds. *)
THEOREM TypeCorrect == SiwsSpec => []SiwsTypeOK
BY TypeInit, TypeStep, PTL DEF SiwsSpec

-----------------------------------------------------------------------------

(* A nonce stays in the one store. *)
LEMMA StoresStep == SiwsTypeOK /\ StoresInv /\ [SiwsNext]_siwsVars => StoresInv'
<1> SUFFICES ASSUME SiwsTypeOK, StoresInv, [SiwsNext]_siwsVars PROVE StoresInv'
  OBVIOUS
<1> USE SiwsAssumption DEF SiwsTypeOK, Checked, Passed
<1>0. CASE UNCHANGED siwsVars
  BY <1>0 DEF siwsVars, StoresInv
<1>1. ASSUME ClockTicks PROVE StoresInv'
  BY <1>1 DEF ClockTicks, StoresInv
<1>2. ASSUME NEW w \in Workers, WorkerRestarts(w) PROVE StoresInv'
  BY <1>2 DEF WorkerRestarts, StoresInv
<1>3. ASSUME NEW w \in Workers, NEW n \in Nonces, NEW a \in Addresses,
             ChallengeInRedis(w, n, a)
      PROVE  StoresInv'
  BY <1>3 DEF ChallengeInRedis, AskedNow, StoresInv
<1>4. ASSUME NEW w \in Workers, NEW n \in Nonces, NEW a \in Addresses,
             ChallengeInMemory(w, n, a)
      PROVE  StoresInv'
  BY <1>4 DEF ChallengeInMemory, AskedNow, Sweep, StoresInv
<1>5. ASSUME NEW n \in Nonces, RedisSet(n) PROVE StoresInv'
  BY <1>5 DEF RedisSet, ExpireAt, StoresInv
<1>6. ASSUME NEW n \in Nonces, RedisSetFails(n) PROVE StoresInv'
  BY <1>6 DEF RedisSetFails, ExpireAt, StoresInv
<1>7. ASSUME NEW v \in Verifies, NEW n \in Nonces, NEW a \in Addresses, NEW s \in Addresses,
             RejectMessage(v, n, a, s)
      PROVE  StoresInv'
  BY <1>7 DEF RejectMessage, Arrives, StoresInv
<1>8. ASSUME NEW v \in Verifies, NEW w \in Workers, NEW n \in Nonces, NEW a \in Addresses,
             NEW s \in Addresses, VerifyInMemory(v, w, n, a, s)
      PROVE  StoresInv'
  <2>1. /\ verify'[v].at = IF Held(memory[w][n], n, a) THEN "granted" ELSE "refused"
        /\ verify'[v].nonce = n /\ verify'[v].address = a
        /\ verify'[v].signer = s /\ verify'[v].worker = w
    BY <1>8 DEF VerifyInMemory, Submitted
  <2>2. \A u \in Verifies : u # v => verify'[u] = verify[u]
    BY <1>8 DEF VerifyInMemory
  <2>3. /\ UNCHANGED <<now, store, challenge, redis, lost>>
        /\ store = "memory" /\ a = s /\ challenge[n].at = "sent" /\ challenge[n].expires > now
        /\ verify[v].at = "new"
    BY <1>8 DEF VerifyInMemory, Arrives, Unexpired, Verified
  <2>4. memory' = IF challenge[n].address = a THEN [memory EXCEPT ![w][n] = 0] ELSE memory
    BY <1>8 DEF VerifyInMemory, DeleteFromMemory
  <2>5. \A u \in Verifies : verify'[u].at \notin {"consuming", "consumed"}
    BY ZenonT(60), <2>1, <2>2, <2>3 DEF StoresInv
  <2>6. \A x \in Workers, m \in Nonces : memory'[x][m] # 0 => memory[x][m] # 0
    BY <2>4
  <2> QED BY <2>3, <2>5, <2>6 DEF StoresInv
<1>9. ASSUME NEW v \in Verifies, NEW w \in Workers, NEW n \in Nonces, NEW a \in Addresses,
             NEW s \in Addresses, VerifyInRedis(v, w, n, a, s)
      PROVE  StoresInv'
  BY <1>9 DEF VerifyInRedis, Arrives, Unexpired, Verified, Submitted, StoresInv
<1>10. ASSUME NEW v \in Verifies, GetDelHit(v) PROVE StoresInv'
  BY <1>10 DEF GetDelHit, Held, Del, StoresInv
<1>11. ASSUME NEW v \in Verifies, GetDelMiss(v) PROVE StoresInv'
  BY <1>11 DEF GetDelMiss, Held, StoresInv
<1>12. ASSUME NEW v \in Verifies, Grant(v) PROVE StoresInv'
  BY <1>12 DEF Grant, SignTokens, StoresInv
<1>13. ASSUME NEW v \in Verifies, GetDelFails(v) PROVE StoresInv'
  BY <1>13 DEF GetDelFails, StoresInv
<1> QED
  BY <1>0, <1>1, <1>2, <1>3, <1>4, <1>5, <1>6, <1>7, <1>8, <1>9, <1>10, <1>11, <1>12, <1>13
  DEF SiwsNext, Challenge, VerifyCall

(* No call overtakes its challenge. *)
LEMMA CallsStep == SiwsTypeOK /\ CallsInv /\ [SiwsNext]_siwsVars => CallsInv'
<1> SUFFICES ASSUME SiwsTypeOK, CallsInv, [SiwsNext]_siwsVars PROVE CallsInv'
  OBVIOUS
<1> USE SiwsAssumption DEF SiwsTypeOK, Checked, Passed
<1>0. CASE UNCHANGED siwsVars
  BY <1>0 DEF siwsVars, CallsInv
<1>1. ASSUME ClockTicks PROVE CallsInv'
  BY <1>1 DEF ClockTicks, CallsInv
<1>2. ASSUME NEW w \in Workers, WorkerRestarts(w) PROVE CallsInv'
  BY <1>2 DEF WorkerRestarts, CallsInv
<1>3. ASSUME NEW w \in Workers, NEW n \in Nonces, NEW a \in Addresses,
             ChallengeInRedis(w, n, a)
      PROVE  CallsInv'
  BY <1>3 DEF ChallengeInRedis, AskedNow, CallsInv
<1>4. ASSUME NEW w \in Workers, NEW n \in Nonces, NEW a \in Addresses,
             ChallengeInMemory(w, n, a)
      PROVE  CallsInv'
  BY <1>4 DEF ChallengeInMemory, AskedNow, Sweep, CallsInv
<1>5. ASSUME NEW n \in Nonces, RedisSet(n) PROVE CallsInv'
  BY <1>5 DEF RedisSet, ExpireAt, CallsInv
<1>6. ASSUME NEW n \in Nonces, RedisSetFails(n) PROVE CallsInv'
  BY <1>6 DEF RedisSetFails, ExpireAt, CallsInv
<1>7. ASSUME NEW v \in Verifies, NEW n \in Nonces, NEW a \in Addresses, NEW s \in Addresses,
             RejectMessage(v, n, a, s)
      PROVE  CallsInv'
  BY <1>7 DEF RejectMessage, Arrives, CallsInv
<1>8. ASSUME NEW v \in Verifies, NEW w \in Workers, NEW n \in Nonces, NEW a \in Addresses,
             NEW s \in Addresses, VerifyInMemory(v, w, n, a, s)
      PROVE  CallsInv'
  <2>1. /\ verify'[v].at = IF Held(memory[w][n], n, a) THEN "granted" ELSE "refused"
        /\ verify'[v].nonce = n /\ verify'[v].address = a
        /\ verify'[v].signer = s /\ verify'[v].worker = w
    BY <1>8 DEF VerifyInMemory, Submitted
  <2>2. \A u \in Verifies : u # v => verify'[u] = verify[u]
    BY <1>8 DEF VerifyInMemory
  <2>3. /\ UNCHANGED <<now, store, challenge, redis, lost>>
        /\ store = "memory" /\ a = s /\ challenge[n].at = "sent" /\ challenge[n].expires > now
        /\ verify[v].at = "new"
    BY <1>8 DEF VerifyInMemory, Arrives, Unexpired, Verified
  <2>4. CallsInv!1'
    BY <2>3 DEF CallsInv
  <2>5. ASSUME NEW u \in Verifies, verify'[u].at \in Passed
        PROVE  challenge'[verify'[u].nonce].at = "sent" /\ verify'[u].signer = verify'[u].address
    BY <2>1, <2>2, <2>3, <2>5 DEF CallsInv
  <2> QED BY <2>1, <2>2, <2>3, <2>4, <2>5 DEF CallsInv
<1>9. ASSUME NEW v \in Verifies, NEW w \in Workers, NEW n \in Nonces, NEW a \in Addresses,
             NEW s \in Addresses, VerifyInRedis(v, w, n, a, s)
      PROVE  CallsInv'
  BY <1>9 DEF VerifyInRedis, Arrives, Unexpired, Verified, Submitted, CallsInv
<1>10. ASSUME NEW v \in Verifies, GetDelHit(v) PROVE CallsInv'
  BY <1>10 DEF GetDelHit, Held, Del, CallsInv
<1>11. ASSUME NEW v \in Verifies, GetDelMiss(v) PROVE CallsInv'
  BY <1>11 DEF GetDelMiss, Held, CallsInv
<1>12. ASSUME NEW v \in Verifies, Grant(v) PROVE CallsInv'
  BY <1>12 DEF Grant, SignTokens, CallsInv
<1>13. ASSUME NEW v \in Verifies, GetDelFails(v) PROVE CallsInv'
  BY <1>13 DEF GetDelFails, CallsInv
<1> QED
  BY <1>0, <1>1, <1>2, <1>3, <1>4, <1>5, <1>6, <1>7, <1>8, <1>9, <1>10, <1>11, <1>12, <1>13
  DEF SiwsNext, Challenge, VerifyCall

(* A nonce is spent once. *)
LEMMA SpendStep ==
    SiwsTypeOK /\ StoresInv /\ CallsInv /\ SpendInv /\ [SiwsNext]_siwsVars => SpendInv'
<1> SUFFICES ASSUME SiwsTypeOK, StoresInv, CallsInv, SpendInv, [SiwsNext]_siwsVars PROVE SpendInv'
  OBVIOUS
<1> USE SiwsAssumption DEF SiwsTypeOK, Checked, Passed
<1>0. CASE UNCHANGED siwsVars
  BY <1>0 DEF siwsVars, StoresInv, CallsInv, SpendInv, OneSessionPerChallenge
<1>1. ASSUME ClockTicks PROVE SpendInv'
  BY <1>1 DEF ClockTicks, StoresInv, CallsInv, SpendInv, OneSessionPerChallenge
<1>2. ASSUME NEW w \in Workers, WorkerRestarts(w) PROVE SpendInv'
  BY <1>2 DEF WorkerRestarts, StoresInv, CallsInv, SpendInv, OneSessionPerChallenge
<1>3. ASSUME NEW w \in Workers, NEW n \in Nonces, NEW a \in Addresses,
             ChallengeInRedis(w, n, a)
      PROVE  SpendInv'
  BY <1>3 DEF ChallengeInRedis, AskedNow, StoresInv, CallsInv, SpendInv, OneSessionPerChallenge
<1>4. ASSUME NEW w \in Workers, NEW n \in Nonces, NEW a \in Addresses,
             ChallengeInMemory(w, n, a)
      PROVE  SpendInv'
  BY <1>4
  DEF ChallengeInMemory, AskedNow, Sweep, StoresInv, CallsInv, SpendInv, OneSessionPerChallenge
<1>5. ASSUME NEW n \in Nonces, RedisSet(n) PROVE SpendInv'
  BY <1>5 DEF RedisSet, ExpireAt, StoresInv, CallsInv, SpendInv, OneSessionPerChallenge
<1>6. ASSUME NEW n \in Nonces, RedisSetFails(n) PROVE SpendInv'
  BY <1>6 DEF RedisSetFails, ExpireAt, StoresInv, CallsInv, SpendInv, OneSessionPerChallenge
<1>7. ASSUME NEW v \in Verifies, NEW n \in Nonces, NEW a \in Addresses, NEW s \in Addresses,
             RejectMessage(v, n, a, s)
      PROVE  SpendInv'
  BY <1>7 DEF RejectMessage, Arrives, StoresInv, CallsInv, SpendInv, OneSessionPerChallenge
<1>8. ASSUME NEW v \in Verifies, NEW w \in Workers, NEW n \in Nonces, NEW a \in Addresses,
             NEW s \in Addresses, VerifyInMemory(v, w, n, a, s)
      PROVE  SpendInv'
  <2>1. /\ verify'[v].at = IF Held(memory[w][n], n, a) THEN "granted" ELSE "refused"
        /\ verify'[v].nonce = n /\ verify'[v].address = a
        /\ verify'[v].signer = s /\ verify'[v].worker = w
    BY <1>8 DEF VerifyInMemory, Submitted
  <2>2. \A u \in Verifies : u # v => verify'[u] = verify[u]
    BY <1>8 DEF VerifyInMemory
  <2>3. /\ UNCHANGED <<now, store, challenge, redis, lost>>
        /\ store = "memory" /\ a = s /\ challenge[n].at = "sent" /\ challenge[n].expires > now
        /\ verify[v].at = "new"
    BY <1>8 DEF VerifyInMemory, Arrives, Unexpired, Verified
  <2>4. memory' = IF challenge[n].address = a THEN [memory EXCEPT ![w][n] = 0] ELSE memory
    BY <1>8 DEF VerifyInMemory, DeleteFromMemory
  <2>5. \A m \in Nonces, b \in Addresses :
            tokens'[m][b] = IF m = n /\ b = a /\ Held(memory[w][n], n, a)
                            THEN tokens[m][b] + 1 ELSE tokens[m][b]
    BY <1>8 DEF VerifyInMemory, SignTokens
  <2>6. \A u \in Verifies : verify'[u].at \notin {"consuming", "consumed"}
    BY ZenonT(60), <2>1, <2>2, <2>3 DEF StoresInv
  <2>7. \A m \in Nonces : m # n => \A x \in Workers : memory'[x][m] = memory[x][m]
    BY <2>4
  <2>8. CASE Held(memory[w][n], n, a)
    <3>1. challenge[n].address = a /\ memory[w][n] # 0 /\ challenge[n].worker = w
      BY <2>8 DEF Held, StoresInv
    <3>2. \A x \in Workers : memory'[x][n] = 0
      BY <2>4, <3>1 DEF StoresInv
    <3>3. \A b \in Addresses : tokens[n][b] = 0
      BY <3>1 DEF SpendInv
    <3>4. redis[n] = 0
      BY <2>3 DEF StoresInv
    <3> QED BY <2>3, <2>5, <2>6, <2>7, <2>8, <3>1, <3>2, <3>3, <3>4
  DEF SpendInv, OneSessionPerChallenge
  <2>9. CASE ~Held(memory[w][n], n, a)
    <3>1. \A x \in Workers, m \in Nonces : memory'[x][m] # 0 => memory[x][m] # 0
      BY <2>4
    <3> QED BY <2>3, <2>5, <2>6, <2>9, <3>1 DEF SpendInv, OneSessionPerChallenge
  <2> QED BY <2>8, <2>9
<1>9. ASSUME NEW v \in Verifies, NEW w \in Workers, NEW n \in Nonces, NEW a \in Addresses,
             NEW s \in Addresses, VerifyInRedis(v, w, n, a, s)
      PROVE  SpendInv'
  BY <1>9
  DEF VerifyInRedis, Arrives, Unexpired, Verified, Submitted, StoresInv, CallsInv, SpendInv,
      OneSessionPerChallenge
<1>10. ASSUME NEW v \in Verifies, GetDelHit(v) PROVE SpendInv'
  BY SMTT(30), <1>10 DEF GetDelHit, Held, Del, StoresInv, CallsInv, SpendInv, OneSessionPerChallenge
<1>11. ASSUME NEW v \in Verifies, GetDelMiss(v) PROVE SpendInv'
  BY <1>11 DEF GetDelMiss, Held, StoresInv, CallsInv, SpendInv, OneSessionPerChallenge
<1>12. ASSUME NEW v \in Verifies, Grant(v) PROVE SpendInv'
  BY <1>12 DEF Grant, SignTokens, StoresInv, CallsInv, SpendInv, OneSessionPerChallenge
<1>13. ASSUME NEW v \in Verifies, GetDelFails(v) PROVE SpendInv'
  BY <1>13 DEF GetDelFails, StoresInv, CallsInv, SpendInv, OneSessionPerChallenge
<1> QED
  BY <1>0, <1>1, <1>2, <1>3, <1>4, <1>5, <1>6, <1>7, <1>8, <1>9, <1>10, <1>11, <1>12, <1>13
  DEF SiwsNext, Challenge, VerifyCall

(* Only time, a loss or its owner ends a challenge. *)
LEMMA LiveStep == SiwsTypeOK /\ StoresInv /\ CallsInv /\ LiveInv /\ [SiwsNext]_siwsVars => LiveInv'
<1> SUFFICES ASSUME SiwsTypeOK, StoresInv, CallsInv, LiveInv, [SiwsNext]_siwsVars PROVE LiveInv'
  OBVIOUS
<1> USE SiwsAssumption DEF SiwsTypeOK, Checked, Passed
<1>0. CASE UNCHANGED siwsVars
  BY <1>0 DEF siwsVars, StoresInv, CallsInv, LiveInv, Restarted, Spent
<1>1. ASSUME ClockTicks PROVE LiveInv'
  BY SMTT(30), <1>1 DEF ClockTicks, StoresInv, CallsInv, LiveInv, Restarted, Spent
<1>2. ASSUME NEW w \in Workers, WorkerRestarts(w) PROVE LiveInv'
  BY <1>2 DEF WorkerRestarts, StoresInv, CallsInv, LiveInv, Restarted, Spent
<1>3. ASSUME NEW w \in Workers, NEW n \in Nonces, NEW a \in Addresses,
             ChallengeInRedis(w, n, a)
      PROVE  LiveInv'
  BY <1>3 DEF ChallengeInRedis, AskedNow, StoresInv, CallsInv, LiveInv, Restarted, Spent
<1>4. ASSUME NEW w \in Workers, NEW n \in Nonces, NEW a \in Addresses,
             ChallengeInMemory(w, n, a)
      PROVE  LiveInv'
  <2>1. /\ UNCHANGED <<now, store, redis, verify, lost>> /\ store = "memory"
        /\ challenge'[n].worker = w /\ challenge'[n].expires = now + NonceTtl
        /\ \A m \in Nonces : m # n => challenge'[m] = challenge[m]
    BY <1>4 DEF ChallengeInMemory, AskedNow
  <2>2. /\ memory'[w][n] = now + NonceTtl
        /\ \A m \in Nonces, x \in Workers : m # n =>
             memory'[x][m] = IF x = w THEN Sweep(memory[x][m]) ELSE memory[x][m]
    BY <1>4 DEF ChallengeInMemory
  <2> SUFFICES ASSUME NEW m \in Nonces, ~Restarted, challenge'[m].at = "sent",
                      challenge'[m].expires > now, ~Spent(m)'
               PROVE  memory'[challenge'[m].worker][m] >= challenge'[m].expires
    BY <2>1 DEF LiveInv, Restarted
  <2>3. CASE m = n
    BY <2>1, <2>2, <2>3
  <2>4. CASE m # n
    <3>1. ~Spent(m)
      BY <2>1, <2>4 DEF Restarted, Spent
    <3>2. memory[challenge[m].worker][m] >= challenge[m].expires
      BY <2>1, <2>4, <3>1 DEF LiveInv, Restarted
    <3>3. challenge[m].worker \in Workers
      BY <2>1, <2>4 DEF CallsInv
    <3> QED BY SMTT(30), <2>1, <2>2, <2>4, <3>2, <3>3 DEF Sweep
  <2> QED BY <2>3, <2>4
<1>5. ASSUME NEW n \in Nonces, RedisSet(n) PROVE LiveInv'
  <2>1. /\ UNCHANGED <<now, store, memory, verify, lost>>
        /\ challenge[n].at = "storing"
        /\ redis'[n] = now + NonceTtl /\ \A m \in Nonces : m # n => redis'[m] = redis[m]
        /\ challenge'[n].expires = challenge[n].expires
        /\ \A m \in Nonces : m # n => challenge'[m] = challenge[m]
    BY <1>5 DEF RedisSet, ExpireAt
  <2>2. store = "redis" /\ challenge[n].expires <= now + NonceTtl
    BY <2>1 DEF StoresInv
  <2>3. \A m \in Nonces : m # n => (Spent(m) => Spent(m)')
    BY <2>1 DEF Restarted, Spent
  <2>4. redis'[n] >= challenge'[n].expires
    BY <2>1, <2>2
  <2> QED BY <2>1, <2>2, <2>3, <2>4 DEF LiveInv, Restarted
<1>6. ASSUME NEW n \in Nonces, RedisSetFails(n) PROVE LiveInv'
  BY <1>6 DEF RedisSetFails, ExpireAt, StoresInv, CallsInv, LiveInv, Restarted, Spent
<1>7. ASSUME NEW v \in Verifies, NEW n \in Nonces, NEW a \in Addresses, NEW s \in Addresses,
             RejectMessage(v, n, a, s)
      PROVE  LiveInv'
  BY <1>7 DEF RejectMessage, Arrives, StoresInv, CallsInv, LiveInv, Restarted, Spent
<1>8. ASSUME NEW v \in Verifies, NEW w \in Workers, NEW n \in Nonces, NEW a \in Addresses,
             NEW s \in Addresses, VerifyInMemory(v, w, n, a, s)
      PROVE  LiveInv'
  <2>1. /\ verify'[v].at = IF Held(memory[w][n], n, a) THEN "granted" ELSE "refused"
        /\ verify'[v].nonce = n /\ verify'[v].address = a
        /\ verify'[v].signer = s /\ verify'[v].worker = w
    BY <1>8 DEF VerifyInMemory, Submitted
  <2>2. \A u \in Verifies : u # v => verify'[u] = verify[u]
    BY <1>8 DEF VerifyInMemory
  <2>3. /\ UNCHANGED <<now, store, challenge, redis, lost>>
        /\ store = "memory" /\ a = s /\ challenge[n].at = "sent" /\ challenge[n].expires > now
        /\ verify[v].at = "new"
    BY <1>8 DEF VerifyInMemory, Arrives, Unexpired, Verified
  <2>4. memory' = IF challenge[n].address = a THEN [memory EXCEPT ![w][n] = 0] ELSE memory
    BY <1>8 DEF VerifyInMemory, DeleteFromMemory
  <2>5. \A m \in Nonces : Spent(m) => Spent(m)'
    BY <2>2, <2>3 DEF Restarted, Spent
  <2>6. ASSUME NEW m \in Nonces, ~Restarted, challenge[m].at = "sent", challenge[m].expires > now,
               ~Spent(m)'
        PROVE  memory'[challenge[m].worker][m] >= challenge[m].expires
    <3>1. memory[challenge[m].worker][m] >= challenge[m].expires
      BY <2>3, <2>5, <2>6 DEF LiveInv, Restarted
    <3>2. CASE m = n /\ challenge[n].address = a
      <4>1. ~Held(memory[w][n], n, a)
        BY <2>1, <2>3, <2>6, <3>2 DEF Restarted, Spent
      <4>2. w # challenge[n].worker
        BY <2>6, <3>1, <3>2, <4>1 DEF Held
      <4> QED BY <2>4, <3>1, <3>2, <4>2
    <3>3. CASE m # n \/ challenge[n].address # a
      BY <2>4, <3>1, <3>3
    <3> QED BY <3>2, <3>3
  <2> QED BY <2>3, <2>6 DEF LiveInv, Restarted
<1>9. ASSUME NEW v \in Verifies, NEW w \in Workers, NEW n \in Nonces, NEW a \in Addresses,
             NEW s \in Addresses, VerifyInRedis(v, w, n, a, s)
      PROVE  LiveInv'
  BY <1>9
  DEF VerifyInRedis, Arrives, Unexpired, Verified, Submitted, StoresInv, CallsInv, LiveInv,
      Restarted, Spent
<1>10. ASSUME NEW v \in Verifies, GetDelHit(v) PROVE LiveInv'
  <2> DEFINE n == verify[v].nonce
  <2>1. /\ verify[v].at = "consuming" /\ verify[v].address = challenge[n].address
        /\ UNCHANGED <<now, store, challenge, memory, lost>>
    BY <1>10 DEF GetDelHit, Held
  <2>2. \A u \in Verifies : verify'[u] = IF u = v THEN [verify[v] EXCEPT !.at = "consumed"]
                                         ELSE verify[u]
    BY <1>10 DEF GetDelHit
  <2>3. /\ verify'[v].at = "consumed" /\ verify'[v].nonce = n
        /\ verify'[v].address = verify[v].address
    BY <2>1, <2>2, PassedIsChecked
  <2>4. \A m \in Nonces : m # n => redis'[m] = redis[m]
    BY <1>10 DEF GetDelHit, Del
  <2>5. \A m \in Nonces : m = n \/ Spent(m) => Spent(m)'
    BY <2>1, <2>2, <2>3 DEF Restarted, Spent
  <2> HIDE DEF n
  <2> QED BY <2>1, <2>4, <2>5 DEF LiveInv, Restarted
<1>11. ASSUME NEW v \in Verifies, GetDelMiss(v) PROVE LiveInv'
  BY <1>11 DEF GetDelMiss, Held, StoresInv, CallsInv, LiveInv, Restarted, Spent
<1>12. ASSUME NEW v \in Verifies, Grant(v) PROVE LiveInv'
  <2>1. \A u \in Verifies : verify'[u] = IF u = v THEN [verify[v] EXCEPT !.at = "granted"]
                                         ELSE verify[u]
    BY <1>12 DEF Grant
  <2>2. verify[v].at = "consumed" /\ UNCHANGED <<now, store, challenge, redis, memory, lost>>
    BY <1>12 DEF Grant
  <2>3. \A m \in Nonces : Spent(m) => Spent(m)'
    <3>1. verify[v] \in Checked
      BY <2>2, PassedIsChecked DEF Passed
    <3>2. verify'[v].at = "granted" /\ verify'[v].nonce = verify[v].nonce
            /\ verify'[v].address = verify[v].address
      BY <2>1, <3>1 DEF Checked
    <3> QED BY <2>1, <2>2, <3>2 DEF Restarted, Spent
  <2> QED BY <2>2, <2>3 DEF LiveInv, Restarted
<1>13. ASSUME NEW v \in Verifies, GetDelFails(v) PROVE LiveInv'
  <2>1. /\ verify[v] \in Checked /\ verify' = [verify EXCEPT ![v].at = "failed"]
        /\ UNCHANGED <<now, store, challenge, redis, memory>> /\ store = "redis"
    BY <1>13, PassedIsChecked DEF GetDelFails, StoresInv
  <2>2. \A m \in Nonces : Spent(m) => Spent(m)'
    BY <2>1 DEF Spent
  <2> QED BY <2>1, <2>2 DEF LiveInv, Restarted
<1> QED
  BY <1>0, <1>1, <1>2, <1>3, <1>4, <1>5, <1>6, <1>7, <1>8, <1>9, <1>10, <1>11, <1>12, <1>13
  DEF SiwsNext, Challenge, VerifyCall

(* Why a call may be refused (RefusedForCause). *)
HasCause(v) ==
    LET n == verify[v].nonce
    IN  \/ verify[v].address # challenge[n].address
        \/ Spent(n)
        \/ Restarted
        \/ challenge[n].expires <= now
        \/ store = "memory" /\ challenge[n].worker # verify[v].worker

(* What was refused with a cause still has one when no call is unspent and *)
(* nothing that was handed out changes.                                    *)
Ended == {"consumed", "granted", "failed"}

LEMMA CauseKept ==
    ASSUME SiwsTypeOK, CallsInv, RefusedForCause, UNCHANGED <<now, store>>,
           lost' = lost \/ lost' = lost + 1,
           \A n \in Nonces : challenge[n].at = "sent" => challenge'[n] = challenge[n],
           \A u \in Verifies :
                /\ verify'[u].at = "refused" => verify'[u] = verify[u]
                /\ verify[u].at \in Ended =>
                        /\ verify'[u].at \in Ended
                        /\ verify'[u].nonce = verify[u].nonce
                        /\ verify'[u].address = verify[u].address
    PROVE  RefusedForCause'
<1>1. \A n \in Nonces : challenge'[n].address = challenge[n].address /\ Spent(n) => Spent(n)'
  BY DEF Spent, Ended
<1>2. Restarted => Restarted'
  BY DEF Restarted, SiwsTypeOK
<1>3. ASSUME NEW v \in Verifies, verify'[v].at = "refused"
      PROVE  /\ verify'[v] = verify[v] /\ verify[v].nonce \in Nonces
             /\ challenge'[verify[v].nonce] = challenge[verify[v].nonce]
  <2>1. verify'[v] = verify[v] /\ verify[v].at \in Passed
    BY <1>3 DEF Passed
  <2>2. verify[v].nonce \in Nonces /\ challenge[verify[v].nonce].at = "sent"
    BY <2>1, PassedIsChecked DEF CallsInv, Checked
  <2> QED BY <2>1, <2>2
<1> QED BY <1>1, <1>2, <1>3 DEF RefusedForCause

(* A refusal keeps its cause. *)
LEMMA CauseStep ==
    SiwsTypeOK /\ StoresInv /\ CallsInv /\ LiveInv /\ RefusedForCause /\ [SiwsNext]_siwsVars
        => RefusedForCause'
<1> SUFFICES ASSUME SiwsTypeOK, StoresInv, CallsInv, LiveInv, RefusedForCause, [SiwsNext]_siwsVars
             PROVE  RefusedForCause'
  OBVIOUS
<1> USE SiwsAssumption DEF SiwsTypeOK, Checked, Passed
<1>0. CASE UNCHANGED siwsVars
  BY <1>0 DEF siwsVars, StoresInv, CallsInv, LiveInv, RefusedForCause, Restarted, Spent
<1>1. ASSUME ClockTicks PROVE RefusedForCause'
  BY <1>1 DEF ClockTicks, StoresInv, CallsInv, LiveInv, RefusedForCause, Restarted, Spent
<1>2. ASSUME NEW w \in Workers, WorkerRestarts(w) PROVE RefusedForCause'
  BY <1>2 DEF WorkerRestarts, StoresInv, CallsInv, LiveInv, RefusedForCause, Restarted, Spent
<1>3. ASSUME NEW w \in Workers, NEW n \in Nonces, NEW a \in Addresses,
             ChallengeInRedis(w, n, a)
      PROVE  RefusedForCause'
  BY <1>3, CauseKept DEF ChallengeInRedis, AskedNow, Ended
<1>4. ASSUME NEW w \in Workers, NEW n \in Nonces, NEW a \in Addresses,
             ChallengeInMemory(w, n, a)
      PROVE  RefusedForCause'
  BY <1>4, CauseKept DEF ChallengeInMemory, AskedNow, Ended
<1>5. ASSUME NEW n \in Nonces, RedisSet(n) PROVE RefusedForCause'
  BY <1>5, CauseKept DEF RedisSet, Ended
<1>6. ASSUME NEW n \in Nonces, RedisSetFails(n) PROVE RefusedForCause'
  <2>1. /\ challenge[n].at = "storing" /\ UNCHANGED <<now, store, verify>>
        /\ lost' = lost + 1
        /\ \A m \in Nonces : m # n => challenge'[m] = challenge[m]
    BY <1>6 DEF RedisSetFails
  <2> QED BY <2>1, CauseKept DEF Ended
<1>7. ASSUME NEW v \in Verifies, NEW n \in Nonces, NEW a \in Addresses, NEW s \in Addresses,
             RejectMessage(v, n, a, s)
      PROVE  RefusedForCause'
  <2>1. /\ verify'[v].at = "rejected" /\ verify[v].at = "new"
        /\ \A u \in Verifies : u # v => verify'[u] = verify[u]
        /\ UNCHANGED <<now, store, challenge, lost>>
    BY <1>7 DEF RejectMessage, Arrives
  <2>2. \A m \in Nonces : Spent(m) => Spent(m)'
    BY <2>1 DEF Restarted, Spent
  <2>3. \A u \in Verifies : verify[u].at = "refused" => verify[u].nonce \in Nonces
    BY PassedIsChecked
  <2> QED BY <2>1, <2>2, <2>3 DEF RefusedForCause, Restarted
<1>8. ASSUME NEW v \in Verifies, NEW w \in Workers, NEW n \in Nonces, NEW a \in Addresses,
             NEW s \in Addresses, VerifyInMemory(v, w, n, a, s)
      PROVE  RefusedForCause'
  <2>1. /\ verify'[v].at = IF Held(memory[w][n], n, a) THEN "granted" ELSE "refused"
        /\ verify'[v].nonce = n /\ verify'[v].address = a
        /\ verify'[v].signer = s /\ verify'[v].worker = w
    BY <1>8 DEF VerifyInMemory, Submitted
  <2>2. \A u \in Verifies : u # v => verify'[u] = verify[u]
    BY <1>8 DEF VerifyInMemory
  <2>3. /\ UNCHANGED <<now, store, challenge, redis, lost>>
        /\ store = "memory" /\ a = s /\ challenge[n].at = "sent" /\ challenge[n].expires > now
        /\ verify[v].at = "new"
    BY <1>8 DEF VerifyInMemory, Arrives, Unexpired, Verified
  <2>4. \A m \in Nonces : Spent(m) => Spent(m)'
    BY <2>2, <2>3 DEF Restarted, Spent
  <2>5. ASSUME verify'[v].at = "refused", challenge[n].address = a, ~Restarted
        PROVE  Spent(n) \/ challenge[n].worker # w
    <3>1. ~(memory[w][n] > now)
      BY <2>1, <2>5 DEF Held
    <3>2. memory[challenge[n].worker][n] >= challenge[n].expires \/ Spent(n)
      BY <2>3, <2>5 DEF LiveInv, Restarted
    <3>3. CASE memory[challenge[n].worker][n] >= challenge[n].expires
      BY <2>3, <3>1, <3>3
    <3>4. CASE Spent(n)
      BY <2>5, <3>4 DEF Spent, CallsInv
    <3> QED BY <3>2, <3>3, <3>4
  <2>6. \A u \in Verifies : verify[u].at = "refused" => verify[u].nonce \in Nonces
    BY PassedIsChecked
  <2>7. ASSUME NEW u \in Verifies, u # v, verify'[u].at = "refused" PROVE HasCause(u)'
    <3>1. verify'[u] = verify[u] /\ verify[u].nonce \in Nonces /\ HasCause(u)
      BY <2>2, <2>6, <2>7 DEF RefusedForCause, HasCause
    <3> QED BY <2>3, <2>4, <3>1 DEF HasCause, Restarted
  <2>8. ASSUME verify'[v].at = "refused" PROVE HasCause(v)'
    <3>1. CASE challenge[n].address = a /\ ~Restarted
      BY <2>1, <2>3, <2>4, <2>5, <2>8, <3>1 DEF HasCause
    <3>2. CASE challenge[n].address # a \/ Restarted
      BY <2>1, <2>3, <3>2 DEF HasCause, Restarted
    <3> QED BY <3>1, <3>2
  <2> QED BY <2>7, <2>8 DEF RefusedForCause, HasCause
<1>9. ASSUME NEW v \in Verifies, NEW w \in Workers, NEW n \in Nonces, NEW a \in Addresses,
             NEW s \in Addresses, VerifyInRedis(v, w, n, a, s)
      PROVE  RefusedForCause'
  BY <1>9, CauseKept DEF VerifyInRedis, Submitted, Arrives, Ended
<1>10. ASSUME NEW v \in Verifies, GetDelHit(v) PROVE RefusedForCause'
  <2>1. verify[v] \in Checked /\ verify' = [verify EXCEPT ![v].at = "consumed"]
    BY <1>10, PassedIsChecked DEF GetDelHit
  <2> QED BY <1>10, <2>1, CauseKept DEF GetDelHit, Ended
<1>11. ASSUME NEW v \in Verifies, GetDelMiss(v) PROVE RefusedForCause'
  <2> DEFINE n == verify[v].nonce
  <2>1. /\ verify[v].at = "consuming"
        /\ \A u \in Verifies : u # v => verify'[u] = verify[u]
        /\ UNCHANGED <<now, store, challenge, redis, lost>>
        /\ ~Held(redis[n], n, verify[v].address)
    BY <1>11 DEF GetDelMiss
  <2>2. verify[v] \in Checked /\ verify'[v] = [verify[v] EXCEPT !.at = "refused"]
    BY <1>11, PassedIsChecked DEF GetDelMiss
  <2>3. /\ verify'[v].at = "refused" /\ verify'[v].nonce = n /\ n \in Nonces
        /\ verify'[v].address = verify[v].address
    BY <2>2
  <2>4. \A m \in Nonces : Spent(m) => Spent(m)'
    BY <2>1 DEF Restarted, Spent
  <2>5. ASSUME verify[v].address = challenge[n].address, ~Restarted, challenge[n].expires > now
        PROVE  Spent(n)
    <3>1. store = "redis" /\ challenge[n].at = "sent"
      BY <2>1 DEF StoresInv, CallsInv
    <3>2. ~(redis[n] > now)
      BY <2>1, <2>5 DEF Held
    <3>3. Spent(n)
      BY <2>3, <2>5, <3>1, <3>2 DEF LiveInv, Restarted
    <3> QED BY <2>5, <3>3 DEF Spent, CallsInv
  <2>6. \A u \in Verifies : verify[u].at = "refused" => verify[u].nonce \in Nonces
    BY PassedIsChecked
  <2>7. challenge[n].expires \in Nat /\ now \in Nat /\ lost \in Nat
    BY <2>3
  <2> HIDE DEF n
  <2>8. ASSUME NEW u \in Verifies, u # v, verify'[u].at = "refused" PROVE HasCause(u)'
    <3>1. verify'[u] = verify[u] /\ verify[u].nonce \in Nonces /\ HasCause(u)
      BY <2>1, <2>6, <2>8 DEF RefusedForCause, HasCause
    <3> QED BY <2>1, <2>4, <3>1 DEF HasCause, Restarted
  <2>9. HasCause(v)'
    <3>1. CASE verify[v].address = challenge[n].address /\ ~Restarted /\ challenge[n].expires > now
      BY <2>1, <2>3, <2>4, <2>5, <3>1 DEF HasCause
    <3>2. CASE \/ verify[v].address # challenge[n].address
               \/ Restarted \/ ~(challenge[n].expires > now)
      BY <2>1, <2>3, <2>7, <3>2 DEF HasCause, Restarted
    <3> QED BY <3>1, <3>2
  <2> QED BY <2>8, <2>9 DEF RefusedForCause, HasCause
<1>12. ASSUME NEW v \in Verifies, Grant(v) PROVE RefusedForCause'
  <2>1. verify[v] \in Checked /\ verify' = [verify EXCEPT ![v].at = "granted"]
    BY <1>12, PassedIsChecked DEF Grant
  <2> QED BY <1>12, <2>1, CauseKept DEF Grant, Ended
<1>13. ASSUME NEW v \in Verifies, GetDelFails(v) PROVE RefusedForCause'
  <2>1. verify[v] \in Checked /\ verify' = [verify EXCEPT ![v].at = "failed"]
    BY <1>13, PassedIsChecked DEF GetDelFails
  <2> QED BY <1>13, <2>1, CauseKept DEF GetDelFails, Ended
<1> QED
  BY <1>0, <1>1, <1>2, <1>3, <1>4, <1>5, <1>6, <1>7, <1>8, <1>9, <1>10, <1>11, <1>12, <1>13
  DEF SiwsNext, Challenge, VerifyCall

-----------------------------------------------------------------------------
(* Theorems.                                                               *)

LEMMA InitIsSafe == SiwsInit => SiwsInv
BY SiwsAssumption
DEF SiwsInit, NotAsked, SiwsInv, StoresInv, CallsInv, SpendInv, OneSessionPerChallenge, LiveInv,
    RefusedForCause, Passed

(* The stores, the calls and the sessions paid out agree at all times. *)
THEOREM SiwsInvariant == SiwsSpec => []SiwsInv
<1>1. SiwsTypeOK /\ SiwsInv /\ [SiwsNext]_siwsVars => SiwsInv'
  BY StoresStep, CallsStep, SpendStep, LiveStep, CauseStep DEF SiwsInv
<1> QED BY <1>1, InitIsSafe, TypeCorrect, PTL DEF SiwsSpec

(***************************************************************************)
(* A challenge buys at most one pair of tokens, for the address it was     *)
(* issued to, however the verify calls, restarts and lost commands mix.    *)
(***************************************************************************)
THEOREM SessionsAreBoughtOnce == SiwsSpec => []OneSessionPerChallenge
<1>1. SiwsInv => OneSessionPerChallenge
  BY DEF SiwsInv, SpendInv
<1> QED BY <1>1, SiwsInvariant, PTL

(* A nonce is gone before its time only by its owner's call or a loss. *)
THEOREM ChallengesAreTheOwners == SiwsSpec => []OnlyTheOwnerSpends
<1>1. SiwsTypeOK /\ SiwsInv => OnlyTheOwnerSpends
  <2> SUFFICES ASSUME SiwsTypeOK, SiwsInv, NEW n \in Nonces, challenge[n].at = "sent",
                      challenge[n].expires > now, ~Live(n), ~Restarted
               PROVE  \E v \in Verifies :
                        /\ verify[v].at \in {"consumed", "granted", "failed"}
                        /\ verify[v].nonce = n
                        /\ verify[v].address = challenge[n].address
                        /\ verify[v].signer = challenge[n].address
    BY DEF OnlyTheOwnerSpends, SiwsTypeOK
  <2>1. now \in Nat /\ challenge[n].expires \in Nat /\ redis[n] \in Nat
    BY SiwsAssumption DEF SiwsTypeOK
  <2>2. challenge[n].worker \in Workers /\ memory[challenge[n].worker][n] \in Nat
    BY SiwsAssumption DEF SiwsTypeOK, SiwsInv, CallsInv
  <2>3. Spent(n)
    BY <2>1, <2>2 DEF SiwsInv, LiveInv, Live
  <2> QED BY <2>3 DEF Spent, SiwsInv, CallsInv, Passed
<1> QED BY <1>1, TypeCorrect, SiwsInvariant, PTL

(* A timely, signed call of the owner is refused for one of four causes. *)
THEOREM RefusalsHaveACause == SiwsSpec => []RefusedForCause
BY SiwsInvariant, PTL DEF SiwsInv
=============================================================================
