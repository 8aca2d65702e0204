------------------------------ MODULE SiwsAuth ------------------------------
(***************************************************************************)
(* Sign-In With Stellar (src/routes/v1/auth-siws.ts).  GET /auth/challenge *)
(* stores a fresh nonce and hands out a message that names it; POST        *)
(* /auth/verify checks the message's expiry, then the signature, then      *)
(* spends the nonce, and only then signs the tokens.  Nonces live in Redis,*)
(* which all workers share, or else in the memory of the worker that       *)
(* issued them.  With Redis each store access is an await of its own; the  *)
(* memory path runs in one turn of the event loop.                         *)
(***************************************************************************)
EXTENDS Naturals, FiniteSets

CONSTANTS
    Workers,    \* the API processes
    Addresses,  \* Stellar public keys
    Nonces,     \* bound: the challenges that are asked for
    Verifies,   \* bound: the POST /auth/verify calls
    NonceTtl,   \* NONCE_TTL_SECONDS
    Stores,     \* the stores considered: a subset of {"redis", "memory"}
    MaxNow,   \* bound: the time stops here
    MaxLost     \* bound: how many Redis commands may fail

VARIABLES
    now,      \* Date.now(), the same for everybody
    store,      \* which store is configured
    challenge,  \* each challenge: where it is, for whom, by whom, until when
    redis,      \* until when Redis keeps a nonce; 0 when it has no such key
    memory,     \* memoryNonces of each worker, likewise
    verify,     \* each verify call: where it is and what it carries
    lost,       \* how many Redis commands have failed
    tokens      \* history: token pairs issued for a nonce, by address

siwsVars == <<now, store, challenge, redis, memory, verify, lost, tokens>>

ASSUME SiwsAssumption ==
    /\ NonceTtl \in Nat \ {0}
    /\ Stores \subseteq {"redis", "memory"}
    /\ MaxNow \in Nat
    /\ MaxLost \in Nat

Nobody == "none"
NotAsked == [at |-> "unasked", address |-> Nobody, worker |-> Nobody, expires |-> 0]

SiwsInit ==
    /\ now = 0
    /\ store \in Stores
    /\ challenge = [n \in Nonces |-> NotAsked]
    /\ redis = [n \in Nonces |-> 0]
    /\ memory = [w \in Workers |-> [n \in Nonces |-> 0]]
    /\ verify = [v \in Verifies |-> [at |-> "new"]]
    /\ lost = 0
    /\ tokens = [n \in Nonces |-> [a \in Addresses |-> 0]]

-----------------------------------------------------------------------------
(* GET /auth/challenge.                                                    *)

AskedNow(w, n, a, at) ==
    /\ challenge[n].at = "unasked"
    /\ challenge' = [challenge EXCEPT ![n] =
            [at |-> at, address |-> a, worker |-> w, expires |-> now + NonceTtl]]

(* Faulty variant: every entry is swept. *)
SweepAll(until) == 0

Sweep(until) == IF until <= now THEN 0 ELSE until

(* sweepMemory, then the nonce with the message's own expiry. *)
ChallengeInMemory(w, n, a) ==
    /\ store = "memory"
    /\ AskedNow(w, n, a, "sent")
    /\ memory' = [memory EXCEPT ![w] =
            [m \in Nonces |-> IF m = n THEN now + NonceTtl ELSE Sweep(@[m])]]
    /\ UNCHANGED <<now, store, redis, verify, lost, tokens>>

ChallengeInRedis(w, n, a) ==
    /\ store = "redis"
    /\ AskedNow(w, n, a, "storing")
    /\ UNCHANGED <<now, store, redis, memory, verify, lost, tokens>>

(* Faulty variant: the lifetime is given in the unit of the next one up. *)
ExpireMuchLater == now + 60 * NonceTtl

(* SET ... EX counts from when Redis executes it, not from issuedAt. *)
ExpireAt == now + NonceTtl

RedisSet(n) ==
    /\ challenge[n].at = "storing"
    /\ redis' = [redis EXCEPT ![n] = ExpireAt]
    /\ challenge' = [challenge EXCEPT ![n].at = "sent"]
    /\ UNCHANGED <<now, store, memory, verify, lost, tokens>>

(* The command rejects, executed or not: 500, and no message goes out. *)
RedisSetFails(n) ==
    /\ challenge[n].at = "storing"
    /\ lost < MaxLost
    /\ lost' = lost + 1
    /\ \E until \in {0, ExpireAt} : redis' = [redis EXCEPT ![n] = until]
    /\ challenge' = [challenge EXCEPT ![n].at = "failed"]
    /\ UNCHANGED <<now, store, memory, verify, tokens>>

-----------------------------------------------------------------------------
(* POST /auth/verify for the message of challenge n, sent for address a    *)
(* and signed by s.                                                        *)

Submitted(w, n, a, s, at) ==
    [at |-> at, worker |-> w, nonce |-> n, address |-> a, signer |-> s]

(* The calls that reach the handler: the message has been handed out. *)
Arrives(v, n) == verify[v].at = "new" /\ challenge[n].at = "sent"

Unexpired(n) == challenge[n].expires > now

(* Faulty variant: the signature is not looked at. *)
AnySignature(a, s) == TRUE

Verified(a, s) == a = s

(* 401 before the nonce is touched. *)
RejectMessage(v, n, a, s) ==
    /\ Arrives(v, n)
    /\ ~Unexpired(n) \/ ~Verified(a, s)
    /\ verify' = [verify EXCEPT ![v] = [at |-> "rejected"]]
    /\ UNCHANGED <<now, store, challenge, redis, memory, lost, tokens>>

(* The key is made of the address in the request and the nonce. *)
Held(until, n, a) == challenge[n].address = a /\ until > now

SignTokens(n, a) == tokens' = [tokens EXCEPT ![n][a] = @ + 1]

(* Faulty variant: the entry is read and left. *)
ReadOnly(w, n, a) == memory' = memory

DeleteFromMemory(w, n, a) ==
    memory' = IF challenge[n].address = a THEN [memory EXCEPT ![w][n] = 0] ELSE memory

VerifyInMemory(v, w, n, a, s) ==
    /\ store = "memory"
    /\ Arrives(v, n)
    /\ Unexpired(n) /\ Verified(a, s)
    /\ DeleteFromMemory(w, n, a)
    /\ \/ /\ Held(memory[w][n], n, a)
          /\ SignTokens(n, a)
          /\ verify' = [verify EXCEPT ![v] = Submitted(w, n, a, s, "granted")]
       \/ /\ ~Held(memory[w][n], n, a)
          /\ verify' = [verify EXCEPT ![v] = Submitted(w, n, a, s, "refused")]
          /\ UNCHANGED tokens
    /\ UNCHANGED <<now, store, challenge, redis, lost>>

VerifyInRedis(v, w, n, a, s) ==
    /\ store = "redis"
    /\ Arrives(v, n)
    /\ Unexpired(n) /\ Verified(a, s)
    /\ verify' = [verify EXCEPT ![v] = Submitted(w, n, a, s, "consuming")]
    /\ UNCHANGED <<now, store, challenge, redis, memory, lost, tokens>>

(* Faulty variant: GET now, DEL with the answer. *)
GetOnly(n) == redis' = redis

Del(n) == redis' = [redis EXCEPT ![n] = 0]

(* GETDEL finds the key and removes it; the reply is on its way. *)
GetDelHit(v) ==
    /\ verify[v].at = "consuming"
    /\ Held(redis[verify[v].nonce], verify[v].nonce, verify[v].address)
    /\ Del(verify[v].nonce)
    /\ verify' = [verify EXCEPT ![v].at = "consumed"]
    /\ UNCHANGED <<now, store, challenge, memory, lost, tokens>>

GetDelMiss(v) ==
    /\ verify[v].at = "consuming"
    /\ ~Held(redis[verify[v].nonce], verify[v].nonce, verify[v].address)
    /\ verify' = [verify EXCEPT ![v].at = "refused"]
    /\ UNCHANGED <<now, store, challenge, redis, memory, lost, tokens>>

(* The reply arrives and both tokens are signed in the same turn. *)
Grant(v) ==
    /\ verify[v].at = "consumed"
    /\ SignTokens(verify[v].nonce, verify[v].address)
    /\ verify' = [verify EXCEPT ![v].at = "granted"]
    /\ UNCHANGED <<now, store, challenge, redis, memory, lost>>

(* The command or its reply is lost: 500, the nonce perhaps gone. *)
GetDelFails(v) ==
    /\ verify[v].at \in {"consuming", "consumed"}
    /\ lost < MaxLost
    /\ lost' = lost + 1
    /\ verify' = [verify EXCEPT ![v].at = "failed"]
    /\ UNCHANGED <<now, store, challenge, redis, memory, tokens>>

-----------------------------------------------------------------------------

ClockTicks ==
    /\ now < MaxNow
    /\ now' = now + 1
    /\ UNCHANGED <<store, challenge, redis, memory, verify, lost, tokens>>

(* A worker is restarted: its memory is empty again. *)
WorkerRestarts(w) ==
    /\ lost < MaxLost
    /\ lost' = lost + 1
    /\ memory' = [memory EXCEPT ![w] = [n \in Nonces |-> 0]]
    /\ verify' = [v \in Verifies |->
                    IF verify[v].at \in {"consuming", "consumed"} /\ verify[v].worker = w
                    THEN [verify[v] EXCEPT !.at = "failed"] ELSE verify[v]]
    /\ UNCHANGED <<now, store, challenge, redis, tokens>>

Challenge(n) ==
    \/ \E w \in Workers, a \in Addresses :
        ChallengeInRedis(w, n, a) \/ ChallengeInMemory(w, n, a)
    \/ RedisSet(n) \/ RedisSetFails(n)

VerifyCall(v) ==
    \/ \E w \in Workers, n \in Nonces, a, s \in Addresses :
        \/ RejectMessage(v, n, a, s)
        \/ VerifyInMemory(v, w, n, a, s)
        \/ VerifyInRedis(v, w, n, a, s)
    \/ GetDelHit(v) \/ GetDelMiss(v) \/ Grant(v) \/ GetDelFails(v)

SiwsNext ==
    \/ ClockTicks
    \/ \E w \in Workers : WorkerRestarts(w)
    \/ \E n \in Nonces : Challenge(n)
    \/ \E v \in Verifies : VerifyCall(v)

SiwsSpec == SiwsInit /\ [][SiwsNext]_siwsVars

-----------------------------------------------------------------------------
(* Properties.                                                             *)

(* A call that passed the two checks of verify. *)
Passed == {"consuming", "consumed", "granted", "refused", "failed"}
Checked ==
    [at : Passed, worker : Workers, nonce : Nonces, address : Addresses, signer : Addresses]

(* Every variable has its type; no store keeps a nonce beyond NonceTtl. *)
SiwsTypeOK ==
    /\ now \in 0 .. MaxNow
    /\ store \in Stores
    /\ challenge \in [Nonces -> [at : {"unasked", "storing", "sent", "failed"},
                                 address : Addresses \cup {Nobody},
                                 worker : Workers \cup {Nobody},
                                 expires : 0 .. now + NonceTtl]]
    /\ redis \in [Nonces -> 0 .. now + NonceTtl]
    /\ memory \in [Workers -> [Nonces -> 0 .. now + NonceTtl]]
    /\ verify \in [Verifies -> [at : {"new", "rejected"}] \cup Checked]
    /\ lost \in 0 .. MaxLost
    /\ tokens \in [Nonces -> [Addresses -> Nat]]

(***************************************************************************)
(* A challenge buys one session: however many verify calls race on however *)
(* many workers, one pair of tokens is signed for it, and for the address  *)
(* it was issued to (consumeNonce: the read and the delete are one).       *)
(***************************************************************************)
OneSessionPerChallenge ==
    \A n \in Nonces, a \in Addresses :
        tokens[n][a] <= IF challenge[n].address = a THEN 1 ELSE 0

(***************************************************************************)
(* Nobody but the owner spends a challenge: a nonce that is gone before    *)
(* its time went with a verify call its owner signed, or with the memory   *)
(* of a worker that was restarted; a bad signature burns nothing (the      *)
(* order of verify's checks).                                              *)
(***************************************************************************)
Live(n) == redis[n] > now \/ \E w \in Workers : memory[w][n] > now

Restarted == store = "memory" /\ lost > 0

OnlyTheOwnerSpends ==
    \A n \in Nonces :
        challenge[n].at = "sent" /\ challenge[n].expires > now /\ ~Live(n) =>
            \/ Restarted
            \/ \E v \in Verifies :
                /\ verify[v].at \in {"consumed", "granted", "failed"}
                /\ verify[v].nonce = n
                /\ verify[v].address = challenge[n].address
                /\ verify[v].signer = challenge[n].address

(***************************************************************************)
(* A signed, timely call of the owner is refused only when a call of the   *)
(* owner spent the challenge or failed with 500 (its GETDEL may have run), *)
(* a worker lost its memory, the time ran out while the call was under     *)
(* way, or the challenge is in the memory of another worker (consumeNonce, *)
(* the fallback of memoryNonces).                                          *)
(***************************************************************************)
Spent(n) ==
    \E v \in Verifies :
        /\ verify[v].at \in {"consumed", "granted", "failed"}
        /\ verify[v].nonce = n
        /\ verify[v].address = challenge[n].address

RefusedForCause ==
    \A v \in Verifies :
        verify[v].at = "refused" =>
            LET n == verify[v].nonce
            IN  \/ verify[v].address # challenge[n].address
                \/ Spent(n)
                \/ Restarted
                \/ challenge[n].expires <= now
                \/ store = "memory" /\ challenge[n].worker # verify[v].worker
=============================================================================
