--------------------------- MODULE ServerLifecycle ---------------------------
(***************************************************************************)
(* One API process: its start, its drain on SIGTERM (src/index.ts), the    *)
(* Redis connection it opens at the start (src/lib/redisClient.ts) and the *)
(* store its rate limiter chose then.  A supervisor starts it again after  *)
(* an exit.  Which commands go over the connection is left to the modules  *)
(* of the components that send them.                                       *)
(***************************************************************************)
EXTENDS Naturals

CONSTANTS
    RedisConfigured, \* whether REDIS_URL is set
    MaxRetries,      \* attempts after which the retry strategy gives up (3)
    MaxOutages,      \* bound: how many times Redis goes down
    MaxExits         \* bound: how many times the process ends

VARIABLES
    server,   \* the process
    limiter,  \* the store of the rate limiter
    conn,     \* the status of the Redis client
    misses,   \* attempts that failed since the connection was lost
    redisUp,  \* whether Redis is reachable
    outages,  \* how many outages there have been
    exits     \* how many times the process ended

serverVars == <<server, limiter, conn, misses, redisUp, outages, exits>>

ASSUME ServerAssumption ==
    /\ RedisConfigured \in BOOLEAN
    /\ MaxRetries \in Nat \ {0}
    /\ {MaxOutages, MaxExits} \subseteq Nat

(* The client is made when it is first asked for, and connects when told.  *)
NewProcess ==
    /\ server' = "starting" /\ limiter' = "none"
    /\ conn' = "wait" /\ misses' = 0

ServerInit ==
    /\ server = "starting" /\ limiter = "none"
    /\ conn = "wait" /\ misses = 0
    /\ redisUp \in BOOLEAN /\ outages = IF redisUp THEN 0 ELSE 1
    /\ outages <= MaxOutages
    /\ exits = 0

-----------------------------------------------------------------------------
(* Starting.                                                               *)

(* isRedisAvailable connects; a client that cannot goes on in its retry    *)
(* strategy.  The limiter keeps the store it is given now.                 *)
Start ==
    LET available == RedisConfigured /\ redisUp
    IN  /\ server = "starting"
        /\ server' = "listening"
        /\ limiter' = IF available THEN "redis" ELSE "memory"
        /\ conn' = CASE available -> "ready"
                     [] RedisConfigured /\ ~redisUp -> "retrying"
                     [] OTHER -> conn
        /\ UNCHANGED <<misses, redisUp, outages, exits>>

-----------------------------------------------------------------------------
(* The connection.                                                         *)

RedisGoesDown ==
    /\ redisUp /\ outages < MaxOutages
    /\ redisUp' = FALSE /\ outages' = outages + 1
    /\ conn' = IF conn = "ready" THEN "retrying" ELSE conn
    /\ misses' = IF conn = "ready" THEN 0 ELSE misses
    /\ UNCHANGED <<server, limiter, exits>>

RedisComesBack ==
    /\ ~redisUp /\ redisUp' = TRUE
    /\ UNCHANGED <<server, limiter, conn, misses, outages, exits>>

Reconnect ==
    /\ conn = "retrying" /\ redisUp
    /\ conn' = "ready" /\ misses' = 0
    /\ UNCHANGED <<server, limiter, redisUp, outages, exits>>

(* An attempt fails.  retryStrategy returns null after the last of them:   *)
(* the client is at its end, and only a start of the process connects one. *)
RetryFails ==
    /\ conn = "retrying" /\ ~redisUp
    /\ IF misses + 1 < MaxRetries
       THEN misses' = misses + 1 /\ UNCHANGED conn
       ELSE conn' = "end" /\ UNCHANGED misses
    /\ UNCHANGED <<server, limiter, redisUp, outages, exits>>

-----------------------------------------------------------------------------
(* Requests pass the limiter, whose store must answer.                     *)

Counted == limiter = "memory" \/ conn = "ready"

Admits == server = "listening" /\ Counted
TurnsAway == server = "listening" /\ ~Counted

-----------------------------------------------------------------------------
(* Ending.                                                                 *)

Ends ==
    /\ exits < MaxExits
    /\ server' = "down" /\ exits' = exits + 1
    /\ UNCHANGED <<limiter, conn, misses, redisUp, outages>>

(* Before its handler is registered, the signal just ends the process; a   *)
(* second one changes nothing.  One that comes after the handler is there  *)
(* and before listen() drains a process that has no request, which Close   *)
(* ends as this does.                                                      *)
SigTermAtStart == server = "starting" /\ Ends

SigTerm ==
    /\ server = "listening" /\ exits < MaxExits
    /\ server' = "draining"
    /\ UNCHANGED <<limiter, conn, misses, redisUp, outages, exits>>

(* app.close() resolves when no request is left. *)
Close(busy) == server = "draining" /\ ~busy /\ Ends

(* SHUTDOWN_DRAIN_MS are over: exit code 1, where Close exits with 0. *)
ForceExit == server = "draining" /\ Ends

Crash == server \in {"listening", "draining"} /\ Ends

Exit(busy) == SigTermAtStart \/ Close(busy) \/ ForceExit \/ Crash

Restart ==
    /\ server = "down"
    /\ NewProcess
    /\ UNCHANGED <<redisUp, outages, exits>>

Connection == RedisGoesDown \/ RedisComesBack \/ Reconnect \/ RetryFails

ServerTypeOK ==
    /\ server \in {"starting", "listening", "draining", "down"}
    /\ limiter \in {"none", "redis", "memory"}
    /\ conn \in {"wait", "ready", "retrying", "end"}
    /\ misses \in 0 .. MaxRetries
    /\ redisUp \in BOOLEAN
    /\ outages \in 0 .. MaxOutages /\ exits \in 0 .. MaxExits
=============================================================================
