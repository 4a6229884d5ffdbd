------------------------- MODULE ServiceDiscovery -------------------------
(***************************************************************************)
(* Service discovery and the HTTP clients on top of it: instances that     *)
(* register and beat (ServiceRegistry), one DiscoveryClient with a local   *)
(* cache that a background loop and the calls refresh, and a caller that   *)
(* requests, uploads or downloads through DiscoveryHttpClient.             *)
(*                                                                         *)
(* A score is kept as its age, at most Stale.  An instance id is random,   *)
(* so an instance registers once; strategy "random", health check on.      *)
(***************************************************************************)
EXTENDS Naturals, FiniteSets

CONSTANTS
    Instance,           \* instance ids of one service
    NoInstance,
    HealthThreshold,             \* SD_DEFAULT_HEALTH_THRESHOLD_MS
    BeatEvery,          \* heartbeat_interval
    CacheInterval,      \* cache_interval
    RedisLatency,       \* bound on the ticks a Redis call takes
    MaxAttempts,        \* DiscoveryHttpClient's RetryConfig.max_attempts
    InnerAttempts,      \* ByHttpClient's: 1 when the client is owned (no_retry)
    MaxSdFaults         \* bound on failing Redis calls, crashes, departures

ASSUME DiscoveryAssumption ==
    /\ IsFiniteSet(Instance) /\ NoInstance \notin Instance
    /\ HealthThreshold \in Nat \ {0} /\ BeatEvery \in Nat \ {0} /\ CacheInterval \in Nat \ {0}
    /\ RedisLatency \in Nat /\ MaxSdFaults \in Nat
    /\ MaxAttempts \in Nat \ {0} /\ InnerAttempts \in Nat \ {0}

VARIABLES
    insts,      \* insts[i]: a process of the service
    registered, \* ids in the active-instances sorted set
    score,      \* score[i]: age of its score there
    details,    \* ids in the details hash
    cache,      \* the client's list of instances, their heartbeats, its age
    refreshing, \* refreshing[a]: a _refresh_service between its two reads
    call,       \* the HTTP call
    sdFaults

discoveryVars == <<insts, registered, score, details, cache, refreshing, call, sdFaults>>
redisKeys == <<registered, score, details>>

Stale == HealthThreshold + 1
Age == 0..Stale
Older(age) == IF age = Stale THEN Stale ELSE age + 1

\* Who refreshes the cache: the watch loop and the call's get_instances.
Refresher == {"loop", "call"}
InstPc == {"down", "scoring", "up", "leaving", "left", "dead"}
\* beat: age of the stamp of the last heartbeat; flying: its ZADD has not landed.
InstRecord == [pc : InstPc, due : Nat, beat : Age, flying : BOOLEAN]
RefreshRecord == [ids : SUBSET Instance, seen : [Instance -> Age], age : Nat,
                  wait : Nat, on : BOOLEAN]
CallPc == {"idle", "resolve", "send", "body", "pause", "switch", "returned", "failed"}
Kind == {"request", "upload", "download"}
CallRecord == [pc : CallPc, kind : Kind,
               attempt : 0..MaxAttempts, inner : Nat,
               target : Instance \cup {NoInstance}, network : BOOLEAN,
               offset : {"start", "moved"}, sent : {"none", "whole", "rest"},
               file : {"none", "part", "whole", "mixed"}]

NewCall(kind) == [pc |-> "resolve", kind |-> kind, attempt |-> 0, inner |-> 0,
                  target |-> NoInstance, network |-> FALSE, offset |-> "start",
                  sent |-> "none", file |-> "none"]
NoRefresh == [ids |-> {}, seen |-> [i \in Instance |-> Stale], age |-> 0,
              wait |-> CacheInterval, on |-> FALSE]

DiscoveryTypeOK ==
    /\ insts \in [Instance -> InstRecord]
    /\ registered \in SUBSET Instance /\ details \in SUBSET Instance
    /\ score \in [Instance -> Age]
    /\ cache \in [ids : SUBSET Instance, seen : [Instance -> Age], age : 0..CacheInterval + 1]
    /\ refreshing \in [Refresher -> RefreshRecord]
    /\ call \in CallRecord
    /\ sdFaults \in 0..MaxSdFaults

DiscoveryInit ==
    /\ insts = [i \in Instance |-> [pc |-> "down", due |-> 0, beat |-> Stale, flying |-> FALSE]]
    /\ registered = {} /\ details = {} /\ score = [i \in Instance |-> Stale]
    /\ cache = [ids |-> {}, seen |-> NoRefresh.seen, age |-> CacheInterval + 1]
    /\ refreshing = [a \in Refresher |-> NoRefresh]
    /\ call = [NewCall("request") EXCEPT !.pc = "idle"]
    /\ sdFaults = 0

SdFault == sdFaults < MaxSdFaults /\ sdFaults' = sdFaults + 1
client == <<cache, refreshing, call>>

---------------------------------------------------------------------------
(* ServiceRegistry.                                                        *)

\* ZADD NX keeps the first score.
ScoredOnce(i, beat) == IF i \in registered THEN score ELSE [score EXCEPT ![i] = beat]

\* ZADD of a heartbeat.
Scored(i, beat) == [score EXCEPT ![i] = beat]

\* register: the details first, then the score that makes it discoverable.
Register(i) ==
    /\ insts[i].pc = "down"
    /\ details' = details \cup {i}
    /\ insts' = [insts EXCEPT ![i].pc = "scoring", ![i].beat = 0]
    /\ UNCHANGED <<registered, score, client, sdFaults>>

RegisterScores(i) ==
    /\ insts[i].pc = "scoring"
    /\ registered' = registered \cup {i}
    /\ score' = Scored(i, insts[i].beat)
    /\ insts' = [insts EXCEPT ![i].pc = "up", ![i].due = BeatEvery]
    /\ UNCHANGED <<details, client, sdFaults>>

\* _heartbeat_loop: the sleep ends and _send_heartbeat stamps the time.
SendHeartbeat(i) ==
    /\ insts[i].pc = "up" /\ insts[i].due = 0 /\ ~insts[i].flying
    /\ insts' = [insts EXCEPT ![i].flying = TRUE, ![i].beat = 0]
    /\ UNCHANGED <<redisKeys, client, sdFaults>>

\* A ZADD that was sent lands even when the heartbeat task was cancelled.
HeartbeatLands(i) ==
    /\ insts[i].flying
    /\ registered' = registered \cup {i}
    /\ score' = Scored(i, insts[i].beat)
    /\ insts' = [insts EXCEPT ![i].flying = FALSE, ![i].due = BeatEvery]
    /\ UNCHANGED <<details, client, sdFaults>>

\* A heartbeat that raises is followed by a second and the next sleep; one
\* whose task was cancelled is nobody's error.
AfterFailure == BeatEvery + 1
HeartbeatFails(i) ==
    /\ insts[i].flying
    /\ IF insts[i].pc = "up" THEN SdFault ELSE UNCHANGED sdFaults
    /\ insts' = [insts EXCEPT ![i].flying = FALSE, ![i].due = AfterFailure]
    /\ UNCHANGED <<redisKeys, client>>

\* unregister: the heartbeat task is cancelled, then one MULTI removes both.
Unregister(i) ==
    /\ SdFault /\ insts[i].pc = "up"
    /\ insts' = [insts EXCEPT ![i].pc = "leaving"]
    /\ UNCHANGED <<redisKeys, client>>

UnregisterRemoves(i) ==
    /\ insts[i].pc = "leaving"
    /\ details' = details \ {i} /\ registered' = registered \ {i}
    /\ insts' = [insts EXCEPT ![i].pc = "left"]
    /\ UNCHANGED <<score, client, sdFaults>>

InstanceDies(i) ==
    /\ SdFault /\ insts[i].pc \in {"scoring", "up", "leaving"}
    /\ insts' = [insts EXCEPT ![i].pc = "dead"]
    /\ UNCHANGED <<redisKeys, client>>

---------------------------------------------------------------------------
(* DiscoveryClient.                                                        *)

processes == <<insts, redisKeys>>

\* Every instance counted as seen at the time of the refresh.
SeenNow(r) == [i \in Instance |-> 0]

\* The heartbeats a refresh keeps are the scores its ZRANGE read, and an id
\* whose details are gone is no instance.
SeenAt(r) == r.seen
Refreshed(r) == [ids |-> r.ids \cap details, seen |-> SeenAt(r), age |-> 0]

\* _refresh_service: ZRANGE; an empty set is cached at once.
RefreshReads(a) ==
    /\ ~refreshing[a].on
    /\ IF registered = {}
       THEN /\ cache' = [cache EXCEPT !.ids = {}, !.age = 0]
            /\ refreshing' = [refreshing EXCEPT ![a] = NoRefresh]
       ELSE /\ refreshing' = [refreshing EXCEPT ![a] =
                   [@ EXCEPT !.ids = registered, !.seen = score, !.on = TRUE]]
            /\ UNCHANGED cache

\* HMGET and the new cache entry.
RefreshStores(a) ==
    /\ refreshing[a].on
    /\ cache' = Refreshed(refreshing[a])
    /\ refreshing' = [refreshing EXCEPT ![a] = NoRefresh]

\* _refresh_loop of a watched service: wait is what is left of its sleep, a
\* second longer after an error.
LoopReads ==
    /\ refreshing["loop"].wait = 0
    /\ RefreshReads("loop")
    /\ UNCHANGED <<processes, call, sdFaults>>

LoopStores ==
    /\ RefreshStores("loop")
    /\ UNCHANGED <<processes, call, sdFaults>>

LoopFails ==
    /\ SdFault /\ refreshing["loop"].on
    /\ refreshing' = [refreshing EXCEPT
          !["loop"] = [NoRefresh EXCEPT !.wait = CacheInterval + 1]]
    /\ UNCHANGED <<processes, cache, call>>

\* get_instances: heartbeats within the threshold, by the clock.
Healthy(c) == {i \in c.ids : c.seen[i] <= HealthThreshold}

\* discover and the request that goes to the instance it chose.
Pick(c) ==
    IF Healthy(c) = {}
    THEN call' = [call EXCEPT !.pc = "failed"]
    ELSE \E i \in Healthy(c) :
            call' = [call EXCEPT !.pc = "send", !.target = i, !.inner = 1,
                                 !.attempt = @ + 1, !.sent = "none"]

CacheIsStale == cache.age > CacheInterval
ResolveFromCache ==
    /\ call.pc = "resolve" /\ ~refreshing["call"].on /\ ~CacheIsStale
    /\ Pick(cache)
    /\ UNCHANGED <<processes, cache, refreshing, sdFaults>>

ResolveReads ==
    /\ call.pc = "resolve" /\ CacheIsStale
    /\ RefreshReads("call")
    /\ IF registered = {} THEN Pick(cache') ELSE UNCHANGED call
    /\ UNCHANGED <<processes, sdFaults>>

ResolveStores ==
    /\ RefreshStores("call")
    /\ Pick(cache')
    /\ UNCHANGED <<processes, sdFaults>>

\* A Redis error is not an HttpRequestError: the call raises it.
ResolveFails ==
    /\ SdFault /\ refreshing["call"].on
    /\ refreshing' = [refreshing EXCEPT !["call"] = NoRefresh]
    /\ call' = [call EXCEPT !.pc = "failed"]
    /\ UNCHANGED <<processes, cache>>

---------------------------------------------------------------------------
(* ByHttpClient and the node-switching retries of DiscoveryHttpClient.     *)

otherParts == <<processes, cache, refreshing, sdFaults>>

CallBegins(kind) ==
    /\ call.pc \in {"idle", "returned", "failed"}
    /\ call' = NewCall(kind)
    /\ UNCHANGED otherParts

\* What a try leaves behind: an upload reads its file from where it stands.
Tried(network) ==
    IF call.kind # "upload" THEN [call EXCEPT !.network = network]
    ELSE [call EXCEPT !.network = network, !.offset = "moved",
                      !.sent = IF call.offset = "start" THEN "whole" ELSE "rest"]

Answers == call.pc = "send" /\ insts[call.target].pc # "dead"

\* The node answers with a success or a status nobody retries.  A download
\* reads the text of an answer that is no success, whose stream nobody read:
\* httpx raises, and nothing here catches it.
NodeAnswers(success) ==
    /\ Answers /\ (success => call.kind # "download")
    /\ call' = [Tried(FALSE) EXCEPT
                  !.pc = IF call.kind = "download" THEN "failed" ELSE "returned"]
    /\ UNCHANGED otherParts

\* A status worth a retry: the inner retries stay on the node, an upload has
\* none, and a download that has none left raises as above.
InnerLeft == call.inner < InnerAttempts /\ call.kind # "upload"
NodeBusy ==
    /\ Answers
    /\ call' = [Tried(FALSE) EXCEPT
                  !.pc = IF InnerLeft THEN "pause"
                         ELSE IF call.kind = "download" THEN "failed" ELSE "switch"]
    /\ UNCHANGED otherParts

NetworkError ==
    /\ call.pc \in {"send", "body"}
    /\ \E tried \in {Tried(TRUE), [call EXCEPT !.network = TRUE]} :
          call' = [tried EXCEPT
                     !.pc = IF InnerLeft THEN "pause" ELSE "switch"]
    /\ UNCHANGED otherParts

InnerRetries ==
    /\ call.pc = "pause"
    /\ call' = [call EXCEPT !.pc = "send", !.inner = @ + 1]
    /\ UNCHANGED otherParts

\* The target opened for appending.
OpenAppending(file) == IF file = "none" THEN "part" ELSE "mixed"

\* _download: a success opens the target for writing, which empties it.
OpenTarget(file) == "part"

BodyBegins ==
    /\ Answers /\ call.kind = "download"
    /\ call' = [call EXCEPT !.pc = "body", !.file = OpenTarget(call.file)]
    /\ UNCHANGED otherParts

BodyEnds ==
    /\ call.pc = "body" /\ insts[call.target].pc # "dead"
    /\ call' = [call EXCEPT !.pc = "returned",
                            !.file = IF @ = "part" THEN "whole" ELSE @]
    /\ UNCHANGED otherParts

\* The parts stay where the failed attempt left them.
NotRewound(offset) == offset

\* Between two attempts the parts are rewound.
Rewound(offset) == "start"

\* One try too many.
OneTryMore == call.attempt <= MaxAttempts

\* The attempts are counted over all nodes.
TriesLeft == call.attempt < MaxAttempts

SwitchNode ==
    /\ call.pc = "switch" /\ TriesLeft
    /\ call' = [call EXCEPT !.pc = "resolve",
                            !.offset = IF call.kind = "upload" THEN Rewound(@) ELSE @]
    /\ UNCHANGED otherParts

CallRaises ==
    /\ call.pc = "switch" /\ ~TriesLeft
    /\ call' = [call EXCEPT !.pc = "failed"]
    /\ UNCHANGED otherParts

---------------------------------------------------------------------------
(* Time, and the specification.                                            *)

\* A heartbeat that is due is sent, and a Redis call answered, before more
\* time passes than the bounds allow.
DiscoveryOverdue ==
    \/ \E i \in Instance : /\ insts[i].pc = "up"
                           /\ IF insts[i].flying THEN insts[i].beat >= RedisLatency
                              ELSE insts[i].due = 0
    \/ \E i \in Instance : insts[i].pc = "scoring" /\ insts[i].beat >= RedisLatency
    \/ \E a \in Refresher : refreshing[a].on /\ refreshing[a].age >= RedisLatency
    \/ refreshing["loop"].wait = 0 /\ ~refreshing["loop"].on

Less(n) == IF n = 0 THEN 0 ELSE n - 1
SdTick ==
    /\ ~DiscoveryOverdue
    /\ insts' = [i \in Instance |->
                   [insts[i] EXCEPT !.beat = Older(@),
                                    !.due = IF insts[i].flying THEN @ ELSE Less(@)]]
    /\ score' = [i \in Instance |-> Older(score[i])]
    /\ cache' = [cache EXCEPT !.seen = [i \in Instance |-> Older(@[i])],
                              !.age = IF @ > CacheInterval THEN @ ELSE @ + 1]
    /\ refreshing' = [a \in Refresher |->
          IF ~refreshing[a].on
          THEN IF a = "loop" THEN [refreshing[a] EXCEPT !.wait = Less(@)] ELSE refreshing[a]
          ELSE [refreshing[a] EXCEPT !.age = @ + 1,
                                     !.seen = [i \in Instance |-> Older(@[i])]]]
    /\ UNCHANGED <<registered, details, call, sdFaults>>

InstanceSteps(i) ==
    \/ Register(i) \/ RegisterScores(i) \/ SendHeartbeat(i) \/ HeartbeatLands(i)
    \/ UnregisterRemoves(i)

LoopSteps == LoopReads \/ LoopStores

CallSteps ==
    \/ ResolveFromCache \/ ResolveReads \/ ResolveStores
    \/ \E success \in BOOLEAN : NodeAnswers(success)
    \/ NodeBusy \/ NetworkError \/ InnerRetries \/ BodyBegins \/ BodyEnds
    \/ SwitchNode \/ CallRaises

DiscoveryNext ==
    \/ \E i \in Instance : InstanceSteps(i) \/ HeartbeatFails(i) \/ Unregister(i) \/ InstanceDies(i)
    \/ LoopSteps \/ LoopFails
    \/ CallSteps \/ ResolveFails
    \/ \E kind \in Kind : CallBegins(kind)
    \/ SdTick

DiscoverySpec == DiscoveryInit /\ [][DiscoveryNext]_discoveryVars

\* The event loops of the processes run, nodes answer or the HTTP timeout
\* strikes, and time passes.
DiscoveryFairness ==
    /\ \A i \in Instance : WF_discoveryVars(InstanceSteps(i))
    /\ WF_discoveryVars(LoopSteps) /\ WF_discoveryVars(CallSteps)
    /\ WF_discoveryVars(SdTick)
FairDiscovery == DiscoverySpec /\ DiscoveryFairness

---------------------------------------------------------------------------
(* What must hold.                                                         *)

\* Whatever the cache, two overlapping refreshes and late heartbeats do, a
\* request goes only to an instance that beat within the threshold: the
\* cache keeps the age of the score and never the age of its own reading.
PicksBeatRecently ==
    [][call'.attempt > call.attempt => insts[call'.target].beat <= HealthThreshold]_discoveryVars

\* Every try of an upload sends the file from its start, and a download that
\* returns a success left exactly one body in the target, whatever the tries
\* before it had read or written.
BodiesAreWhole ==
    /\ call.sent # "rest"
    /\ (call.pc = "returned" /\ call.kind = "download") => call.file = "whole"

\* An instance that stays up is found again and again: no failing heartbeat
\* or refresh ends the loops.
LiveIsDiscovered ==
    \A i \in Instance : <>[](insts[i].pc = "up") => []<>(i \in Healthy(cache))

\* After a failed try the next one goes to another node when one is there.
RetrySwitchesNode ==
    [][call.pc = "resolve" /\ call.attempt > 0 /\ call'.attempt > call.attempt
         /\ Healthy(cache') # {call.target} => call'.target # call.target]_discoveryVars
===========================================================================
