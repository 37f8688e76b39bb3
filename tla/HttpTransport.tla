---------------------------- MODULE HttpTransport ----------------------------
(***************************************************************************)
(* SentryHttpTransport with the parts it drives: the envelope cache of     *)
(* SentryFileManager, the serial dispatch queue "io.sentry.http-transport",*)
(* the request manager, the rate limits and the client report counters.    *)
(*                                                                         *)
(* sendAllCachedEnvelopes runs on three kinds of thread: the one that      *)
(* creates the transport ("init"), the reachability queue ("reach") and    *)
(* the serial queue ("queue").  Request completions run on the serial      *)
(* delegate queue of the NSURLSession ("session"), and the direct          *)
(* storeEnvelope on a thread of the app ("app").  A thread's step ends     *)
(* where it releases a lock or returns.                                    *)
(***************************************************************************)
EXTENDS Integers, Sequences, FiniteSets, RateLimits, ClientReports

CONSTANTS
    Cached,         \* envelope files found on disk at the first launch, oldest first
    OldFiles,       \* names of those that are older than 90 days
    MaxEnvelopes,   \* SentryOptions.maxCacheItems
    Outcomes,       \* how a request may end, see Outcome
    Faults,         \* which local failures may happen, see Fault
    Spotlight,      \* whether a Spotlight transport shares the request manager
    Direct,         \* envelopes handed to storeEnvelope instead of sendEnvelope
    Flusher,        \* threads that call flush, once per launch
    MaxWakeups,     \* bound on connectivity changes
    MaxCrashes,     \* bound on process deaths
    MaxTime         \* bound on the clock

Fault == {"storeFails", "buildFails", "migrateFails"}

(* What the completion handler is given: a response or none, and an error  *)
(* or none.  Without a response there is an error.                         *)
Outcome ==
    {o \in [answered: BOOLEAN, response: Response, error: BOOLEAN] :
        o.answered \/ o.error}

(* Content says of an envelope found at launch what its file holds, except *)
(* for a client report; an envelope is written to one file only.           *)
ASSUME TransportAssumption ==
    /\ EnvId \subseteq Nat
    /\ Cached \in Seq(Envelope)
    /\ \A n \in DOMAIN Cached : Content[Cached[n].id].types \subseteq Cached[n].types
    /\ \A m, n \in DOMAIN Cached : Cached[m].id = Cached[n].id => m = n
    /\ OldFiles \subseteq DOMAIN Cached
    /\ MaxEnvelopes \in Nat \ {0}
    /\ Outcomes \subseteq Outcome
    /\ Faults \subseteq Fault
    /\ Spotlight \in BOOLEAN
    /\ Direct \subseteq EnvId
    /\ MaxWakeups \in Nat /\ MaxCrashes \in Nat /\ MaxTime \in Nat

Thread == {"init", "reach", "queue", "session", "app"}
NoPath == 0

VARIABLES
    disk,             \* the envelopes directory, [names -> Envelope]
    fileCounter,      \* the next file name
    fmOwner,          \* owner of the file manager's monitor, or "none"
    notStored,        \* notStoredEnvelopes
    queue,            \* blocks waiting on the serial dispatch queue
    timers,           \* blocks waiting in dispatch_after
    pc,               \* where each thread is
    path,             \* envelopeFilePath of each thread, or NoPath
    isSending,
    isFlushing,
    group,            \* count of the dispatch group
    requests,         \* requests handed to the request manager
    spotlightOps,     \* Spotlight requests in the same operation queue
    rateLimits,       \* SentryDefaultRateLimits
    now,              \* the current date
    discardedEvents,  \* counters of lost events
    fpc               \* where each flusher is

(* History: what happened to the items, and what the server was told.      *)
VARIABLES
    accepted,         \* envelopes the transport took over
    answered,         \* items the server answered for
    recorded,         \* <<envelope, kind, reason>>: items counted as lost
    excused,          \* items given up without being counted
    told,             \* <<category, date>>: back-offs the server asked for
    wire,             \* session items in the order the server answered for them
    wakeups,          \* connectivity changes so far
    crashes           \* process deaths so far

fileVars == <<disk, fileCounter, fmOwner>>
queueVars == <<notStored, queue, timers>>
threadVars == <<pc, path>>
flagVars == <<isSending, isFlushing, group, fpc>>
netVars == <<requests, spotlightOps>>
limitVars == <<rateLimits, told>>
lossVars == <<discardedEvents, recorded, excused>>
historyVars == <<accepted, answered, wire, wakeups, crashes>>
vars == <<fileVars, queueVars, threadVars, flagVars, netVars, limitVars, lossVars,
          historyVars, now>>

StoreBlock(env) == [op |-> "store", env |-> env]
SendBlock == [op |-> "send"]
Block == [op: {"store"}, env: Envelope] \cup {SendBlock}
Request == [env: Envelope, path: Nat]

Step == {"idle", "try", "pick", "list", "load", "delete", "finish", "evict"}
FlushStep == {"ready", "dispatch", "wait", "success", "timedOut", "already"}

(* Threads between the assignment isSending = YES and its reset.           *)
Sending == {"pick", "list", "load", "delete", "finish"}

(* Items still on their way to the server: those of the files, ...         *)
ItemsOnDisk == UNION {ItemsOf(disk[n]) : n \in DOMAIN disk}

(* ... and those of the envelopes that the process works on.               *)
EnvelopesInMemory ==
    {notStored[i] : i \in 1 .. Len(notStored)}
    \cup {queue[i].env : i \in {j \in 1 .. Len(queue) : queue[j].op = "store"}}
    \cup {r.env : r \in requests}

Pending == ItemsOnDisk \cup UNION {ItemsOf(env) : env \in EnvelopesInMemory}

(* Items that only the memory of the process holds.                        *)
Volatile == Pending \ ItemsOnDisk

(* The back-offs a response asks for.                                      *)
BackOffs(response) ==
    IF response.hasHeader
    THEN {<<c, now + response.header[c]>> : c \in {d \in LimitCategory : response.header[d] > 0}}
    ELSE IF response.is429
    THEN {<<"all", now + (IF response.retryAfter = 0 THEN DefaultRetryAfter
                          ELSE response.retryAfter)>>}
    ELSE {}

(* The items counted as lost; nothing is counted without client reports.   *)
Counted(id, types, reason) ==
    IF SendClientReports THEN {id} \X types \X {reason} ELSE {}

-----------------------------------------------------------------------------
(* initWithOptions: everything is empty but the disk, and the creating     *)
(* thread calls sendAllCachedEnvelopes before anyone can use the object.   *)
Launched ==
    /\ fmOwner' = "none"
    /\ notStored' = <<>> /\ queue' = <<>> /\ timers' = 0
    /\ pc' = [t \in Thread |-> IF t = "init" THEN "try" ELSE "idle"]
    /\ path' = [t \in Thread |-> NoPath]
    /\ isSending' = FALSE /\ isFlushing' = FALSE /\ group' = 0
    /\ requests' = {} /\ spotlightOps' = 0
    /\ rateLimits' = [c \in LimitCategory |-> 0]
    /\ discardedEvents' = NoLosses
    /\ fpc' = [f \in Flusher |-> "ready"]

Init ==
    /\ disk = Cached
    /\ fileCounter = Len(Cached) + 1
    /\ fmOwner = "none"
    /\ notStored = <<>> /\ queue = <<>> /\ timers = 0
    /\ pc = [t \in Thread |-> IF t = "init" THEN "try" ELSE "idle"]
    /\ path = [t \in Thread |-> NoPath]
    /\ isSending = FALSE /\ isFlushing = FALSE /\ group = 0
    /\ requests = {} /\ spotlightOps = 0
    /\ rateLimits = [c \in LimitCategory |-> 0]
    /\ now = 0
    /\ discardedEvents = NoLosses
    /\ fpc = [f \in Flusher |-> "ready"]
    /\ accepted = {Cached[n].id : n \in DOMAIN Cached}
    /\ answered = {} /\ recorded = {} /\ excused = {} /\ told = {} /\ wire = <<>>
    /\ wakeups = 0 /\ crashes = 0

(* The transport is in use once its initializer has returned.              *)
Usable == pc["init"] = "idle"

Goto(t, step, name) ==
    /\ pc' = [pc EXCEPT ![t] = step]
    /\ path' = [path EXCEPT ![t] = name]

-----------------------------------------------------------------------------
(* sendEnvelope, on any thread of the app.  The hub hands the envelopes of *)
(* a session over in order.                                                *)
InSessionOrder(id) ==
    \A other \in EnvId :
        (/\ other < id
         /\ "session" \in Content[other].types \cap Content[id].types
         /\ Content[other].sid = Content[id].sid) => other \in accepted

SendEnvelope(id) ==
    LET env     == Fresh(id)
        kept    == RemoveRateLimitedItems(env, rateLimits, now)
        dropped == env.types \ kept.types
        counted == EnvelopeItemsDropped(discardedEvents, id, dropped)
    IN  /\ Usable
        /\ id \notin accepted \cup Direct
        /\ InSessionOrder(id)
        /\ accepted' = accepted \cup {id}
        /\ recorded' = recorded \cup Counted(id, dropped, "ratelimit_backoff")
        /\ IF kept.types = {}
           THEN /\ discardedEvents' = counted
                /\ UNCHANGED queue
           ELSE /\ discardedEvents' = CountersAfterReport(counted)
                /\ queue' = Append(queue, StoreBlock(AddClientReportTo(kept, counted)))
        /\ spotlightOps' = IF Spotlight THEN spotlightOps + 1 ELSE spotlightOps
        /\ UNCHANGED <<fileVars, notStored, timers, threadVars, flagVars, requests,
                       limitVars, excused, answered, wire, wakeups, crashes, now>>

(* Whether files have to go when the directory holds so many.              *)
OverLimit_OffByOne(size) == size > MaxEnvelopes + 1    \* mutant
OverLimit(size) == size > MaxEnvelopes

(* storeEnvelope of the file manager: write the file and, still under the  *)
(* monitor, evict the oldest files beyond the limit (Evict below).         *)
Write(t, env, next) ==
    /\ fmOwner = "none"
    /\ disk' = With(disk, fileCounter, env)
    /\ fileCounter' = fileCounter + 1
    /\ IF OverLimit(Cardinality(DOMAIN disk) + 1)
       THEN /\ fmOwner' = t
            /\ pc' = [pc EXCEPT ![t] = "evict"]
       ELSE /\ fmOwner' = "none"
            /\ pc' = [pc EXCEPT ![t] = next]

(* What the thread does after storeEnvelope returns.                       *)
AfterStore(t) == IF t = "queue" THEN "try" ELSE "idle"

(* The transport's own storeEnvelope only writes; a failure is ignored.    *)
StoreEnvelope(id) ==
    /\ Usable
    /\ id \in Direct \ accepted
    /\ pc["app"] = "idle"
    /\ \/ /\ Write("app", Fresh(id), AfterStore("app"))
          /\ accepted' = accepted \cup {id}
          /\ UNCHANGED excused
       \/ /\ "storeFails" \in Faults
          /\ accepted' = accepted \cup {id}
          /\ excused' = excused \cup ItemsOf(Fresh(id))
          /\ UNCHANGED <<fileVars, pc>>
    /\ spotlightOps' = IF Spotlight THEN spotlightOps + 1 ELSE spotlightOps
    /\ UNCHANGED <<queueVars, path, flagVars, requests, limitVars, discardedEvents, recorded,
                   answered, wire, wakeups, crashes, now>>

(* The block of sendEnvelope, when it can store the envelope.              *)
RunStoreBlock ==
    /\ pc["queue"] = "idle"
    /\ queue # <<>> /\ Head(queue).op = "store"
    /\ queue' = Tail(queue)
    /\ Write("queue", Head(queue).env, AfterStore("queue"))
    /\ UNCHANGED <<notStored, timers, path, flagVars, netVars, limitVars, lossVars,
                   historyVars, now>>

NotStoredAfter_Forgets(env) == notStored    \* mutant: the envelope is forgotten
NotStoredAfter(env) == Append(notStored, env)

(* The same block when serializing or writing fails.                       *)
RunStoreBlockFails ==
    /\ "storeFails" \in Faults
    /\ pc["queue"] = "idle"
    /\ fmOwner = "none"
    /\ queue # <<>> /\ Head(queue).op = "store"
    /\ queue' = Tail(queue)
    /\ notStored' = NotStoredAfter(Head(queue).env)
    /\ Goto("queue", "try", NoPath)
    /\ UNCHANGED <<fileVars, timers, flagVars, netVars, limitVars, lossVars, historyVars, now>>

(* A block that only calls sendAllCachedEnvelopes.                         *)
RunSendBlock ==
    /\ pc["queue"] = "idle"
    /\ queue # <<>> /\ Head(queue).op = "send"
    /\ queue' = Tail(queue)
    /\ Goto("queue", "try", NoPath)
    /\ UNCHANGED <<fileVars, notStored, timers, flagVars, netVars, limitVars, lossVars,
                   historyVars, now>>

TimerFires_Repeats ==    \* mutant: a repeating timer instead of dispatch_after
    /\ timers > 0
    /\ queue = <<>>
    /\ queue' = <<SendBlock>>
    /\ UNCHANGED <<timers, fileVars, notStored, threadVars, flagVars, netVars, limitVars,
                   lossVars, historyVars, now>>

(* The dispatchAfter of deleteEnvelopeAndSendNext.                         *)
TimerFires ==
    /\ timers > 0
    /\ timers' = timers - 1
    /\ queue' = Append(queue, SendBlock)
    /\ UNCHANGED <<fileVars, notStored, threadVars, flagVars, netVars, limitVars, lossVars,
                   historyVars, now>>

-----------------------------------------------------------------------------
(* One iteration of handleEnvelopesLimit, under the monitor.               *)
ItemsDeleted(dir) ==
    LET env == dir[Oldest(dir)]
    IN  IF ~Readable(env) THEN {}
        ELSE IF DidMigrate(dir) THEN env.types \ {"session"}
        ELSE env.types

Evict(t, writeSucceeds) ==
    LET old == disk[Oldest(disk)]
        gone == ItemsDeleted(disk)
    IN  /\ pc[t] = "evict"
        /\ writeSucceeds \/ "migrateFails" \in Faults
        /\ disk' = Without(MigrateSessionInit(disk, writeSucceeds), Oldest(disk))
        /\ discardedEvents' = EnvelopeItemsDeleted(discardedEvents, old.id, gone)
        /\ recorded' = recorded \cup Counted(old.id, gone, "cache_overflow")
        /\ excused' = excused
                \cup (IF Readable(old) THEN {} ELSE ItemsOf(old))
                \cup (IF DidMigrate(disk) THEN {<<old.id, "session">>} ELSE {})
        /\ IF OverLimit(Cardinality(DOMAIN disk) - 1)
           THEN UNCHANGED <<fmOwner, pc>>
           ELSE /\ fmOwner' = "none"
                /\ pc' = [pc EXCEPT ![t] = AfterStore(t)]
        /\ UNCHANGED <<fileCounter, queueVars, path, flagVars, netVars, limitVars, historyVars,
                       now>>

(* deleteOldEnvelopesFromAllSentryPaths, on a background queue.            *)
DeleteOldEnvelope(n) ==
    /\ fmOwner = "none"
    /\ n \in OldFiles \cap DOMAIN disk
    /\ disk' = Without(disk, n)
    /\ excused' = excused \cup ItemsOf(disk[n])
    /\ UNCHANGED <<fileCounter, fmOwner, queueVars, threadVars, flagVars, netVars, limitVars,
                   discardedEvents, recorded, historyVars, now>>

-----------------------------------------------------------------------------
(* sendAllCachedEnvelopes, step by step.                                   *)

OperationCount ==
    Cardinality(requests) + spotlightOps + (IF pc["session"] = "idle" THEN 0 ELSE 1)

IsReady == OperationCount <= 1

(* The test at the entry of sendAllCachedEnvelopes.                        *)
MayStart_IgnoresOthers == IsReady    \* mutant: isSending is not tested
MayStart == ~isSending /\ IsReady

AlreadySending(t) ==
    /\ pc[t] = "try"
    /\ ~MayStart
    /\ Goto(t, "idle", NoPath)
    /\ UNCHANGED <<fileVars, queueVars, flagVars, netVars, limitVars, lossVars, historyVars, now>>

StartSending(t) ==
    /\ pc[t] = "try"
    /\ MayStart
    /\ isSending' = TRUE
    /\ Goto(t, "pick", NoPath)
    /\ UNCHANGED <<fileVars, queueVars, isFlushing, group, fpc, netVars, limitVars, lossVars,
                   historyVars, now>>

(* From the rate limit check to the request, for the envelope taken.       *)
AllItemsLimited(t, env, name) ==
    /\ RemoveRateLimitedItems(env, rateLimits, now).types = {}
    /\ discardedEvents' = EnvelopeItemsDropped(discardedEvents, env.id, env.types)
    /\ recorded' = recorded \cup Counted(env.id, env.types, "ratelimit_backoff")
    /\ Goto(t, "delete", name)
    /\ UNCHANGED requests

RequestNotBuilt(t, env, name) ==
    LET kept    == RemoveRateLimitedItems(env, rateLimits, now)
        counted == EnvelopeItemsDropped(discardedEvents, env.id, env.types \ kept.types)
    IN  /\ "buildFails" \in Faults
        /\ kept.types # {}
        /\ discardedEvents' = RecordLostEventFor(counted, env.id, kept.types)
        /\ recorded' = recorded
                \cup Counted(env.id, env.types \ kept.types, "ratelimit_backoff")
                \cup Counted(env.id, NetworkLosses(kept.types), "network_error")
        /\ Goto(t, "delete", name)
        /\ UNCHANGED requests

AddRequest(t, env, name) ==
    LET kept == RemoveRateLimitedItems(env, rateLimits, now)
        dropped == env.types \ kept.types
    IN  /\ kept.types # {}
        /\ discardedEvents' = EnvelopeItemsDropped(discardedEvents, env.id, dropped)
        /\ recorded' = recorded \cup Counted(env.id, dropped, "ratelimit_backoff")
        /\ requests' = requests \cup {[env |-> kept, path |-> name]}
        /\ Goto(t, "idle", NoPath)

Process(t, env, name) ==
    \/ AllItemsLimited(t, env, name)
    \/ RequestNotBuilt(t, env, name)
    \/ AddRequest(t, env, name)

TakeNotStored(t) ==
    /\ pc[t] = "pick"
    /\ notStored # <<>>
    /\ notStored' = Tail(notStored)
    /\ Process(t, Head(notStored), NoPath)
    /\ UNCHANGED <<fileVars, queue, timers, flagVars, spotlightOps, limitVars, excused,
                   historyVars, now>>

NothingNotStored(t) ==
    /\ pc[t] = "pick"
    /\ notStored = <<>>
    /\ Goto(t, "list", NoPath)
    /\ UNCHANGED <<fileVars, queueVars, flagVars, netVars, limitVars, lossVars, historyVars, now>>

(* getOldestEnvelope lists the directory under the monitor ...             *)
ListEnvelopes(t) ==
    /\ pc[t] = "list"
    /\ fmOwner = "none"
    /\ IF DOMAIN disk = {} THEN Goto(t, "finish", NoPath)
                           ELSE Goto(t, "load", Oldest(disk))
    /\ UNCHANGED <<fileVars, queueVars, flagVars, netVars, limitVars, lossVars, historyVars, now>>

(* ... and reads the file after leaving it, when it may be gone already.   *)
FileIsGone(t) ==
    /\ pc[t] = "load"
    /\ path[t] \notin DOMAIN disk
    /\ Goto(t, "finish", NoPath)
    /\ UNCHANGED <<fileVars, queueVars, flagVars, netVars, limitVars, lossVars, historyVars, now>>

NotDeserializable(t) ==
    /\ pc[t] = "load"
    /\ path[t] \in DOMAIN disk /\ ~Readable(disk[path[t]])
    /\ excused' = excused \cup ItemsOf(disk[path[t]])
    /\ Goto(t, "delete", path[t])
    /\ UNCHANGED <<fileVars, queueVars, flagVars, netVars, limitVars, discardedEvents, recorded,
                   historyVars, now>>

LoadEnvelope(t) ==
    /\ pc[t] = "load"
    /\ path[t] \in DOMAIN disk /\ Readable(disk[path[t]])
    /\ Process(t, disk[path[t]], path[t])
    /\ UNCHANGED <<fileVars, queueVars, flagVars, spotlightOps, limitVars, excused, historyVars,
                   now>>

DiskAfterDelete_Keeps(name) == disk    \* mutant: the file stays
DiskAfterDelete(name) == IF name = NoPath THEN disk ELSE Without(disk, name)

TimersAfterDelete == timers + 1

DeleteEnvelopeAndSendNext(t) ==
    /\ pc[t] = "delete"
    /\ path[t] # NoPath => fmOwner = "none"
    /\ disk' = DiskAfterDelete(path[t])
    /\ isSending' = FALSE
    /\ timers' = TimersAfterDelete
    /\ Goto(t, "idle", NoPath)
    /\ UNCHANGED <<fileCounter, fmOwner, notStored, queue, isFlushing, group, fpc, netVars,
                   limitVars, lossVars, historyVars, now>>

GroupAfterFinish == IF isFlushing THEN group - 1 ELSE group

(* finishedSending; leaving the group wakes the flushers waiting on it.    *)
FinishedSending(t) ==
    /\ pc[t] = "finish"
    /\ isSending' = FALSE
    /\ isFlushing' = FALSE
    /\ group' = GroupAfterFinish
    /\ fpc' = IF group' = 0
              THEN [f \in Flusher |-> IF fpc[f] = "wait" THEN "success" ELSE fpc[f]]
              ELSE fpc
    /\ Goto(t, "idle", NoPath)
    /\ UNCHANGED <<fileVars, queueVars, netVars, limitVars, lossVars, historyVars, now>>

-----------------------------------------------------------------------------
(* The completion handler of a request.                                    *)
CompleteRequest(r, o) ==
    LET lost == o.error /\ ~(o.answered /\ o.response.is429)
        items == NetworkLosses(r.env.types)
    IN  /\ r \in requests
        /\ pc["session"] = "idle"
        /\ requests' = requests \ {r}
        /\ discardedEvents' = IF lost
                              THEN RecordLostEventFor(discardedEvents, r.env.id, r.env.types)
                              ELSE discardedEvents
        /\ recorded' = recorded \cup (IF lost THEN Counted(r.env.id, items, "network_error") ELSE {})
        /\ IF o.answered
           THEN /\ rateLimits' = Update(rateLimits, now, o.response)
                /\ told' = told \cup BackOffs(o.response)
                /\ answered' = answered \cup (IF lost THEN {} ELSE ItemsOf(r.env))
                /\ wire' = IF "session" \in r.env.types
                           THEN Append(wire, [sid |-> Content[r.env.id].sid, init |-> r.env.init])
                           ELSE wire
                /\ Goto("session", "delete", r.path)
           ELSE /\ Goto("session", "finish", NoPath)
                /\ UNCHANGED <<limitVars, answered, wire>>
        /\ UNCHANGED <<fileVars, queueVars, flagVars, spotlightOps, excused, accepted,
                       wakeups, crashes, now>>

(* A Spotlight request only leaves the operation queue.                    *)
SpotlightDone ==
    /\ spotlightOps > 0
    /\ spotlightOps' = spotlightOps - 1
    /\ UNCHANGED <<fileVars, queueVars, threadVars, flagVars, requests, limitVars, lossVars,
                   historyVars, now>>

(* connectivityChanged with connected = YES, on the reachability queue.    *)
ConnectivityChanged ==
    /\ Usable
    /\ wakeups < MaxWakeups
    /\ pc["reach"] = "idle"
    /\ wakeups' = wakeups + 1
    /\ Goto("reach", "try", NoPath)
    /\ UNCHANGED <<fileVars, queueVars, flagVars, netVars, limitVars, lossVars, accepted,
                   answered, wire, crashes, now>>

-----------------------------------------------------------------------------
(* flush: set the flag and enter the group, dispatch, wait, return.        *)
MayFlush_Always == TRUE    \* mutant: flush does not test isFlushing
MayFlush == ~isFlushing

FlushRefused(f) ==
    /\ Usable
    /\ fpc[f] = "ready"
    /\ ~MayFlush
    /\ fpc' = [fpc EXCEPT ![f] = "already"]
    /\ UNCHANGED <<fileVars, queueVars, threadVars, isSending, isFlushing, group, netVars,
                   limitVars, lossVars, historyVars, now>>

FlushBegin(f) ==
    /\ Usable
    /\ fpc[f] = "ready"
    /\ MayFlush
    /\ isFlushing' = TRUE
    /\ group' = group + 1
    /\ fpc' = [fpc EXCEPT ![f] = "dispatch"]
    /\ UNCHANGED <<fileVars, queueVars, threadVars, isSending, netVars, limitVars, lossVars,
                   historyVars, now>>

QueueAfterFlush == Append(queue, SendBlock)

(* dispatch_group_wait returns at once when the group is empty already.    *)
FlushDispatch(f) ==
    /\ fpc[f] = "dispatch"
    /\ queue' = QueueAfterFlush
    /\ fpc' = [fpc EXCEPT ![f] = IF group = 0 THEN "success" ELSE "wait"]
    /\ UNCHANGED <<fileVars, notStored, timers, threadVars, isSending, isFlushing, group, netVars,
                   limitVars, lossVars, historyVars, now>>

FlushTimesOut(f) ==
    /\ fpc[f] = "wait"
    /\ fpc' = [fpc EXCEPT ![f] = "timedOut"]
    /\ UNCHANGED <<fileVars, queueVars, threadVars, isSending, isFlushing, group, netVars,
                   limitVars, lossVars, historyVars, now>>

-----------------------------------------------------------------------------
(* Time, and the death of the process followed by its next launch.         *)
Tick ==
    /\ now < MaxTime
    /\ now' = now + 1
    /\ UNCHANGED <<fileVars, queueVars, threadVars, flagVars, netVars, limitVars, lossVars,
                   historyVars>>

Crash ==
    /\ crashes < MaxCrashes
    /\ crashes' = crashes + 1
    /\ Launched
    /\ excused' = excused \cup Volatile
    /\ told' = {}
    /\ UNCHANGED <<disk, fileCounter, recorded, accepted, answered, wire, wakeups, now>>

(* Nothing is left to do: the transport rests.                             *)
AtRest ==
    /\ \A t \in Thread : pc[t] = "idle"
    /\ queue = <<>> /\ timers = 0 /\ requests = {} /\ spotlightOps = 0
    /\ \A f \in Flusher : fpc[f] \notin {"dispatch", "wait"}

Rest == AtRest /\ UNCHANGED vars

SenderStep(t) ==
    \/ AlreadySending(t) \/ StartSending(t)
    \/ TakeNotStored(t) \/ NothingNotStored(t)
    \/ ListEnvelopes(t) \/ FileIsGone(t) \/ NotDeserializable(t) \/ LoadEnvelope(t)
    \/ DeleteEnvelopeAndSendNext(t) \/ FinishedSending(t)
    \/ \E ok \in BOOLEAN : Evict(t, ok)

QueueStep == RunStoreBlock \/ RunStoreBlockFails \/ RunSendBlock

RequestStep == \E r \in requests, o \in Outcomes : CompleteRequest(r, o)

CallerStep ==
    \/ \E id \in EnvId : SendEnvelope(id) \/ StoreEnvelope(id)
    \/ \E f \in Flusher : FlushRefused(f) \/ FlushBegin(f) \/ FlushTimesOut(f)

Next ==
    \/ CallerStep
    \/ \E f \in Flusher : FlushDispatch(f)
    \/ QueueStep \/ TimerFires \/ RequestStep \/ SpotlightDone
    \/ \E t \in Thread : SenderStep(t)
    \/ ConnectivityChanged
    \/ \E n \in OldFiles : DeleteOldEnvelope(n)
    \/ Tick \/ Crash \/ Rest

Spec == Init /\ [][Next]_vars

(* Every block that was dispatched runs, every thread inside the transport *)
(* proceeds, and every request ends (NSURLSession times requests out).     *)
(* Nothing is assumed of the app, of the network's return or of the clock. *)
Fairness ==
    /\ WF_vars(QueueStep) /\ WF_vars(TimerFires)
    /\ WF_vars(RequestStep) /\ WF_vars(SpotlightDone)
    /\ \A t \in Thread : WF_vars(SenderStep(t))
    /\ \A f \in Flusher : WF_vars(FlushDispatch(f))

-----------------------------------------------------------------------------
(* Type correctness, by group of variables.                                *)
FileTypeOK ==
    /\ DOMAIN disk \subseteq Nat /\ IsFiniteSet(DOMAIN disk)
    /\ disk \in [DOMAIN disk -> Envelope]
    /\ fileCounter \in Nat /\ fmOwner \in Thread \cup {"none"}
QueueTypeOK == notStored \in Seq(Envelope) /\ queue \in Seq(Block) /\ timers \in Nat
ThreadTypeOK == pc \in [Thread -> Step] /\ path \in [Thread -> Nat]
FlagTypeOK ==
    /\ isSending \in BOOLEAN /\ isFlushing \in BOOLEAN /\ group \in Nat
    /\ fpc \in [Flusher -> FlushStep]
NetTypeOK == requests \subseteq Request /\ spotlightOps \in Nat
LimitTypeOK ==
    /\ rateLimits \in [LimitCategory -> Nat] /\ told \subseteq LimitCategory \X Nat
    /\ now \in Nat
LossTypeOK == discardedEvents \in Counters
HistoryTypeOK == accepted \subseteq EnvId /\ wakeups \in Nat /\ crashes \in Nat

(* Every variable of the transport has its type; in particular the group   *)
(* count never becomes negative.                                           *)
TypeOK ==
    /\ FileTypeOK /\ QueueTypeOK /\ ThreadTypeOK /\ FlagTypeOK
    /\ NetTypeOK /\ LimitTypeOK /\ LossTypeOK /\ HistoryTypeOK

(* isSending is a mutual exclusion lock: it is set exactly while one       *)
(* thread, or one request in flight, works on an envelope.                 *)
OneSender ==
    /\ isSending <=> \/ \E t \in Thread : pc[t] \in Sending
                     \/ requests # {}
    /\ \A t, u \in Thread : pc[t] \in Sending /\ pc[u] \in Sending => t = u
    /\ \A t \in Thread : pc[t] \in Sending => requests = {}
    /\ \A r, s \in requests : r = s

(* dispatch_group_leave is never called more often than enter, and the     *)
(* group is entered exactly while isFlushing is set.                       *)
GroupBalanced == (isFlushing => group = 1) /\ (~isFlushing => group = 0)

(* Whatever the threads, the failures and the evictions do, an item of an  *)
(* accepted envelope is on its way, was answered for, was counted in the   *)
(* client report counters, or was given up: lost with the memory of the    *)
(* process, unreadable, older than 90 days, or a session whose init was    *)
(* reported as migrated.  The last does not imply that the next envelope   *)
(* of the session got it: the result of rewriting that file is ignored.    *)
NoSilentLoss ==
    SendClientReports =>
        \A id \in accepted : \A ty \in Content[id].types :
            \/ <<id, ty>> \in Pending \cup answered \cup excused
            \/ \E reason \in Reason : <<id, ty, reason>> \in recorded

(* The monitor of the file manager is owned by the thread that is evicting *)
(* files, and then there is a file too many.                               *)
Monitor ==
    /\ \A t \in Thread : pc[t] = "evict" <=> fmOwner = t
    /\ fmOwner # "none" => Cardinality(DOMAIN disk) > MaxEnvelopes
    /\ \A n \in DOMAIN disk : n < fileCounter

(* The configured number of files, or as many as were found at launch.     *)
Allowance == IF Len(Cached) > MaxEnvelopes THEN Len(Cached) ELSE MaxEnvelopes

(* The cache never holds more than the configured number of envelopes,     *)
(* plus the one being stored, plus one for every death of the process      *)
(* between a write and the evictions it calls for.                         *)
CacheBounded ==
    LET size == Cardinality(DOMAIN disk)
    IN  /\ size <= Allowance + 1 + crashes
        /\ fmOwner = "none" => size <= Allowance + crashes

(* A request never carries an item of a category the server asked, in any  *)
(* earlier response of this launch, to hold back for longer.               *)
BackOffRespected ==
    [][\A r \in requests' \ requests : \A ty \in r.env.types : \A b \in told :
          b[1] \in {CategoryOf[ty], "all"} => b[2] <= now]_vars

(* An envelope the server answered for is not sent again by the process    *)
(* that received the answer.                                               *)
AnsweredOnce ==
    [][crashes = 0 =>
          \A r \in requests' \ requests : ItemsOf(r.env) \cap answered = {}]_vars

(* Nothing but the overflow of the cache can lose a session's update: the  *)
(* disk works, no session is rate limited, and each session begins with    *)
(* its init.                                                               *)
NothingElseFails ==
    /\ SendClientReports /\ Faults = {} /\ Corrupt = {} /\ OldFiles = {}
    /\ \A o \in Outcomes : o.answered =>
          IF o.response.hasHeader
          THEN \A c \in {"session", "all"} : o.response.header[c] = 0
          ELSE ~o.response.is429
    /\ \A n \in DOMAIN Cached : "session" \in Cached[n].types =>
          Cached[n].init \/ \E m \in 1 .. n - 1 : SameSession(Cached[n], Cached[m])
    /\ \A id \in EnvId : "session" \in Content[id].types =>
          /\ id \notin Direct
          /\ \/ Content[id].init
             \/ \E other \in EnvId : other < id /\ SameSession(Fresh(id), Fresh(other))

(* The i-th session item the server got is not preceded by its init.       *)
Orphan(i) ==
    /\ ~wire[i].init
    /\ \A j \in 1 .. i - 1 : wire[j].sid = wire[i].sid => ~wire[j].init

(* While nothing else fails and the process lives, the server sees an      *)
(* update of a session before its init only after the cache overflowed     *)
(* with no other envelope of that session to migrate the init to; that     *)
(* loss is counted.                                                        *)
InitLostOnlyByEviction ==
    NothingElseFails /\ crashes = 0 =>
        \A i \in 1 .. Len(wire) : Orphan(i) =>
            \E id \in EnvId : /\ Content[id].sid = wire[i].sid
                              /\ <<id, "session", "cache_overflow">> \in recorded
=============================================================================
