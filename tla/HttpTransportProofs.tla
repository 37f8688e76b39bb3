------------------------- MODULE HttpTransportProofs -------------------------
(***************************************************************************)
(* Proofs about HttpTransport, for any envelopes, limits, outcomes, faults *)
(* and numbers of flushers, crashes and connectivity changes.              *)
(***************************************************************************)
EXTENDS HttpTransport, FiniteSetTheorems, WellFoundedInduction, TLAPS

-----------------------------------------------------------------------------
(* The envelopes directory.                                                *)

(* A nonempty directory has an oldest file.                                *)
LEMMA OldestExists ==
    ASSUME NEW dir, DOMAIN dir \subseteq Nat, DOMAIN dir # {}
    PROVE  /\ Oldest(dir) \in DOMAIN dir
           /\ \A m \in DOMAIN dir : Oldest(dir) <= m
<1> DEFINE less == OpToRel(<, Nat)
<1>1. IsWellFoundedOn(less, Nat)
  BY NatLessThanWellFounded
<1>2. \A m, n \in Nat : m < n => <<m, n>> \in less
  BY DEF OpToRel
<1> HIDE DEF less
<1>3. \E n \in DOMAIN dir : \A m \in DOMAIN dir : ~(<<m, n>> \in less)
  BY <1>1, WFMin
<1>4. \E n \in DOMAIN dir : \A m \in DOMAIN dir : n <= m
  <2>1. PICK n \in DOMAIN dir : \A m \in DOMAIN dir : ~(<<m, n>> \in less)
    BY <1>3
  <2>2. ASSUME NEW m \in DOMAIN dir PROVE n <= m
    <3>1. m \in Nat /\ n \in Nat /\ ~(m < n)
      BY <1>2, <2>1, <2>2
    <3>2. QED
      BY <3>1
  <2>3. QED
    BY <2>2
<1>5. QED
  BY <1>4 DEF Oldest

(* Adding a file with a new name.                                          *)
LEMMA WithType ==
    ASSUME NEW dir, DOMAIN dir \subseteq Nat, IsFiniteSet(DOMAIN dir),
           dir \in [DOMAIN dir -> Envelope],
           NEW name \in Nat, name \notin DOMAIN dir, NEW env \in Envelope
    PROVE  /\ DOMAIN With(dir, name, env) = DOMAIN dir \cup {name}
           /\ IsFiniteSet(DOMAIN With(dir, name, env))
           /\ Cardinality(DOMAIN With(dir, name, env)) = Cardinality(DOMAIN dir) + 1
           /\ With(dir, name, env) \in [DOMAIN With(dir, name, env) -> Envelope]
<1>1. DOMAIN With(dir, name, env) = DOMAIN dir \cup {name}
  BY DEF With
<1>2. With(dir, name, env) \in [DOMAIN dir \cup {name} -> Envelope]
  BY DEF With
<1>3. QED
  BY <1>1, <1>2, FS_AddElement

(* Removing a file.                                                        *)
LEMMA WithoutType ==
    ASSUME NEW dir, DOMAIN dir \subseteq Nat, IsFiniteSet(DOMAIN dir),
           dir \in [DOMAIN dir -> Envelope], NEW name
    PROVE  /\ DOMAIN Without(dir, name) = DOMAIN dir \ {name}
           /\ IsFiniteSet(DOMAIN Without(dir, name))
           /\ Cardinality(DOMAIN Without(dir, name))
                = IF name \in DOMAIN dir THEN Cardinality(DOMAIN dir) - 1
                                         ELSE Cardinality(DOMAIN dir)
           /\ Without(dir, name) \in [DOMAIN Without(dir, name) -> Envelope]
<1>1. DOMAIN Without(dir, name) = DOMAIN dir \ {name}
  BY DEF Without
<1>2. Without(dir, name) \in [DOMAIN dir \ {name} -> Envelope]
  BY DEF Without
<1>3. QED
  BY <1>1, <1>2, FS_RemoveElement

(* Migrating a session init rewrites a file and keeps the names.           *)
LEMMA MigrateType ==
    ASSUME NEW dir, dir \in [DOMAIN dir -> Envelope], NEW ok
    PROVE  /\ DOMAIN MigrateSessionInit(dir, ok) = DOMAIN dir
           /\ MigrateSessionInit(dir, ok) \in [DOMAIN dir -> Envelope]
BY DEF MigrateSessionInit, Envelope

-----------------------------------------------------------------------------
(* Envelopes, counters and rate limits.                                    *)

(* An envelope is built from its content.                                  *)
LEMMA FreshType == \A id \in EnvId : Fresh(id) \in Envelope
BY ContentAssumption DEF Fresh, Envelope, Contents, ItemType

(* What the rate limits leave of an envelope is an envelope.               *)
LEMMA RemoveType ==
    ASSUME NEW env \in Envelope, NEW limits, NEW date
    PROVE  RemoveRateLimitedItems(env, limits, date) \in Envelope
BY DEF RemoveRateLimitedItems, Envelope

(* An envelope with a client report attached is an envelope.               *)
LEMMA ReportType ==
    ASSUME NEW env \in Envelope, NEW counters
    PROVE  AddClientReportTo(env, counters) \in Envelope
BY DEF AddClientReportTo, Envelope, ItemType

(* Counting lost items keeps counters.                                     *)
LEMMA RecordLostType ==
    ASSUME NEW counters \in Counters, NEW id \in EnvId, NEW types, NEW reason
    PROVE  RecordLost(counters, id, types, reason) \in Counters
<1>1. LostSpans(id) \in Nat
  BY ContentAssumption DEF LostSpans, Contents
<1>2. \A k \in LossKey, q \in Nat : counters[k] \in Nat /\ Recorded(counters[k], q) \in Nat
  BY DEF Counters, Recorded
<1>3. QED
  BY <1>1, <1>2 DEF RecordLost, Counters

(* Reset counters are counters.                                            *)
LEMMA NoLossesType == NoLosses \in Counters
BY DEF NoLosses, Counters

(* Attaching a report keeps or resets the counters.                        *)
LEMMA CountersAfterReportType ==
    ASSUME NEW counters \in Counters
    PROVE  CountersAfterReport(counters) \in Counters
BY NoLossesType DEF CountersAfterReport

(* A response only moves dates forward, at least to what it asks for.      *)
LEMMA UpdateKeeps ==
    ASSUME NEW limits \in [LimitCategory -> Nat], NEW date \in Nat, NEW response \in Response
    PROVE  /\ Update(limits, date, response) \in [LimitCategory -> Nat]
           /\ \A c \in LimitCategory : limits[c] <= Update(limits, date, response)[c]
<1>1. "all" \in LimitCategory
  BY DEF LimitCategory
<1>2. QED
  BY <1>1, DefaultRetryAfterAssumption
  DEF Update, UpdateRateLimit, MaximumDate, Response

-----------------------------------------------------------------------------
(* Every step of the transport changes pc, requests and isSending in one   *)
(* of few ways; OneSender follows from them.                               *)

(* The threads that send are told apart from the others by pc alone.       *)
LEMMA OneSenderSenderStep ==
    ASSUME ThreadTypeOK, OneSender, NEW t \in Thread, SenderStep(t)
    PROVE  OneSender'
<1> USE DEF ThreadTypeOK, OneSender, Sending, Goto, Step
<1>1. CASE AlreadySending(t)
  BY <1>1 DEF AlreadySending, flagVars, netVars
<1>2. CASE StartSending(t)
  BY <1>2 DEF StartSending, MayStart, netVars
<1>3. CASE TakeNotStored(t)
  BY <1>3 DEF TakeNotStored, Process, AllItemsLimited, RequestNotBuilt, AddRequest, flagVars
<1>4. CASE NothingNotStored(t)
  BY <1>4 DEF NothingNotStored, flagVars, netVars
<1>5. CASE ListEnvelopes(t)
  BY <1>5 DEF ListEnvelopes, flagVars, netVars
<1>6. CASE FileIsGone(t)
  BY <1>6 DEF FileIsGone, flagVars, netVars
<1>7. CASE NotDeserializable(t)
  BY <1>7 DEF NotDeserializable, flagVars, netVars
<1>8. CASE LoadEnvelope(t)
  BY <1>8 DEF LoadEnvelope, Process, AllItemsLimited, RequestNotBuilt, AddRequest, flagVars
<1>9. CASE DeleteEnvelopeAndSendNext(t)
  BY <1>9 DEF DeleteEnvelopeAndSendNext, netVars
<1>10. CASE FinishedSending(t)
  BY <1>10 DEF FinishedSending, netVars
<1>11. CASE \E ok \in BOOLEAN : Evict(t, ok)
  BY <1>11 DEF Evict, flagVars, netVars, AfterStore
<1>12. QED
  BY <1>1, <1>2, <1>3, <1>4, <1>5, <1>6, <1>7, <1>8, <1>9, <1>10, <1>11 DEF SenderStep

(* Every step keeps isSending a lock.                                      *)
LEMMA OneSenderNext ==
    ASSUME ThreadTypeOK, OneSender, [Next]_vars
    PROVE  OneSender'
<1> USE DEF ThreadTypeOK, OneSender, Sending, Goto, Step
<1>1. CASE CallerStep
  <2>1. CASE \E id \in EnvId : SendEnvelope(id)
    BY <2>1 DEF SendEnvelope, threadVars, flagVars, netVars
  <2>2. CASE \E id \in EnvId : StoreEnvelope(id)
    BY <2>2 DEF StoreEnvelope, Write, AfterStore, Thread, flagVars, netVars
  <2>3. CASE \E f \in Flusher : FlushRefused(f) \/ FlushBegin(f) \/ FlushTimesOut(f)
    BY <2>3 DEF FlushRefused, FlushBegin, FlushTimesOut, threadVars, netVars
  <2>4. QED
    BY <1>1, <2>1, <2>2, <2>3 DEF CallerStep
<1>2. CASE \E f \in Flusher : FlushDispatch(f)
  BY <1>2 DEF FlushDispatch, threadVars, netVars
<1>3. CASE QueueStep
  BY <1>3 DEF QueueStep, RunStoreBlock, RunStoreBlockFails, RunSendBlock, Write, AfterStore,
              Thread, flagVars, netVars
<1>4. CASE TimerFires
  BY <1>4 DEF TimerFires, threadVars, flagVars, netVars
<1>5. CASE RequestStep
  BY <1>5 DEF RequestStep, CompleteRequest, Thread, flagVars
<1>6. CASE SpotlightDone
  BY <1>6 DEF SpotlightDone, threadVars, flagVars
<1>7. CASE \E t \in Thread : SenderStep(t)
  BY <1>7, OneSenderSenderStep
<1>8. CASE ConnectivityChanged
  BY <1>8 DEF ConnectivityChanged, Thread, flagVars, netVars
<1>9. CASE \E n \in OldFiles : DeleteOldEnvelope(n)
  BY <1>9 DEF DeleteOldEnvelope, threadVars, flagVars, netVars
<1>10. CASE Tick
  BY <1>10 DEF Tick, threadVars, flagVars, netVars
<1>11. CASE Crash
  BY <1>11 DEF Crash, Launched, Thread
<1>12. CASE Rest \/ UNCHANGED vars
  BY <1>12 DEF Rest, vars, threadVars, flagVars, netVars
<1>13. QED
  BY <1>1, <1>2, <1>3, <1>4, <1>5, <1>6, <1>7, <1>8, <1>9, <1>10, <1>11, <1>12 DEF Next

-----------------------------------------------------------------------------
(* The file manager: its directory stays well formed and its monitor is    *)
(* held exactly by the thread that evicts.                                 *)

(* Storing a file, with or without evictions to follow.                    *)
LEMMA WriteMonitor ==
    ASSUME FileTypeOK, ThreadTypeOK, Monitor, NEW t \in Thread, NEW env \in Envelope,
           NEW next \in {"idle", "try"}, pc[t] = "idle", Write(t, env, next)
    PROVE  FileTypeOK' /\ Monitor'
<1>1. fileCounter \in Nat /\ fileCounter \notin DOMAIN disk
  BY DEF FileTypeOK, Monitor
<1>2. disk' = With(disk, fileCounter, env)
  BY DEF Write
<1>3. /\ DOMAIN disk' = DOMAIN disk \cup {fileCounter}
      /\ IsFiniteSet(DOMAIN disk')
      /\ Cardinality(DOMAIN disk') = Cardinality(DOMAIN disk) + 1
      /\ disk' \in [DOMAIN disk' -> Envelope]
  BY <1>1, <1>2, WithType DEF FileTypeOK
<1>4. FileTypeOK'
  BY <1>1, <1>3 DEF FileTypeOK, Write
<1>5. \A n \in DOMAIN disk' : n < fileCounter'
  BY <1>1, <1>3 DEF FileTypeOK, Monitor, Write
<1>6. "none" \notin Thread
  BY DEF Thread
<1>7. QED
  BY <1>3, <1>4, <1>5, <1>6 DEF ThreadTypeOK, Step, Monitor, Write, OverLimit

(* One eviction.                                                           *)
LEMMA EvictMonitor ==
    ASSUME FileTypeOK, ThreadTypeOK, Monitor, NEW t \in Thread, NEW ok \in BOOLEAN,
           Evict(t, ok)
    PROVE  /\ FileTypeOK' /\ Monitor'
           /\ Oldest(disk) \in DOMAIN disk
           /\ Cardinality(DOMAIN disk') = Cardinality(DOMAIN disk) - 1
<1>1. fmOwner = t /\ Cardinality(DOMAIN disk) > MaxEnvelopes
  BY DEF Evict, Monitor, Thread
<1>2. DOMAIN disk # {}
  <2>1. Cardinality({}) = 0 /\ MaxEnvelopes \in Nat
    BY FS_EmptySet, TransportAssumption
  <2>2. QED
    BY <1>1, <2>1
<1>3. Oldest(disk) \in DOMAIN disk
  BY <1>2, OldestExists DEF FileTypeOK
<1> DEFINE migrated == MigrateSessionInit(disk, ok)
<1>4. /\ DOMAIN migrated = DOMAIN disk
      /\ migrated \in [DOMAIN migrated -> Envelope]
  BY MigrateType DEF FileTypeOK
<1>5. disk' = Without(migrated, Oldest(disk))
  BY DEF Evict
<1> HIDE DEF migrated
<1>6. /\ DOMAIN disk' = DOMAIN disk \ {Oldest(disk)}
      /\ IsFiniteSet(DOMAIN disk')
      /\ Cardinality(DOMAIN disk') = Cardinality(DOMAIN disk) - 1
      /\ disk' \in [DOMAIN disk' -> Envelope]
  BY <1>3, <1>4, <1>5, WithoutType DEF FileTypeOK
<1>7. FileTypeOK'
  BY <1>6 DEF FileTypeOK, Evict
<1>8. \A n \in DOMAIN disk' : n < fileCounter'
  BY <1>6 DEF Monitor, Evict
<1>9. "none" \notin Thread
  BY DEF Thread
<1>10. (fmOwner # "none" => Cardinality(DOMAIN disk) > MaxEnvelopes)'
  BY <1>6 DEF Evict, OverLimit
<1>11. (\A u \in Thread : pc[u] = "evict" <=> fmOwner = u)'
  BY <1>1, <1>9 DEF Evict, Monitor, ThreadTypeOK, AfterStore
<1>12. QED
  BY <1>3, <1>6, <1>7, <1>8, <1>10, <1>11 DEF Monitor

(* Removing any file while the monitor is free.                            *)
LEMMA RemoveMonitor ==
    ASSUME FileTypeOK, Monitor, fmOwner = "none", NEW name, disk' = Without(disk, name),
           UNCHANGED <<fileCounter, fmOwner>>,
           \A t \in Thread : pc'[t] = "evict" <=> pc[t] = "evict"
    PROVE  FileTypeOK' /\ Monitor'
<1>1. /\ DOMAIN disk' = DOMAIN disk \ {name}
      /\ IsFiniteSet(DOMAIN disk')
      /\ disk' \in [DOMAIN disk' -> Envelope]
  BY WithoutType DEF FileTypeOK
<1>2. QED
  BY <1>1 DEF FileTypeOK, Monitor

(* Any step that leaves the files alone and moves no thread into or out of *)
(* an eviction.                                                            *)
LEMMA IdleMonitor ==
    ASSUME FileTypeOK, Monitor, UNCHANGED fileVars,
           \A t \in Thread : pc'[t] = "evict" <=> pc[t] = "evict"
    PROVE  FileTypeOK' /\ Monitor'
BY DEF FileTypeOK, Monitor, fileVars

(* The sender's steps and the files.                                       *)
LEMMA MonitorSenderStep ==
    ASSUME FileTypeOK, ThreadTypeOK, Monitor, NEW t \in Thread, SenderStep(t)
    PROVE  FileTypeOK' /\ Monitor'
<1>1. CASE \E ok \in BOOLEAN : Evict(t, ok)
  BY <1>1, EvictMonitor
<1>2. CASE DeleteEnvelopeAndSendNext(t)
  <2>1. \A u \in Thread : pc'[u] = "evict" <=> pc[u] = "evict"
    BY <1>2 DEF DeleteEnvelopeAndSendNext, Goto, ThreadTypeOK
  <2>2. CASE path[t] = NoPath
    BY <1>2, <2>1, <2>2, IdleMonitor
    DEF DeleteEnvelopeAndSendNext, DiskAfterDelete, fileVars
  <2>3. CASE path[t] # NoPath
    BY <1>2, <2>1, <2>3, RemoveMonitor DEF DeleteEnvelopeAndSendNext, DiskAfterDelete
  <2>4. QED
    BY <2>2, <2>3
<1>3. CASE TakeNotStored(t) \/ LoadEnvelope(t)
  <2>1. \A u \in Thread : pc'[u] = "evict" <=> pc[u] = "evict"
    BY <1>3 DEF TakeNotStored, LoadEnvelope, Process, AllItemsLimited, RequestNotBuilt,
                AddRequest, Goto, ThreadTypeOK
  <2>2. QED
    BY <1>3, <2>1, IdleMonitor DEF TakeNotStored, LoadEnvelope
<1>4. CASE AlreadySending(t) \/ StartSending(t) \/ NothingNotStored(t) \/ ListEnvelopes(t)
             \/ FileIsGone(t) \/ NotDeserializable(t) \/ FinishedSending(t)
  <2>1. \A u \in Thread : pc'[u] = "evict" <=> pc[u] = "evict"
    BY <1>4 DEF AlreadySending, StartSending, NothingNotStored, ListEnvelopes, FileIsGone,
                NotDeserializable, FinishedSending, Goto, ThreadTypeOK
  <2>2. QED
    BY <1>4, <2>1, IdleMonitor
    DEF AlreadySending, StartSending, NothingNotStored, ListEnvelopes, FileIsGone,
        NotDeserializable, FinishedSending
<1>5. QED
  BY <1>1, <1>2, <1>3, <1>4 DEF SenderStep

(* Every step keeps the monitor and the files in order.                    *)
LEMMA MonitorNext ==
    ASSUME FileTypeOK, QueueTypeOK, ThreadTypeOK, Monitor, [Next]_vars
    PROVE  FileTypeOK' /\ Monitor'
<1>1. CASE \E id \in EnvId : StoreEnvelope(id)
  <2>1. PICK id \in EnvId : StoreEnvelope(id)
    BY <1>1
  <2>2. CASE Write("app", Fresh(id), AfterStore("app"))
    BY <2>1, <2>2, FreshType, WriteMonitor DEF StoreEnvelope, AfterStore, Thread
  <2>3. CASE UNCHANGED <<fileVars, pc>>
    BY <2>3, IdleMonitor
  <2>4. QED
    BY <2>1, <2>2, <2>3 DEF StoreEnvelope
<1>2. CASE RunStoreBlock
  <2>1. Head(queue).env \in Envelope
    BY <1>2 DEF RunStoreBlock, QueueTypeOK, Block, SendBlock
  <2>2. QED
    BY <1>2, <2>1, WriteMonitor DEF RunStoreBlock, AfterStore, Thread
<1>3. CASE RunStoreBlockFails \/ RunSendBlock \/ RequestStep \/ ConnectivityChanged
  <2>1. \A u \in Thread : pc'[u] = "evict" <=> pc[u] = "evict"
    <3>1. CASE RunStoreBlockFails \/ RunSendBlock \/ ConnectivityChanged
      BY <3>1 DEF RunStoreBlockFails, RunSendBlock, ConnectivityChanged, Goto, ThreadTypeOK,
                  Thread
    <3>2. CASE RequestStep
      BY <3>2 DEF RequestStep, CompleteRequest, Goto, ThreadTypeOK, Thread
    <3>3. QED
      BY <1>3, <3>1, <3>2
  <2>2. UNCHANGED fileVars
    BY <1>3 DEF RunStoreBlockFails, RunSendBlock, RequestStep, CompleteRequest,
                ConnectivityChanged
  <2>3. QED
    BY <2>1, <2>2, IdleMonitor
<1>4. CASE \E t \in Thread : SenderStep(t)
  BY <1>4, MonitorSenderStep
<1>5. CASE \E n \in OldFiles : DeleteOldEnvelope(n)
  BY <1>5, RemoveMonitor DEF DeleteOldEnvelope, threadVars
<1>6. CASE Crash
  BY <1>6 DEF Crash, Launched, FileTypeOK, Monitor, Thread
<1>7. CASE \/ \E id \in EnvId : SendEnvelope(id)
           \/ \E f \in Flusher : \/ FlushRefused(f) \/ FlushBegin(f)
                                 \/ FlushTimesOut(f) \/ FlushDispatch(f)
           \/ TimerFires \/ SpotlightDone \/ Tick \/ Rest \/ UNCHANGED vars
  <2>1. UNCHANGED <<fileVars, threadVars>>
    BY <1>7 DEF SendEnvelope, FlushRefused, FlushBegin, FlushTimesOut, FlushDispatch,
                TimerFires, SpotlightDone, Tick, Rest, vars
  <2>2. QED
    BY <2>1, IdleMonitor DEF threadVars
<1>8. QED
  BY <1>1, <1>2, <1>3, <1>4, <1>5, <1>6, <1>7 DEF Next, CallerStep, QueueStep

-----------------------------------------------------------------------------
(* The other variables keep their types.                                   *)

(* Types of the threads.                                                   *)
LEMMA ThreadTypeNext ==
    ASSUME FileTypeOK, ThreadTypeOK, NetTypeOK, [Next]_vars
    PROVE  ThreadTypeOK'
<1> USE DEF ThreadTypeOK, Step, Goto
<1>1. NoPath \in Nat
  BY DEF NoPath
<1>2. CASE \E id \in EnvId : StoreEnvelope(id)
  BY <1>2 DEF StoreEnvelope, Write, AfterStore
<1>3. CASE QueueStep
  BY <1>1, <1>3 DEF QueueStep, RunStoreBlock, RunStoreBlockFails, RunSendBlock, Write, AfterStore
<1>4. CASE RequestStep
  <2>1. PICK r \in requests, o \in Outcomes : CompleteRequest(r, o)
    BY <1>4 DEF RequestStep
  <2>2. \/ Goto("session", "delete", r.path)
        \/ Goto("session", "finish", NoPath)
    BY <2>1 DEF CompleteRequest
  <2>3. r.path \in Nat
    BY DEF NetTypeOK, Request
  <2>4. QED
    BY <1>1, <2>2, <2>3
<1>5. CASE ConnectivityChanged
  BY <1>1, <1>5 DEF ConnectivityChanged
<1>6. CASE Crash
  BY <1>1, <1>6 DEF Crash, Launched
<1>7. ASSUME NEW t \in Thread, SenderStep(t) PROVE ThreadTypeOK'
  <2>1. CASE ListEnvelopes(t)
    <3>1. DOMAIN disk # {} => Oldest(disk) \in Nat
      <4>1. DOMAIN disk \subseteq Nat
        BY DEF FileTypeOK
      <4>2. DOMAIN disk # {} => Oldest(disk) \in DOMAIN disk
        BY <4>1, OldestExists
      <4>3. QED
        BY <4>1, <4>2
    <3>2. \E step \in {"finish", "load"}, name \in Nat : Goto(t, step, name)
      BY <1>1, <2>1, <3>1 DEF ListEnvelopes
    <3>3. QED
      BY <3>2
  <2>2. CASE TakeNotStored(t) \/ LoadEnvelope(t)
    BY <1>1, <2>2 DEF TakeNotStored, LoadEnvelope, Process, AllItemsLimited, RequestNotBuilt,
                      AddRequest
  <2>3. CASE \E ok \in BOOLEAN : Evict(t, ok)
    BY <2>3 DEF Evict, AfterStore
  <2>4. CASE AlreadySending(t) \/ StartSending(t) \/ NothingNotStored(t) \/ FileIsGone(t)
               \/ NotDeserializable(t) \/ DeleteEnvelopeAndSendNext(t) \/ FinishedSending(t)
    BY <1>1, <2>4 DEF AlreadySending, StartSending, NothingNotStored, FileIsGone,
                      NotDeserializable, DeleteEnvelopeAndSendNext, FinishedSending
  <2>5. QED
    BY <1>7, <2>1, <2>2, <2>3, <2>4 DEF SenderStep
<1>8. CASE \/ \E id \in EnvId : SendEnvelope(id)
           \/ \E f \in Flusher : \/ FlushRefused(f) \/ FlushBegin(f)
                                 \/ FlushTimesOut(f) \/ FlushDispatch(f)
           \/ \E n \in OldFiles : DeleteOldEnvelope(n)
           \/ TimerFires \/ SpotlightDone \/ Tick \/ Rest \/ UNCHANGED vars
  BY <1>8 DEF SendEnvelope, FlushRefused, FlushBegin, FlushTimesOut, FlushDispatch,
              DeleteOldEnvelope, TimerFires, SpotlightDone, Tick, Rest, vars, threadVars
<1>9. QED
  BY <1>2, <1>3, <1>4, <1>5, <1>6, <1>7, <1>8 DEF Next, CallerStep

(* The blocks on the serial queue and the envelopes that were not stored.  *)
LEMMA QueueTypeNext ==
    ASSUME QueueTypeOK, [Next]_vars
    PROVE  QueueTypeOK'
<1> USE DEF QueueTypeOK
<1>1. SendBlock \in Block
  BY DEF Block
<1>2. CASE \E id \in EnvId : SendEnvelope(id)
  <2>1. PICK id \in EnvId : SendEnvelope(id)
    BY <1>2
  <2>2. \A limits, date, counters :
            AddClientReportTo(RemoveRateLimitedItems(Fresh(id), limits, date), counters) \in Envelope
    BY FreshType, RemoveType, ReportType
  <2>3. \A env \in Envelope : StoreBlock(env) \in Block
    BY DEF StoreBlock, Block
  <2>4. QED
    BY <2>1, <2>2, <2>3 DEF SendEnvelope
<1>3. CASE QueueStep
  <2>1. Head(queue).op = "store" /\ queue # <<>> => Head(queue).env \in Envelope
    BY DEF Block, SendBlock
  <2>2. queue # <<>> /\ queue' = Tail(queue) /\ timers' = timers
    BY <1>3 DEF QueueStep, RunStoreBlock, RunStoreBlockFails, RunSendBlock
  <2>3. \/ notStored' = notStored
        \/ Head(queue).op = "store" /\ notStored' = Append(notStored, Head(queue).env)
    BY <1>3 DEF QueueStep, RunStoreBlock, RunStoreBlockFails, RunSendBlock, NotStoredAfter
  <2>4. queue' \in Seq(Block)
    BY <2>2
  <2>5. notStored' \in Seq(Envelope)
    <3>1. CASE notStored' = notStored
      BY <3>1
    <3>2. CASE Head(queue).op = "store" /\ notStored' = Append(notStored, Head(queue).env)
      <4>1. PICK env \in Envelope : env = Head(queue).env
        BY <2>1, <2>2, <3>2
      <4>2. QED
        BY <3>2, <4>1
    <3>3. QED
      BY <2>3, <3>1, <3>2
  <2>6. QED
    BY <2>2, <2>4, <2>5
<1>4. CASE TimerFires
  BY <1>1, <1>4 DEF TimerFires
<1>5. CASE \E f \in Flusher : FlushDispatch(f)
  BY <1>1, <1>5 DEF FlushDispatch, QueueAfterFlush
<1>6. CASE Crash
  BY <1>6 DEF Crash, Launched
<1>7. ASSUME NEW t \in Thread, SenderStep(t) PROVE QueueTypeOK'
  <2>1. CASE TakeNotStored(t)
    BY <2>1 DEF TakeNotStored
  <2>2. CASE DeleteEnvelopeAndSendNext(t)
    BY <2>2 DEF DeleteEnvelopeAndSendNext, TimersAfterDelete
  <2>3. CASE AlreadySending(t) \/ StartSending(t) \/ NothingNotStored(t) \/ ListEnvelopes(t)
               \/ FileIsGone(t) \/ NotDeserializable(t) \/ LoadEnvelope(t)
               \/ FinishedSending(t) \/ \E ok \in BOOLEAN : Evict(t, ok)
    BY <2>3 DEF AlreadySending, StartSending, NothingNotStored, ListEnvelopes, FileIsGone,
                NotDeserializable, LoadEnvelope, FinishedSending, Evict, queueVars
  <2>4. QED
    BY <1>7, <2>1, <2>2, <2>3 DEF SenderStep
<1>8. CASE \/ \E id \in EnvId : StoreEnvelope(id)
           \/ \E f \in Flusher : FlushRefused(f) \/ FlushBegin(f) \/ FlushTimesOut(f)
           \/ \E n \in OldFiles : DeleteOldEnvelope(n)
           \/ RequestStep \/ ConnectivityChanged
           \/ SpotlightDone \/ Tick \/ Rest \/ UNCHANGED vars
  BY <1>8 DEF StoreEnvelope, FlushRefused, FlushBegin, FlushTimesOut, DeleteOldEnvelope,
              RequestStep, CompleteRequest, ConnectivityChanged, SpotlightDone, Tick, Rest,
              vars, queueVars
<1>9. QED
  BY <1>2, <1>3, <1>4, <1>5, <1>6, <1>7, <1>8 DEF Next, CallerStep

(* The flags and the dispatch group; the count stays natural because the   *)
(* group is balanced.                                                      *)
LEMMA FlagTypeUnchanged ==
    ASSUME FlagTypeOK, GroupBalanced, UNCHANGED <<isFlushing, group, fpc>>, isSending' \in BOOLEAN
    PROVE  FlagTypeOK' /\ GroupBalanced'
BY DEF FlagTypeOK, GroupBalanced

(* The steps of flush.                                                     *)
LEMMA FlagTypeFlush ==
    ASSUME FlagTypeOK, GroupBalanced, NEW f \in Flusher,
           FlushRefused(f) \/ FlushBegin(f) \/ FlushTimesOut(f) \/ FlushDispatch(f)
    PROVE  FlagTypeOK' /\ GroupBalanced'
<1>1. fpc' \in [Flusher -> FlushStep]
  BY DEF FlagTypeOK, FlushStep, FlushRefused, FlushBegin, FlushTimesOut, FlushDispatch
<1>2. isSending' = isSending
  BY DEF FlushRefused, FlushBegin, FlushTimesOut, FlushDispatch
<1>3. \/ isFlushing' = isFlushing /\ group' = group
      \/ ~isFlushing /\ isFlushing' = TRUE /\ group' = group + 1
  BY DEF FlushRefused, FlushBegin, FlushTimesOut, FlushDispatch, MayFlush
<1>4. CASE isFlushing' = isFlushing /\ group' = group
  BY <1>1, <1>2, <1>4, Zenon DEF FlagTypeOK, GroupBalanced
<1>5. CASE ~isFlushing /\ isFlushing' = TRUE /\ group' = group + 1
  <2>1. group' = 1 /\ 1 \in Nat
    BY <1>5 DEF GroupBalanced
  <2>2. QED
    BY <1>1, <1>2, <1>5, <2>1, Zenon DEF FlagTypeOK, GroupBalanced
<1>6. QED
  BY <1>3, <1>4, <1>5

(* The end of a pass leaves the group it may have to leave.                *)
LEMMA FlagTypeFinish ==
    ASSUME FlagTypeOK, GroupBalanced, NEW t \in Thread, FinishedSending(t)
    PROVE  FlagTypeOK' /\ GroupBalanced'
<1>1. isSending' = FALSE /\ isFlushing' = FALSE
  BY DEF FinishedSending
<1>2. group' = 0
  <2>1. CASE isFlushing
    BY <2>1 DEF FinishedSending, GroupAfterFinish, GroupBalanced
  <2>2. CASE ~isFlushing
    BY <2>2 DEF FinishedSending, GroupAfterFinish, GroupBalanced
  <2>3. QED
    BY <2>1, <2>2
<1>3. fpc' \in [Flusher -> FlushStep]
  BY <1>2 DEF FinishedSending, FlagTypeOK, FlushStep
<1>4. QED
  BY <1>1, <1>2, <1>3 DEF FlagTypeOK, GroupBalanced

(* Types of the flags, and the balance of the group.                       *)
LEMMA FlagTypeNext ==
    ASSUME FlagTypeOK, GroupBalanced, [Next]_vars
    PROVE  FlagTypeOK' /\ GroupBalanced'
<1>1. CASE \E f \in Flusher : \/ FlushRefused(f) \/ FlushBegin(f)
                              \/ FlushTimesOut(f) \/ FlushDispatch(f)
  BY <1>1, FlagTypeFlush
<1>2. CASE Crash
  BY <1>2 DEF Crash, Launched, FlagTypeOK, GroupBalanced, FlushStep
<1>3. ASSUME NEW t \in Thread, SenderStep(t) PROVE FlagTypeOK' /\ GroupBalanced'
  <2>1. CASE FinishedSending(t)
    BY <2>1, FlagTypeFinish
  <2>2. CASE StartSending(t) \/ DeleteEnvelopeAndSendNext(t)
    BY <2>2, FlagTypeUnchanged DEF StartSending, DeleteEnvelopeAndSendNext
  <2>3. CASE AlreadySending(t) \/ NothingNotStored(t) \/ ListEnvelopes(t) \/ TakeNotStored(t)
               \/ FileIsGone(t) \/ NotDeserializable(t) \/ LoadEnvelope(t)
               \/ \E ok \in BOOLEAN : Evict(t, ok)
    <3>1. UNCHANGED flagVars
      BY <2>3 DEF AlreadySending, NothingNotStored, ListEnvelopes, TakeNotStored, FileIsGone,
                  NotDeserializable, LoadEnvelope, Evict
    <3>2. QED
      BY <3>1, FlagTypeUnchanged DEF flagVars, FlagTypeOK
  <2>4. QED
    BY <1>3, <2>1, <2>2, <2>3 DEF SenderStep
<1>4. CASE \/ \E id \in EnvId : SendEnvelope(id) \/ StoreEnvelope(id)
           \/ \E n \in OldFiles : DeleteOldEnvelope(n)
           \/ QueueStep \/ TimerFires \/ RequestStep \/ ConnectivityChanged
           \/ SpotlightDone \/ Tick \/ Rest \/ UNCHANGED vars
  <2>1. UNCHANGED flagVars
    BY <1>4 DEF SendEnvelope, StoreEnvelope, DeleteOldEnvelope, QueueStep, RunStoreBlock,
                RunStoreBlockFails, RunSendBlock, TimerFires, RequestStep, CompleteRequest,
                ConnectivityChanged, SpotlightDone, Tick, Rest, vars
  <2>2. QED
    BY <2>1, FlagTypeUnchanged DEF flagVars, FlagTypeOK
<1>5. QED
  BY <1>1, <1>2, <1>3, <1>4 DEF Next, CallerStep

(* Types of the requests.                                                  *)
LEMMA NetTypeNext ==
    ASSUME FileTypeOK, QueueTypeOK, ThreadTypeOK, NetTypeOK, [Next]_vars
    PROVE  NetTypeOK'
<1> USE DEF NetTypeOK
<1>1. CASE \E id \in EnvId : SendEnvelope(id) \/ StoreEnvelope(id)
  BY <1>1 DEF SendEnvelope, StoreEnvelope
<1>2. CASE RequestStep
  BY <1>2 DEF RequestStep, CompleteRequest
<1>3. CASE SpotlightDone
  BY <1>3 DEF SpotlightDone
<1>4. CASE Crash
  BY <1>4 DEF Crash, Launched
<1>5. ASSUME NEW t \in Thread, SenderStep(t) PROVE NetTypeOK'
  <2>1. ASSUME NEW env \in Envelope, NEW name \in Nat, Process(t, env, name)
        PROVE  requests' \subseteq Request
    <3>1. RemoveRateLimitedItems(env, rateLimits, now) \in Envelope
      BY RemoveType
    <3>2. QED
      BY <2>1, <3>1 DEF Process, AllItemsLimited, RequestNotBuilt, AddRequest, Request
  <2>2. CASE TakeNotStored(t)
    <3>1. Head(notStored) \in Envelope /\ NoPath \in Nat
      BY <2>2 DEF TakeNotStored, QueueTypeOK, NoPath
    <3>2. QED
      BY <2>1, <2>2, <3>1 DEF TakeNotStored
  <2>3. CASE LoadEnvelope(t)
    <3>1. disk[path[t]] \in Envelope /\ path[t] \in Nat
      BY <2>3 DEF LoadEnvelope, FileTypeOK, ThreadTypeOK
    <3>2. QED
      BY <2>1, <2>3, <3>1 DEF LoadEnvelope
  <2>4. CASE AlreadySending(t) \/ StartSending(t) \/ NothingNotStored(t) \/ ListEnvelopes(t)
               \/ FileIsGone(t) \/ NotDeserializable(t) \/ DeleteEnvelopeAndSendNext(t)
               \/ FinishedSending(t) \/ \E ok \in BOOLEAN : Evict(t, ok)
    BY <2>4 DEF AlreadySending, StartSending, NothingNotStored, ListEnvelopes, FileIsGone,
                NotDeserializable, DeleteEnvelopeAndSendNext, FinishedSending, Evict, netVars
  <2>5. QED
    BY <1>5, <2>2, <2>3, <2>4 DEF SenderStep
<1>6. CASE \/ \E f \in Flusher : \/ FlushRefused(f) \/ FlushBegin(f)
                                 \/ FlushTimesOut(f) \/ FlushDispatch(f)
           \/ \E n \in OldFiles : DeleteOldEnvelope(n)
           \/ QueueStep \/ TimerFires \/ ConnectivityChanged \/ Tick \/ Rest \/ UNCHANGED vars
  BY <1>6 DEF FlushRefused, FlushBegin, FlushTimesOut, FlushDispatch, DeleteOldEnvelope,
              QueueStep, RunStoreBlock, RunStoreBlockFails, RunSendBlock, TimerFires,
              ConnectivityChanged, Tick, Rest, vars, netVars
<1>7. QED
  BY <1>1, <1>2, <1>3, <1>4, <1>5, <1>6 DEF Next, CallerStep

-----------------------------------------------------------------------------
(* Rate limits: the dictionary holds, for every back-off the server asked  *)
(* for in this launch, a date that is not earlier.                         *)
LimitsKept == \A b \in told : b[2] <= rateLimits[b[1]]

(* After a response the limits cover what that response asks for.          *)
LEMMA UpdateCovers ==
    ASSUME LimitTypeOK, NEW response \in Response
    PROVE  /\ BackOffs(response) \subseteq LimitCategory \X Nat
           /\ \A b \in BackOffs(response) : b[2] <= Update(rateLimits, now, response)[b[1]]
<1>1. "all" \in LimitCategory
  BY DEF LimitCategory
<1>2. CASE response.hasHeader
  BY <1>2 DEF LimitTypeOK, BackOffs, Update, MaximumDate, Response
<1>3. CASE ~response.hasHeader /\ response.is429
  BY <1>1, <1>3, DefaultRetryAfterAssumption
  DEF LimitTypeOK, BackOffs, Update, UpdateRateLimit, MaximumDate, Response
<1>4. CASE ~response.hasHeader /\ ~response.is429
  BY <1>4 DEF BackOffs
<1>5. QED
  BY <1>2, <1>3, <1>4

(* The limits keep covering what the server asked for.                     *)
LEMMA LimitNext ==
    ASSUME LimitTypeOK, LimitsKept, [Next]_vars
    PROVE  LimitTypeOK' /\ LimitsKept'
<1>1. CASE RequestStep
  <2>1. PICK r \in requests, o \in Outcomes : CompleteRequest(r, o)
    BY <1>1 DEF RequestStep
  <2>2. o.response \in Response /\ now' = now
    BY <2>1, TransportAssumption DEF Outcome, CompleteRequest
  <2>3. CASE o.answered
    <3>1. /\ rateLimits' = Update(rateLimits, now, o.response)
          /\ told' = told \cup BackOffs(o.response)
      BY <2>1, <2>3 DEF CompleteRequest
    <3>2. /\ rateLimits' \in [LimitCategory -> Nat]
          /\ \A c \in LimitCategory : rateLimits[c] <= rateLimits'[c]
      BY <2>2, <3>1, UpdateKeeps DEF LimitTypeOK
    <3>3. /\ BackOffs(o.response) \subseteq LimitCategory \X Nat
          /\ \A b \in BackOffs(o.response) : b[2] <= rateLimits'[b[1]]
      BY <2>2, <3>1, UpdateCovers
    <3>4. LimitTypeOK'
      BY <2>2, <3>1, <3>2, <3>3 DEF LimitTypeOK
    <3>5. ASSUME NEW b \in told PROVE b[2] <= rateLimits'[b[1]]
      <4>1. b[1] \in LimitCategory /\ b[2] \in Nat
        BY DEF LimitTypeOK
      <4>2. b[2] <= rateLimits[b[1]] /\ rateLimits[b[1]] <= rateLimits'[b[1]]
        BY <3>2, <4>1 DEF LimitsKept
      <4>3. rateLimits[b[1]] \in Nat /\ rateLimits'[b[1]] \in Nat
        BY <3>2, <4>1 DEF LimitTypeOK
      <4>4. QED
        BY <4>1, <4>2, <4>3
    <3>6. QED
      BY <3>1, <3>3, <3>4, <3>5 DEF LimitsKept
  <2>4. CASE ~o.answered
    BY <2>1, <2>4 DEF CompleteRequest, limitVars, LimitTypeOK, LimitsKept
  <2>5. QED
    BY <2>3, <2>4
<1>2. CASE Tick
  BY <1>2 DEF Tick, limitVars, LimitTypeOK, LimitsKept
<1>3. CASE Crash
  BY <1>3 DEF Crash, Launched, LimitTypeOK, LimitsKept
<1>4. ASSUME NEW t \in Thread, SenderStep(t) PROVE UNCHANGED <<limitVars, now>>
  BY <1>4 DEF SenderStep, AlreadySending, StartSending, NothingNotStored, ListEnvelopes,
              TakeNotStored, LoadEnvelope, FileIsGone, NotDeserializable,
              DeleteEnvelopeAndSendNext, FinishedSending, Evict
<1>5. CASE \/ \E id \in EnvId : SendEnvelope(id) \/ StoreEnvelope(id)
           \/ \E f \in Flusher : \/ FlushRefused(f) \/ FlushBegin(f)
                                 \/ FlushTimesOut(f) \/ FlushDispatch(f)
           \/ \E n \in OldFiles : DeleteOldEnvelope(n)
           \/ QueueStep \/ TimerFires \/ ConnectivityChanged \/ SpotlightDone
           \/ Rest \/ UNCHANGED vars
  <2>1. UNCHANGED <<limitVars, now>>
    BY <1>5 DEF SendEnvelope, StoreEnvelope, FlushRefused, FlushBegin, FlushTimesOut,
                FlushDispatch, DeleteOldEnvelope, QueueStep, RunStoreBlock, RunStoreBlockFails,
                RunSendBlock, TimerFires, ConnectivityChanged, SpotlightDone, Rest, vars
  <2>2. QED
    BY <2>1 DEF limitVars, LimitTypeOK, LimitsKept
<1>6. QED
  BY <1>1, <1>2, <1>3, <1>4, <1>5 DEF Next, CallerStep, limitVars, LimitTypeOK, LimitsKept

-----------------------------------------------------------------------------
(* The client report counters.                                             *)
LEMMA LossTypeNext ==
    ASSUME FileTypeOK, QueueTypeOK, ThreadTypeOK, Monitor, NetTypeOK, LossTypeOK, [Next]_vars
    PROVE  LossTypeOK'
<1> USE DEF LossTypeOK
<1>1. ASSUME NEW env \in Envelope, NEW types, NEW reason
      PROVE  RecordLost(discardedEvents, env.id, types, reason) \in Counters
  BY RecordLostType DEF Envelope
<1>2. CASE \E id \in EnvId : SendEnvelope(id)
  <2>1. PICK id \in EnvId : SendEnvelope(id)
    BY <1>2
  <2>2. \A types : /\ EnvelopeItemsDropped(discardedEvents, id, types) \in Counters
                   /\ CountersAfterReport(EnvelopeItemsDropped(discardedEvents, id, types))
                        \in Counters
    BY RecordLostType, CountersAfterReportType DEF EnvelopeItemsDropped
  <2>3. QED
    BY <2>1, <2>2 DEF SendEnvelope
<1>3. CASE RequestStep
  <2>1. PICK r \in requests, o \in Outcomes : CompleteRequest(r, o)
    BY <1>3 DEF RequestStep
  <2>2. r.env \in Envelope
    BY <2>1 DEF NetTypeOK, Request
  <2>3. RecordLostEventFor(discardedEvents, r.env.id, r.env.types) \in Counters
    BY <1>1, <2>2 DEF RecordLostEventFor
  <2>4. QED
    BY <2>1, <2>3 DEF CompleteRequest
<1>4. CASE Crash
  BY <1>4, NoLossesType DEF Crash, Launched
<1>5. ASSUME NEW t \in Thread, SenderStep(t) PROVE LossTypeOK'
  <2>1. ASSUME NEW env \in Envelope, NEW name, Process(t, env, name)
        PROVE  discardedEvents' \in Counters
    <3>1. \A types : EnvelopeItemsDropped(discardedEvents, env.id, types) \in Counters
      BY <1>1 DEF EnvelopeItemsDropped
    <3>2. \A types, kept : RecordLostEventFor(EnvelopeItemsDropped(discardedEvents, env.id, types),
                                              env.id, kept) \in Counters
      BY <3>1, RecordLostType DEF RecordLostEventFor, Envelope
    <3>3. QED
      BY <2>1, <3>1, <3>2 DEF Process, AllItemsLimited, RequestNotBuilt, AddRequest
  <2>2. CASE TakeNotStored(t)
    <3>1. Head(notStored) \in Envelope
      BY <2>2 DEF TakeNotStored, QueueTypeOK
    <3>2. QED
      BY <2>1, <2>2, <3>1 DEF TakeNotStored
  <2>3. CASE LoadEnvelope(t)
    <3>1. disk[path[t]] \in Envelope
      BY <2>3 DEF LoadEnvelope, FileTypeOK
    <3>2. QED
      BY <2>1, <2>3, <3>1 DEF LoadEnvelope
  <2>4. CASE \E ok \in BOOLEAN : Evict(t, ok)
    <3>1. Oldest(disk) \in DOMAIN disk
      BY <2>4, EvictMonitor
    <3>2. disk[Oldest(disk)] \in Envelope
      BY <3>1 DEF FileTypeOK
    <3>3. \A types : EnvelopeItemsDeleted(discardedEvents, disk[Oldest(disk)].id, types)
                        \in Counters
      BY <1>1, <3>2 DEF EnvelopeItemsDeleted
    <3>4. QED
      BY <2>4, <3>3 DEF Evict
  <2>5. CASE AlreadySending(t) \/ StartSending(t) \/ NothingNotStored(t) \/ ListEnvelopes(t)
               \/ FileIsGone(t) \/ NotDeserializable(t) \/ DeleteEnvelopeAndSendNext(t)
               \/ FinishedSending(t)
    BY <2>5 DEF AlreadySending, StartSending, NothingNotStored, ListEnvelopes, FileIsGone,
                NotDeserializable, DeleteEnvelopeAndSendNext, FinishedSending, lossVars
  <2>6. QED
    BY <1>5, <2>2, <2>3, <2>4, <2>5 DEF SenderStep
<1>6. CASE \/ \E id \in EnvId : StoreEnvelope(id)
           \/ \E f \in Flusher : \/ FlushRefused(f) \/ FlushBegin(f)
                                 \/ FlushTimesOut(f) \/ FlushDispatch(f)
           \/ \E n \in OldFiles : DeleteOldEnvelope(n)
           \/ QueueStep \/ TimerFires \/ ConnectivityChanged \/ SpotlightDone
           \/ Tick \/ Rest \/ UNCHANGED vars
  BY <1>6 DEF StoreEnvelope, FlushRefused, FlushBegin, FlushTimesOut, FlushDispatch,
              DeleteOldEnvelope, QueueStep, RunStoreBlock, RunStoreBlockFails, RunSendBlock,
              TimerFires, ConnectivityChanged, SpotlightDone, Tick, Rest, vars, lossVars
<1>7. QED
  BY <1>2, <1>3, <1>4, <1>5, <1>6 DEF Next, CallerStep

(* Types of the history variables.                                         *)
LEMMA HistoryTypeNext ==
    ASSUME HistoryTypeOK, [Next]_vars
    PROVE  HistoryTypeOK'
<1> USE DEF HistoryTypeOK
<1>1. ASSUME NEW t \in Thread, SenderStep(t) PROVE HistoryTypeOK'
  BY <1>1 DEF SenderStep, AlreadySending, StartSending, NothingNotStored, ListEnvelopes,
              TakeNotStored, LoadEnvelope, FileIsGone, NotDeserializable,
              DeleteEnvelopeAndSendNext, FinishedSending, Evict, historyVars
<1>2. CASE \/ \E id \in EnvId : SendEnvelope(id) \/ StoreEnvelope(id)
           \/ RequestStep \/ ConnectivityChanged \/ Crash
  <2>1. CASE \E id \in EnvId : SendEnvelope(id) \/ StoreEnvelope(id)
    <3>1. PICK id \in EnvId : SendEnvelope(id) \/ StoreEnvelope(id)
      BY <2>1
    <3>2. accepted' = accepted \cup {id} /\ UNCHANGED <<wakeups, crashes>>
      BY <3>1 DEF SendEnvelope, StoreEnvelope
    <3>3. QED
      BY <3>2
  <2>2. CASE RequestStep
    BY <2>2 DEF RequestStep, CompleteRequest
  <2>3. CASE ConnectivityChanged \/ Crash
    BY <2>3 DEF ConnectivityChanged, Crash
  <2>4. QED
    BY <1>2, <2>1, <2>2, <2>3
<1>3. CASE \/ \E f \in Flusher : \/ FlushRefused(f) \/ FlushBegin(f)
                                 \/ FlushTimesOut(f) \/ FlushDispatch(f)
           \/ \E n \in OldFiles : DeleteOldEnvelope(n)
           \/ QueueStep \/ TimerFires \/ SpotlightDone \/ Tick \/ Rest \/ UNCHANGED vars
  BY <1>3 DEF FlushRefused, FlushBegin, FlushTimesOut, FlushDispatch, DeleteOldEnvelope,
              QueueStep, RunStoreBlock, RunStoreBlockFails, RunSendBlock, TimerFires,
              SpotlightDone, Tick, Rest, vars, historyVars
<1>4. QED
  BY <1>1, <1>2, <1>3 DEF Next, CallerStep

-----------------------------------------------------------------------------
(* The inductive invariant: types need the monitor (an evicting thread has *)
(* a file to evict) and the balance of the group (its count stays          *)
(* natural); the rate limits need the dates the server asked for.          *)
IndInv == TypeOK /\ Monitor /\ GroupBalanced /\ OneSender /\ LimitsKept

(* The initial states satisfy it.                                          *)
LEMMA InitInd == Init => IndInv
<1> SUFFICES ASSUME Init PROVE IndInv
  OBVIOUS
<1>1. /\ DOMAIN disk = 1 .. Len(Cached) /\ Len(Cached) \in Nat
      /\ disk \in [DOMAIN disk -> Envelope]
  BY TransportAssumption DEF Init
<1>2. FileTypeOK /\ Monitor
  <2>1. IsFiniteSet(1 .. Len(Cached))
    BY <1>1, FS_Interval
  <2>2. FileTypeOK
    BY <1>1, <2>1 DEF Init, FileTypeOK
  <2>3. Monitor
    BY <1>1 DEF Init, Monitor, Thread
  <2>4. QED
    BY <2>2, <2>3
<1>3. accepted \subseteq EnvId
  BY <1>1 DEF Init, Envelope
<1>4. HistoryTypeOK /\ LimitTypeOK /\ LimitsKept
  BY <1>3 DEF Init, HistoryTypeOK, LimitTypeOK, LimitsKept
<1>5. LossTypeOK
  BY NoLossesType DEF Init, LossTypeOK
<1>6. QueueTypeOK /\ ThreadTypeOK /\ NetTypeOK
  BY DEF Init, QueueTypeOK, ThreadTypeOK, NetTypeOK, Step, NoPath
<1>7. FlagTypeOK /\ GroupBalanced
  BY DEF Init, FlagTypeOK, FlushStep, GroupBalanced
<1>8. OneSender
  BY DEF Init, OneSender, Sending
<1>9. QED
  BY <1>2, <1>4, <1>5, <1>6, <1>7, <1>8 DEF IndInv, TypeOK

(* Every step keeps it.                                                    *)
LEMMA NextInd == IndInv /\ [Next]_vars => IndInv'
<1> SUFFICES ASSUME IndInv, [Next]_vars PROVE IndInv'
  OBVIOUS
<1> USE DEF IndInv, TypeOK
<1>1. FileTypeOK' /\ Monitor'
  BY MonitorNext
<1>2. ThreadTypeOK' /\ QueueTypeOK' /\ NetTypeOK'
  BY ThreadTypeNext, QueueTypeNext, NetTypeNext
<1>3. FlagTypeOK' /\ GroupBalanced'
  BY FlagTypeNext
<1>4. LimitTypeOK' /\ LimitsKept'
  BY LimitNext
<1>5. LossTypeOK' /\ HistoryTypeOK'
  BY LossTypeNext, HistoryTypeNext
<1>6. OneSender'
  BY OneSenderNext
<1>7. QED
  BY <1>1, <1>2, <1>3, <1>4, <1>5, <1>6

(* It holds in every reachable state.                                      *)
LEMMA SpecInd == Spec => []IndInv
BY InitInd, NextInd, PTL DEF Spec

-----------------------------------------------------------------------------
(* The number of files.                                                    *)
LEMMA AllowanceType == Allowance \in Nat /\ MaxEnvelopes <= Allowance /\ Len(Cached) <= Allowance
BY TransportAssumption DEF Allowance

(* A step that neither adds a file nor frees the monitor.                  *)
LEMMA CacheShrinks ==
    ASSUME FileTypeOK, FileTypeOK', HistoryTypeOK, CacheBounded,
           DOMAIN disk' \subseteq DOMAIN disk, UNCHANGED <<fmOwner, crashes>>
    PROVE  CacheBounded'
<1>1. Cardinality(DOMAIN disk') <= Cardinality(DOMAIN disk)
  BY FS_Subset DEF FileTypeOK
<1>2. Cardinality(DOMAIN disk) \in Nat /\ Cardinality(DOMAIN disk') \in Nat
  BY FS_CardinalityType DEF FileTypeOK
<1>3. Allowance' = Allowance /\ crashes \in Nat
  BY DEF Allowance, HistoryTypeOK
<1>4. QED
  BY <1>1, <1>2, <1>3, AllowanceType DEF CacheBounded

(* A write adds one file.                                                  *)
LEMMA CacheWrite ==
    ASSUME FileTypeOK, FileTypeOK', Monitor, HistoryTypeOK, CacheBounded, NEW t \in Thread,
           NEW env \in Envelope, NEW next, Write(t, env, next), UNCHANGED crashes
    PROVE  CacheBounded'
<1>1. Cardinality(DOMAIN disk') = Cardinality(DOMAIN disk) + 1
  <2>1. disk' = With(disk, fileCounter, env)
    BY DEF Write
  <2>2. fileCounter \in Nat /\ fileCounter \notin DOMAIN disk
    BY DEF FileTypeOK, Monitor
  <2>3. Cardinality(DOMAIN With(disk, fileCounter, env)) = Cardinality(DOMAIN disk) + 1
    BY <2>2, WithType DEF FileTypeOK
  <2>4. QED
    BY <2>1, <2>3
<1>2. Cardinality(DOMAIN disk) \in Nat
  BY FS_CardinalityType DEF FileTypeOK
<1>3. Allowance' = Allowance /\ crashes \in Nat /\ MaxEnvelopes \in Nat
  BY TransportAssumption DEF Allowance, HistoryTypeOK
<1>4. "none" \notin Thread
  BY DEF Thread
<1>5. fmOwner = "none" /\ crashes' = crashes
  BY DEF Write
<1>6. Cardinality(DOMAIN disk) <= Allowance + crashes
  BY <1>5 DEF CacheBounded
<1>7. fmOwner' = "none" => Cardinality(DOMAIN disk) + 1 <= MaxEnvelopes
  BY <1>2, <1>3, <1>4 DEF Write, OverLimit
<1>8. Cardinality(DOMAIN disk') <= Allowance' + 1 + crashes'
  BY <1>1, <1>2, <1>3, <1>5, <1>6, AllowanceType
<1>9. fmOwner' = "none" => Cardinality(DOMAIN disk') <= Allowance' + crashes'
  BY <1>1, <1>2, <1>3, <1>5, <1>7, AllowanceType
<1>10. QED
  BY <1>8, <1>9 DEF CacheBounded

(* An eviction removes one.                                                *)
LEMMA CacheEvict ==
    ASSUME FileTypeOK, ThreadTypeOK, Monitor, HistoryTypeOK, CacheBounded, NEW t \in Thread,
           NEW ok \in BOOLEAN, Evict(t, ok)
    PROVE  CacheBounded'
<1>1. Cardinality(DOMAIN disk') = Cardinality(DOMAIN disk) - 1
  BY EvictMonitor
<1>2. Cardinality(DOMAIN disk) \in Nat
  BY FS_CardinalityType DEF FileTypeOK
<1>3. Allowance' = Allowance /\ crashes \in Nat /\ MaxEnvelopes \in Nat /\ crashes' = crashes
  BY TransportAssumption DEF Allowance, HistoryTypeOK, Evict, historyVars
<1>4. fmOwner # "none"
  BY DEF Monitor, Evict, Thread
<1>5. fmOwner' = "none" => Cardinality(DOMAIN disk) - 1 <= MaxEnvelopes
  BY <1>2, <1>3, <1>4 DEF Evict, OverLimit
<1>6. QED
  BY <1>1, <1>2, <1>3, <1>5, AllowanceType DEF CacheBounded

(* Every step keeps the bound.                                             *)
LEMMA CacheNext ==
    ASSUME IndInv, IndInv', CacheBounded, [Next]_vars
    PROVE  CacheBounded'
<1> USE DEF IndInv, TypeOK
<1>1. CASE \E id \in EnvId : StoreEnvelope(id)
  <2>1. PICK id \in EnvId : StoreEnvelope(id)
    BY <1>1
  <2>2. CASE Write("app", Fresh(id), AfterStore("app"))
    BY <2>1, <2>2, FreshType, CacheWrite DEF StoreEnvelope, Thread
  <2>3. CASE UNCHANGED <<fileVars, pc>>
    BY <2>1, <2>3, CacheShrinks DEF StoreEnvelope, fileVars
  <2>4. QED
    BY <2>1, <2>2, <2>3 DEF StoreEnvelope
<1>2. CASE RunStoreBlock
  <2>1. Head(queue).env \in Envelope
    BY <1>2 DEF RunStoreBlock, QueueTypeOK, Block, SendBlock
  <2>2. QED
    BY <1>2, <2>1, CacheWrite DEF RunStoreBlock, Thread, historyVars
<1>3. CASE \E t \in Thread : SenderStep(t)
  <2>1. PICK t \in Thread : SenderStep(t)
    BY <1>3
  <2>2. CASE \E ok \in BOOLEAN : Evict(t, ok)
    BY <2>2, CacheEvict
  <2>3. CASE DeleteEnvelopeAndSendNext(t)
    <3>1. DOMAIN disk' \subseteq DOMAIN disk
      BY <2>3 DEF DeleteEnvelopeAndSendNext, DiskAfterDelete, Without
    <3>2. QED
      BY <2>3, <3>1, CacheShrinks DEF DeleteEnvelopeAndSendNext, historyVars
  <2>4. CASE AlreadySending(t) \/ StartSending(t) \/ NothingNotStored(t) \/ ListEnvelopes(t)
               \/ TakeNotStored(t) \/ LoadEnvelope(t) \/ FileIsGone(t) \/ NotDeserializable(t)
               \/ FinishedSending(t)
    BY <2>4, CacheShrinks
    DEF AlreadySending, StartSending, NothingNotStored, ListEnvelopes, TakeNotStored,
        LoadEnvelope, FileIsGone, NotDeserializable, FinishedSending, fileVars, historyVars
  <2>5. QED
    BY <2>1, <2>2, <2>3, <2>4 DEF SenderStep
<1>4. CASE \E n \in OldFiles : DeleteOldEnvelope(n)
  <2>1. DOMAIN disk' \subseteq DOMAIN disk
    BY <1>4 DEF DeleteOldEnvelope, Without
  <2>2. QED
    BY <1>4, <2>1, CacheShrinks DEF DeleteOldEnvelope, historyVars
<1>5. CASE Crash
  <2>1. disk' = disk /\ crashes' = crashes + 1 /\ crashes \in Nat
    BY <1>5 DEF Crash, HistoryTypeOK
  <2>2. Cardinality(DOMAIN disk) \in Nat /\ Allowance' = Allowance
    BY FS_CardinalityType DEF FileTypeOK, Allowance
  <2>3. QED
    BY <2>1, <2>2, AllowanceType DEF CacheBounded
<1>6. CASE \/ \E id \in EnvId : SendEnvelope(id)
           \/ \E f \in Flusher : \/ FlushRefused(f) \/ FlushBegin(f)
                                 \/ FlushTimesOut(f) \/ FlushDispatch(f)
           \/ RunStoreBlockFails \/ RunSendBlock \/ RequestStep \/ ConnectivityChanged
           \/ TimerFires \/ SpotlightDone \/ Tick \/ Rest \/ UNCHANGED vars
  <2>1. UNCHANGED <<disk, fmOwner, crashes>>
    BY <1>6 DEF SendEnvelope, FlushRefused, FlushBegin, FlushTimesOut, FlushDispatch,
                RunStoreBlockFails, RunSendBlock, RequestStep, CompleteRequest,
                ConnectivityChanged, TimerFires, SpotlightDone, Tick, Rest, vars, fileVars,
                historyVars
  <2>2. QED
    BY <2>1, CacheShrinks
<1>7. QED
  BY <1>1, <1>2, <1>3, <1>4, <1>5, <1>6 DEF Next, CallerStep, QueueStep

-----------------------------------------------------------------------------
(* Lost items.  An item is settled when the server answered for it, when   *)
(* it was counted, or when it was given up by design.                      *)
Has(env, id, ty) == env.id = id /\ ty \in env.types

Settled(id, ty) ==
    \/ <<id, ty>> \in answered \cup excused
    \/ \E reason \in Reason : <<id, ty, reason>> \in recorded

(* An item that is not settled is in a file, ...                           *)
OnDisk(id, ty) == \E n \in DOMAIN disk : Has(disk[n], id, ty)

(* ... in an envelope that could not be stored, in a block that is to      *)
(* store it, or in a request.                                              *)
Waiting(id, ty) == \E i \in 1 .. Len(notStored) : Has(notStored[i], id, ty)
Queued(id, ty) == \E i \in 1 .. Len(queue) : queue[i].op = "store" /\ Has(queue[i].env, id, ty)
Sent(id, ty) == \E r \in requests : Has(r.env, id, ty)

Held(id, ty) == OnDisk(id, ty) \/ Waiting(id, ty) \/ Queued(id, ty) \/ Sent(id, ty)

(* A file name is never used again: the threads and the requests only      *)
(* remember names that were given out.                                     *)
PathsAreOld ==
    /\ fileCounter > 0 /\ NoPath \notin DOMAIN disk
    /\ \A t \in Thread : path[t] < fileCounter
    /\ \A r \in requests : r.path < fileCounter

(* What a thread is about to delete is settled.                            *)
DeletedIsSettled ==
    \A t \in Thread : pc[t] = "delete" /\ path[t] \in DOMAIN disk =>
        \A ty \in disk[path[t]].types \ {"client_report"} : Settled(disk[path[t]].id, ty)

(* A request carries what is not settled of the file it was read from.     *)
RequestCarries ==
    \A r \in requests : r.path \in DOMAIN disk =>
        /\ disk[r.path].id = r.env.id
        /\ \A ty \in disk[r.path].types \ {"client_report"} :
              ty \in r.env.types \/ Settled(r.env.id, ty)

(* NoSilentLoss, with the items that are on their way told apart.          *)
NothingLost ==
    \A id \in accepted : \A ty \in Content[id].types : Held(id, ty) \/ Settled(id, ty)

LossInv == NothingLost /\ DeletedIsSettled /\ RequestCarries

(* The two ways to say that an item is on its way, or in memory.           *)
LEMMA PendingIsHeld ==
    \A id, ty : /\ <<id, ty>> \in Pending <=> Held(id, ty)
                /\ <<id, ty>> \in ItemsOnDisk <=> OnDisk(id, ty)
<1> SUFFICES ASSUME NEW id, NEW ty
             PROVE  /\ <<id, ty>> \in Pending <=> Held(id, ty)
                    /\ <<id, ty>> \in ItemsOnDisk <=> OnDisk(id, ty)
  OBVIOUS
<1>1. \A env : <<id, ty>> \in ItemsOf(env) <=> Has(env, id, ty)
  BY DEF ItemsOf, Has
<1>2. <<id, ty>> \in ItemsOnDisk <=> OnDisk(id, ty)
  BY <1>1 DEF ItemsOnDisk, OnDisk
<1>3. <<id, ty>> \in UNION {ItemsOf(env) : env \in EnvelopesInMemory}
        <=> \E env \in EnvelopesInMemory : Has(env, id, ty)
  BY <1>1
<1>4. (\E env \in EnvelopesInMemory : Has(env, id, ty))
        <=> Waiting(id, ty) \/ Queued(id, ty) \/ Sent(id, ty)
  BY DEF EnvelopesInMemory, Waiting, Queued, Sent
<1>5. QED
  BY <1>2, <1>3, <1>4 DEF Pending, Held

(* An item outside the files that is on its way is in memory.              *)
LEMMA MemoryIsVolatile ==
    \A id, ty : Held(id, ty) => OnDisk(id, ty) \/ <<id, ty>> \in Volatile
BY PendingIsHeld DEF Volatile

(* The history only grows.                                                 *)
HistoryGrows == answered \subseteq answered' /\ recorded \subseteq recorded' /\ excused \subseteq excused'

(* What is settled stays settled.                                          *)
LEMMA SettledStays ==
    ASSUME HistoryGrows
    PROVE  \A id, ty : Settled(id, ty) => Settled(id, ty)'
BY DEF HistoryGrows, Settled

(* Every step lets the history grow.                                       *)
LEMMA NextGrows ==
    ASSUME [Next]_vars
    PROVE  HistoryGrows
<1> USE DEF HistoryGrows
<1>1. CASE RequestStep
  BY <1>1 DEF RequestStep, CompleteRequest
<1>2. ASSUME NEW t \in Thread, SenderStep(t) PROVE HistoryGrows
  <2>1. CASE TakeNotStored(t) \/ LoadEnvelope(t)
    BY <2>1 DEF TakeNotStored, LoadEnvelope, Process, AllItemsLimited, RequestNotBuilt,
                AddRequest, historyVars
  <2>2. CASE NotDeserializable(t) \/ \E ok \in BOOLEAN : Evict(t, ok)
    BY <2>2 DEF NotDeserializable, Evict, historyVars
  <2>3. CASE AlreadySending(t) \/ StartSending(t) \/ NothingNotStored(t) \/ ListEnvelopes(t)
               \/ FileIsGone(t) \/ DeleteEnvelopeAndSendNext(t) \/ FinishedSending(t)
    BY <2>3 DEF AlreadySending, StartSending, NothingNotStored, ListEnvelopes, FileIsGone,
                DeleteEnvelopeAndSendNext, FinishedSending, historyVars, lossVars
  <2>4. QED
    BY <1>2, <2>1, <2>2, <2>3 DEF SenderStep
<1>3. CASE \E id \in EnvId : SendEnvelope(id) \/ StoreEnvelope(id)
  BY <1>3 DEF SendEnvelope, StoreEnvelope
<1>4. CASE Crash \/ \E n \in OldFiles : DeleteOldEnvelope(n)
  BY <1>4 DEF Crash, DeleteOldEnvelope, historyVars
<1>5. CASE \/ \E f \in Flusher : \/ FlushRefused(f) \/ FlushBegin(f)
                                 \/ FlushTimesOut(f) \/ FlushDispatch(f)
           \/ QueueStep \/ TimerFires \/ ConnectivityChanged \/ SpotlightDone \/ Tick \/ Rest
           \/ UNCHANGED vars
  BY <1>5 DEF FlushRefused, FlushBegin, FlushTimesOut, FlushDispatch, QueueStep, RunStoreBlock,
              RunStoreBlockFails, RunSendBlock, TimerFires, ConnectivityChanged, SpotlightDone,
              Tick, Rest, vars, historyVars, lossVars
<1>6. QED
  BY <1>1, <1>2, <1>3, <1>4, <1>5 DEF Next, CallerStep

(* Every step keeps the names old.                                         *)
LEMMA PathsNext ==
    ASSUME IndInv, PathsAreOld, [Next]_vars
    PROVE  PathsAreOld'
<1> USE DEF IndInv, TypeOK, PathsAreOld
<1>1. fileCounter \in Nat /\ NoPath < fileCounter /\ \A t \in Thread : path[t] \in Nat
  BY DEF FileTypeOK, ThreadTypeOK, NoPath
<1>2. ASSUME NEW t \in Thread, NEW env \in Envelope, NEW next, Write(t, env, next),
             UNCHANGED <<path, requests>>
      PROVE  PathsAreOld'
  <2>1. fileCounter' = fileCounter + 1 /\ DOMAIN disk' = DOMAIN disk \cup {fileCounter}
    BY <1>2 DEF Write, With
  <2>2. \A r \in requests : r.path \in Nat
    BY DEF NetTypeOK, Request
  <2>3. QED
    BY <1>1, <1>2, <2>1, <2>2 DEF NoPath
<1>3. CASE \E id \in EnvId : StoreEnvelope(id)
  <2>1. PICK id \in EnvId : StoreEnvelope(id)
    BY <1>3
  <2>2. UNCHANGED <<path, requests>>
    BY <2>1 DEF StoreEnvelope
  <2>3. CASE Write("app", Fresh(id), AfterStore("app"))
    BY <1>2, <2>2, <2>3, FreshType DEF Thread
  <2>4. CASE UNCHANGED fileVars
    BY <2>2, <2>4 DEF fileVars
  <2>5. QED
    BY <2>1, <2>3, <2>4 DEF StoreEnvelope
<1>4. CASE RunStoreBlock
  <2>1. Head(queue).env \in Envelope
    BY <1>4 DEF RunStoreBlock, QueueTypeOK, Block, SendBlock
  <2>2. QED
    BY <1>2, <1>4, <2>1 DEF RunStoreBlock, Thread, netVars
<1>5. ASSUME NEW t \in Thread, NEW step, NEW name, name < fileCounter, Goto(t, step, name)
      PROVE  \A u \in Thread : path'[u] < fileCounter
  BY <1>5 DEF Goto, ThreadTypeOK
<1>6. CASE RunStoreBlockFails \/ RunSendBlock
  BY <1>1, <1>5, <1>6 DEF RunStoreBlockFails, RunSendBlock, Thread, fileVars, netVars
<1>7. CASE ConnectivityChanged
  BY <1>1, <1>5, <1>7 DEF ConnectivityChanged, Thread, fileVars, netVars
<1>8. CASE RequestStep
  <2>1. PICK r \in requests, o \in Outcomes : CompleteRequest(r, o)
    BY <1>8 DEF RequestStep
  <2>2. Goto("session", "delete", r.path) \/ Goto("session", "finish", NoPath)
    BY <2>1 DEF CompleteRequest
  <2>3. \A u \in Thread : path'[u] < fileCounter
    BY <1>1, <1>5, <2>2 DEF Thread
  <2>4. requests' \subseteq requests /\ UNCHANGED <<disk, fileCounter>>
    BY <2>1 DEF CompleteRequest, fileVars
  <2>5. QED
    BY <2>3, <2>4
<1>9. CASE Crash
  BY <1>1, <1>9 DEF Crash, Launched
<1>10. CASE \E n \in OldFiles : DeleteOldEnvelope(n)
  BY <1>10 DEF DeleteOldEnvelope, Without, threadVars, netVars
<1>11. ASSUME NEW t \in Thread, SenderStep(t) PROVE PathsAreOld'
  <2>1. ASSUME NEW env, NEW name, name < fileCounter, Process(t, env, name), UNCHANGED fileVars
        PROVE  PathsAreOld'
    <3>1. \A u \in Thread : path'[u] < fileCounter
      BY <1>1, <1>5, <2>1 DEF Process, AllItemsLimited, RequestNotBuilt, AddRequest
    <3>2. \A r \in requests' \ requests : r.path = name
      BY <2>1 DEF Process, AllItemsLimited, RequestNotBuilt, AddRequest
    <3>3. QED
      BY <2>1, <3>1, <3>2 DEF fileVars
  <2>2. CASE TakeNotStored(t)
    BY <1>1, <2>1, <2>2 DEF TakeNotStored
  <2>3. CASE LoadEnvelope(t)
    BY <2>1, <2>3 DEF LoadEnvelope
  <2>4. CASE ListEnvelopes(t)
    <3>1. DOMAIN disk # {} => Oldest(disk) < fileCounter
      BY OldestExists DEF FileTypeOK, Monitor
    <3>2. QED
      BY <1>1, <1>5, <2>4, <3>1 DEF ListEnvelopes, fileVars, netVars
  <2>5. CASE \E ok \in BOOLEAN : Evict(t, ok)
    <3>1. PICK ok \in BOOLEAN : Evict(t, ok)
      BY <2>5
    <3>2. DOMAIN disk' \subseteq DOMAIN disk
      BY <3>1, MigrateType DEF Evict, Without, FileTypeOK
    <3>3. QED
      BY <3>1, <3>2 DEF Evict, netVars
  <2>6. CASE DeleteEnvelopeAndSendNext(t)
    BY <1>1, <1>5, <2>6 DEF DeleteEnvelopeAndSendNext, DiskAfterDelete, Without, netVars
  <2>7. CASE AlreadySending(t) \/ StartSending(t) \/ NothingNotStored(t) \/ FileIsGone(t)
               \/ NotDeserializable(t) \/ FinishedSending(t)
    BY <1>1, <1>5, <2>7
    DEF AlreadySending, StartSending, NothingNotStored, FileIsGone, NotDeserializable,
        FinishedSending, fileVars, netVars
  <2>8. QED
    BY <1>11, <2>2, <2>3, <2>4, <2>5, <2>6, <2>7 DEF SenderStep
<1>12. CASE \/ \E id \in EnvId : SendEnvelope(id)
            \/ \E f \in Flusher : \/ FlushRefused(f) \/ FlushBegin(f)
                                  \/ FlushTimesOut(f) \/ FlushDispatch(f)
            \/ TimerFires \/ SpotlightDone \/ Tick \/ Rest \/ UNCHANGED vars
  BY <1>12 DEF SendEnvelope, FlushRefused, FlushBegin, FlushTimesOut, FlushDispatch, TimerFires,
               SpotlightDone, Tick, Rest, vars, fileVars, threadVars, netVars
<1>13. QED
  BY <1>3, <1>4, <1>6, <1>7, <1>8, <1>9, <1>10, <1>11, <1>12 DEF Next, CallerStep, QueueStep

-----------------------------------------------------------------------------
(* What was counted is settled.                                            *)
LEMMA CountedIsSettled ==
    ASSUME SendClientReports, NEW id, NEW types, NEW reason \in Reason,
           Counted(id, types, reason) \subseteq recorded', NEW ty \in types
    PROVE  Settled(id, ty)'
<1>1. <<id, ty, reason>> \in Counted(id, types, reason)
  BY DEF Counted
<1>2. <<id, ty, reason>> \in recorded'
  BY <1>1
<1>3. QED
  BY <1>2 DEF Settled

(* From the rate limits to the request, an item is kept or counted.        *)
LEMMA ProcessSettles ==
    ASSUME SendClientReports, NEW t \in Thread, ThreadTypeOK, NEW env \in Envelope, NEW name,
           Process(t, env, name)
    PROVE  /\ \A ty \in env.types \ {"client_report"} :
                  Settled(env.id, ty)' \/ \E r \in requests' : Has(r.env, env.id, ty)
           /\ pc'[t] = "delete" =>
                  /\ path'[t] = name
                  /\ \A ty \in env.types \ {"client_report"} : Settled(env.id, ty)'
           /\ \A r \in requests' \ requests :
                  /\ r.path = name /\ r.env.id = env.id
                  /\ \A ty \in env.types \ {"client_report"} :
                        ty \in r.env.types \/ Settled(env.id, ty)'
           /\ requests \subseteq requests'
           /\ \A u \in Thread \ {t} : pc'[u] = pc[u] /\ path'[u] = path[u]
<1> DEFINE kept == RemoveRateLimitedItems(env, rateLimits, now)
<1>1. kept.id = env.id /\ kept.types \subseteq env.types
  BY DEF RemoveRateLimitedItems, Envelope
<1> HIDE DEF kept
<1>2. "ratelimit_backoff" \in Reason /\ "network_error" \in Reason
  BY DEF Reason
<1>3. ASSUME NEW step, Goto(t, step, name)
      PROVE  /\ pc'[t] = step /\ path'[t] = name
             /\ \A u \in Thread \ {t} : pc'[u] = pc[u] /\ path'[u] = path[u]
  BY <1>3 DEF Goto, ThreadTypeOK
<1>4. CASE AllItemsLimited(t, env, name)
  <2>1. /\ Goto(t, "delete", name) /\ requests' = requests
        /\ Counted(env.id, env.types, "ratelimit_backoff") \subseteq recorded'
    BY <1>4 DEF AllItemsLimited
  <2>2. \A ty \in env.types : Settled(env.id, ty)'
    BY <1>2, <2>1, CountedIsSettled
  <2>3. QED
    BY <1>3, <2>1, <2>2
<1>5. CASE RequestNotBuilt(t, env, name)
  <2>1. /\ Goto(t, "delete", name) /\ requests' = requests
        /\ Counted(env.id, env.types \ kept.types, "ratelimit_backoff") \subseteq recorded'
        /\ Counted(env.id, NetworkLosses(kept.types), "network_error") \subseteq recorded'
    BY <1>5 DEF RequestNotBuilt, kept
  <2>2. \A ty \in env.types \ kept.types : Settled(env.id, ty)'
    BY <1>2, <2>1, CountedIsSettled
  <2>3. \A ty \in NetworkLosses(kept.types) : Settled(env.id, ty)'
    BY <1>2, <2>1, CountedIsSettled
  <2>4. \A ty \in env.types \ {"client_report"} : Settled(env.id, ty)'
    BY <2>2, <2>3 DEF NetworkLosses
  <2>5. QED
    BY <1>3, <2>1, <2>4
<1>6. CASE AddRequest(t, env, name)
  <2>1. /\ Goto(t, "idle", NoPath) /\ requests' = requests \cup {[env |-> kept, path |-> name]}
        /\ Counted(env.id, env.types \ kept.types, "ratelimit_backoff") \subseteq recorded'
    BY <1>6 DEF AddRequest, kept
  <2>2. \A ty \in env.types \ kept.types : Settled(env.id, ty)'
    BY <1>2, <2>1, CountedIsSettled
  <2>3. \A ty \in kept.types : \E r \in requests' : Has(r.env, env.id, ty)
    <3> DEFINE new == [env |-> kept, path |-> name]
    <3>1. new.env = kept
      OBVIOUS
    <3>2. new \in requests'
      BY <2>1
    <3> HIDE DEF new
    <3>3. \A ty \in kept.types : Has(new.env, env.id, ty)
      BY <1>1, <3>1 DEF Has
    <3>4. QED
      BY <3>2, <3>3
  <2>4. \A r \in requests' \ requests : r.env = kept /\ r.path = name
    BY <2>1
  <2>5. pc'[t] # "delete" /\ \A u \in Thread \ {t} : pc'[u] = pc[u] /\ path'[u] = path[u]
    BY <2>1 DEF Goto, ThreadTypeOK
  <2>6. QED
    BY <1>1, <2>1, <2>2, <2>3, <2>4, <2>5
<1>7. QED
  BY <1>4, <1>5, <1>6 DEF Process

(* The items of an envelope the client hands over.                         *)
LEMMA ContentTypes ==
    \A id \in EnvId : /\ Content[id].types \subseteq ItemType \ {"client_report"}
                      /\ Fresh(id).id = id /\ Fresh(id).types = Content[id].types
BY ContentAssumption DEF Contents, Fresh

(* NothingLost, for a step that takes over no envelope.                    *)
LEMMA NothingLostStep ==
    ASSUME HistoryTypeOK, NothingLost, HistoryGrows, accepted' = accepted,
           \A id \in EnvId : \A ty \in ItemType \ {"client_report"} :
              Held(id, ty) => Held(id, ty)' \/ Settled(id, ty)'
    PROVE  NothingLost'
<1> SUFFICES ASSUME NEW id \in accepted, NEW ty \in Content[id].types
             PROVE  Held(id, ty)' \/ Settled(id, ty)'
  BY DEF NothingLost
<1>1. id \in EnvId /\ ty \in ItemType \ {"client_report"}
  BY ContentTypes DEF HistoryTypeOK
<1>2. Held(id, ty) \/ Settled(id, ty)
  BY DEF NothingLost
<1>3. QED
  BY <1>1, <1>2, SettledStays

(* The files that existed keep their name, envelope and items.             *)
FilesKept ==
    \A n \in DOMAIN disk' : n < fileCounter =>
        n \in DOMAIN disk /\ disk'[n].id = disk[n].id /\ disk'[n].types = disk[n].types

(* The two other parts, for a step that reads no envelope.                 *)
LEMMA KeptStep ==
    ASSUME PathsAreOld, HistoryGrows, FilesKept, DeletedIsSettled, RequestCarries,
           requests' \subseteq requests,
           \A t \in Thread : pc'[t] = "delete" => pc[t] = "delete" /\ path'[t] = path[t]
    PROVE  DeletedIsSettled' /\ RequestCarries'
<1>1. DeletedIsSettled'
  <2> SUFFICES ASSUME NEW t \in Thread, NEW id, NEW ty, pc'[t] = "delete",
                      path'[t] \in DOMAIN disk', id = disk'[path'[t]].id,
                      ty \in disk'[path'[t]].types \ {"client_report"}
               PROVE  Settled(id, ty)'
    BY DEF DeletedIsSettled
  <2>1. pc[t] = "delete" /\ path'[t] = path[t] /\ path[t] < fileCounter
    BY DEF PathsAreOld
  <2>2. path[t] \in DOMAIN disk /\ id = disk[path[t]].id /\ ty \in disk[path[t]].types
    BY <2>1 DEF FilesKept
  <2>3. Settled(id, ty)
    BY <2>1, <2>2 DEF DeletedIsSettled
  <2>4. QED
    BY <2>3, SettledStays
<1>2. RequestCarries'
  <2> SUFFICES ASSUME NEW r \in requests', r.path \in DOMAIN disk'
               PROVE  /\ disk'[r.path].id = r.env.id
                      /\ \A ty \in disk'[r.path].types \ {"client_report"} :
                            ty \in r.env.types \/ Settled(r.env.id, ty)'
    BY DEF RequestCarries
  <2>1. r \in requests /\ r.path < fileCounter
    BY DEF PathsAreOld
  <2>2. /\ r.path \in DOMAIN disk /\ disk'[r.path].id = disk[r.path].id
        /\ disk'[r.path].types = disk[r.path].types
    BY <2>1 DEF FilesKept
  <2>3. QED
    BY <2>1, <2>2, SettledStays DEF RequestCarries
<1>3. QED
  BY <1>1, <1>2

(* The elements of a queue, when its head is taken ...                     *)
LEMMA TailHolds ==
    ASSUME NEW S, NEW s \in Seq(S), s # <<>>, NEW i \in 1 .. Len(s), s[i] # Head(s)
    PROVE  \E j \in 1 .. Len(Tail(s)) : Tail(s)[j] = s[i]
<1>1. i # 1 /\ i - 1 \in 1 .. Len(Tail(s))
  OBVIOUS
<1>2. Tail(s)[i - 1] = s[i]
  BY <1>1
<1>3. QED
  BY <1>1, <1>2

(* ... and when one is added.                                              *)
LEMMA AppendHolds ==
    ASSUME NEW S, NEW s \in Seq(S), NEW e \in S
    PROVE  /\ \A i \in 1 .. Len(s) : i \in 1 .. Len(Append(s, e)) /\ Append(s, e)[i] = s[i]
           /\ \E i \in 1 .. Len(Append(s, e)) : Append(s, e)[i] = e
<1>1. Len(Append(s, e)) = Len(s) + 1 /\ Append(s, e)[Len(s) + 1] = e
  OBVIOUS
<1>2. QED
  BY <1>1

(* The four ways to be on its way, carried over a step.                    *)
LEMMA QueueTail ==
    ASSUME QueueTypeOK, queue # <<>>, queue' = Tail(queue), NEW id, NEW ty, Queued(id, ty)
    PROVE  Queued(id, ty)' \/ (Head(queue).op = "store" /\ Has(Head(queue).env, id, ty))
<1>1. PICK i \in 1 .. Len(queue) : queue[i].op = "store" /\ Has(queue[i].env, id, ty)
  BY DEF Queued
<1>2. CASE queue[i] = Head(queue)
  BY <1>1, <1>2
<1>3. CASE queue[i] # Head(queue)
  <2>1. PICK j \in 1 .. Len(Tail(queue)) : Tail(queue)[j] = queue[i]
    BY <1>3, TailHolds DEF QueueTypeOK
  <2>2. /\ j \in 1 .. Len(queue')
        /\ queue'[j].op = "store" /\ Has(queue'[j].env, id, ty)
    BY <1>1, <2>1
  <2>3. \E k \in 1 .. Len(queue') : queue'[k].op = "store" /\ Has(queue'[k].env, id, ty)
    BY <2>2
  <2>4. Queued(id, ty)'
    BY <2>3 DEF Queued
  <2>5. QED
    BY <2>4
<1>4. QED
  BY <1>2, <1>3

(* A block added to the queue.                                             *)
LEMMA QueueAppend ==
    ASSUME QueueTypeOK, NEW b \in Block, queue' = Append(queue, b), NEW id, NEW ty
    PROVE  /\ Queued(id, ty) => Queued(id, ty)'
           /\ b.op = "store" /\ Has(b.env, id, ty) => Queued(id, ty)'
<1>1. /\ \A i \in 1 .. Len(queue) : i \in 1 .. Len(queue') /\ queue'[i] = queue[i]
      /\ \E i \in 1 .. Len(queue') : queue'[i] = b
  BY AppendHolds DEF QueueTypeOK
<1>2. ASSUME Queued(id, ty) PROVE Queued(id, ty)'
  BY <1>1, <1>2 DEF Queued
<1>3. ASSUME b.op = "store" /\ Has(b.env, id, ty) PROVE Queued(id, ty)'
  BY <1>1, <1>3 DEF Queued
<1>4. QED
  BY <1>2, <1>3

(* The head taken from the envelopes that could not be stored.             *)
LEMMA WaitingTail ==
    ASSUME QueueTypeOK, notStored # <<>>, notStored' = Tail(notStored), NEW id, NEW ty,
           Waiting(id, ty)
    PROVE  Waiting(id, ty)' \/ Has(Head(notStored), id, ty)
<1>1. PICK i \in 1 .. Len(notStored) : Has(notStored[i], id, ty)
  BY DEF Waiting
<1>2. CASE notStored[i] = Head(notStored)
  BY <1>1, <1>2
<1>3. CASE notStored[i] # Head(notStored)
  <2>1. PICK j \in 1 .. Len(Tail(notStored)) : Tail(notStored)[j] = notStored[i]
    BY <1>3, TailHolds DEF QueueTypeOK
  <2>2. QED
    BY <1>1, <2>1 DEF Waiting
<1>4. QED
  BY <1>2, <1>3

(* An envelope added to them.                                              *)
LEMMA WaitingAppend ==
    ASSUME QueueTypeOK, NEW env \in Envelope, notStored' = Append(notStored, env),
           NEW id, NEW ty
    PROVE  Waiting(id, ty) \/ Has(env, id, ty) => Waiting(id, ty)'
<1>1. /\ \A i \in 1 .. Len(notStored) : i \in 1 .. Len(notStored') /\ notStored'[i] = notStored[i]
      /\ \E i \in 1 .. Len(notStored') : notStored'[i] = env
  BY AppendHolds DEF QueueTypeOK
<1>2. QED
  BY <1>1 DEF Waiting

(* A file written.                                                         *)
LEMMA WriteHolds ==
    ASSUME FileTypeOK, ThreadTypeOK, Monitor, NEW t, NEW env \in Envelope, NEW next,
           Write(t, env, next)
    PROVE  /\ \A id, ty : OnDisk(id, ty) \/ Has(env, id, ty) => OnDisk(id, ty)'
           /\ FilesKept
           /\ \A u \in Thread : pc'[u] = "delete" => u = t \/ pc[u] = "delete"
<1>1. fileCounter \notin DOMAIN disk /\ fileCounter \in Nat
  BY DEF FileTypeOK, Monitor
<1>2. /\ DOMAIN disk' = DOMAIN disk \cup {fileCounter}
      /\ disk'[fileCounter] = env
      /\ \A n \in DOMAIN disk : disk'[n] = disk[n]
  BY <1>1 DEF Write, With
<1>3. \A id, ty : OnDisk(id, ty) \/ Has(env, id, ty) => OnDisk(id, ty)'
  BY <1>2 DEF OnDisk
<1>4. FilesKept
  BY <1>1, <1>2 DEF FilesKept
<1>5. \A u \in Thread : pc'[u] = "delete" => u = t \/ pc[u] = "delete"
  BY DEF Write, ThreadTypeOK
<1>6. QED
  BY <1>3, <1>4, <1>5

-----------------------------------------------------------------------------
(* An envelope handed to sendEnvelope: every item is in the block or is    *)
(* counted.                                                                *)
LEMMA LossSend ==
    ASSUME SendClientReports, IndInv, PathsAreOld, LossInv, HistoryGrows, NEW given \in EnvId,
           SendEnvelope(given)
    PROVE  LossInv'
<1> USE DEF IndInv, TypeOK, LossInv
<1> DEFINE env     == Fresh(given)
           kept    == RemoveRateLimitedItems(env, rateLimits, now)
           counted == EnvelopeItemsDropped(discardedEvents, given, env.types \ kept.types)
           block   == StoreBlock(AddClientReportTo(kept, counted))
<1>1. /\ accepted' = accepted \cup {given}
      /\ Counted(given, env.types \ kept.types, "ratelimit_backoff") \subseteq recorded'
      /\ IF kept.types = {} THEN queue' = queue ELSE queue' = Append(queue, block)
      /\ UNCHANGED <<fileVars, notStored, threadVars, requests>>
  BY DEF SendEnvelope
<1>2. /\ env \in Envelope /\ env.id = given /\ env.types = Content[given].types
      /\ Content[given].types \subseteq ItemType \ {"client_report"}
  BY FreshType, ContentTypes
<1> HIDE DEF env
<1>3. kept \in Envelope /\ kept.id = given /\ kept.types \subseteq env.types
  BY <1>2, RemoveType DEF RemoveRateLimitedItems, Envelope
<1> HIDE DEF kept
<1>4. /\ AddClientReportTo(kept, counted) \in Envelope
      /\ \A ty \in kept.types : Has(AddClientReportTo(kept, counted), given, ty)
  BY <1>3, ReportType DEF AddClientReportTo, Has, Envelope
<1> HIDE DEF counted
<1>5. block \in Block /\ block.op = "store" /\ \A ty \in kept.types : Has(block.env, given, ty)
  BY <1>4 DEF StoreBlock, Block
<1> HIDE DEF block
<1>6. DeletedIsSettled' /\ RequestCarries'
  BY <1>1, KeptStep DEF fileVars, threadVars, FilesKept
<1>7. ASSUME NEW id, NEW ty, Held(id, ty) PROVE Held(id, ty)'
  <2>1. Queued(id, ty) => Queued(id, ty)'
    <3>1. CASE kept.types = {}
      BY <1>1, <3>1 DEF Queued
    <3>2. CASE kept.types # {}
      BY <1>1, <1>5, <3>2, QueueAppend
    <3>3. QED
      BY <3>1, <3>2
  <2>2. /\ OnDisk(id, ty) => OnDisk(id, ty)'
        /\ Waiting(id, ty) => Waiting(id, ty)'
        /\ Sent(id, ty) => Sent(id, ty)'
    BY <1>1 DEF OnDisk, Waiting, Sent, fileVars
  <2>3. QED
    BY <1>7, <2>1, <2>2 DEF Held
<1>8. ASSUME NEW ty \in Content[given].types PROVE Held(given, ty)' \/ Settled(given, ty)'
  <2>1. CASE ty \in kept.types
    <3>1. queue' = Append(queue, block)
      BY <1>1, <2>1
    <3>2. Queued(given, ty)'
      BY <1>5, <2>1, <3>1, QueueAppend
    <3>3. QED
      BY <3>2 DEF Held
  <2>2. CASE ty \notin kept.types
    <3>1. ty \in env.types \ kept.types /\ "ratelimit_backoff" \in Reason
      BY <1>2, <2>2 DEF Reason
    <3>2. QED
      BY <1>1, <3>1, CountedIsSettled
  <2>3. QED
    BY <2>1, <2>2
<1>9. NothingLost'
  <2> SUFFICES ASSUME NEW id \in accepted', NEW ty \in Content[id].types
               PROVE  Held(id, ty)' \/ Settled(id, ty)'
    BY DEF NothingLost
  <2>1. CASE id = given
    BY <1>8, <2>1
  <2>2. CASE id \in accepted
    BY <1>7, <2>2, SettledStays DEF NothingLost
  <2>3. QED
    BY <1>1, <2>1, <2>2
<1>10. QED
  BY <1>6, <1>9

(* An envelope handed to storeEnvelope: a file, or given up.               *)
LEMMA LossStore ==
    ASSUME IndInv, PathsAreOld, LossInv, HistoryGrows, NEW given \in EnvId,
           StoreEnvelope(given)
    PROVE  LossInv'
<1> USE DEF IndInv, TypeOK, LossInv
<1>1. /\ accepted' = accepted \cup {given} /\ "app" \in Thread
      /\ pc["app"] = "idle"
      /\ UNCHANGED <<notStored, queue, path, requests>>
  BY DEF StoreEnvelope, queueVars, Thread
<1>2. Fresh(given) \in Envelope /\ \A ty \in Content[given].types : Has(Fresh(given), given, ty)
  BY FreshType, ContentTypes DEF Has
<1>3. \A id, ty : /\ Waiting(id, ty) => Waiting(id, ty)'
                  /\ Queued(id, ty) => Queued(id, ty)'
                  /\ Sent(id, ty) => Sent(id, ty)'
  BY <1>1 DEF Waiting, Queued, Sent
<1>4. /\ \A id, ty : OnDisk(id, ty) => OnDisk(id, ty)'
      /\ FilesKept
      /\ \A u \in Thread : pc'[u] = "delete" => pc[u] = "delete"
      /\ \A ty \in Content[given].types : Held(given, ty)' \/ Settled(given, ty)'
  <2>1. CASE Write("app", Fresh(given), AfterStore("app"))
    <3>1. /\ \A id, ty : OnDisk(id, ty) \/ Has(Fresh(given), id, ty) => OnDisk(id, ty)'
          /\ FilesKept
          /\ \A u \in Thread : pc'[u] = "delete" => u = "app" \/ pc[u] = "delete"
      <4>1. PICK env \in Envelope : env = Fresh(given) /\ Write("app", env, AfterStore("app"))
        BY <1>2, <2>1
      <4>2. QED
        BY <4>1, WriteHolds
    <3>2. pc'["app"] # "delete"
      <4>1. AfterStore("app") = "idle"
        BY DEF AfterStore
      <4>2. QED
        BY <1>1, <2>1, <4>1 DEF Write, ThreadTypeOK
    <3>3. QED
      BY <1>2, <3>1, <3>2 DEF Held
  <2>2. CASE /\ excused' = excused \cup ItemsOf(Fresh(given))
             /\ UNCHANGED <<fileVars, pc>>
    <3>1. \A ty \in Content[given].types : Settled(given, ty)'
      BY <2>2, ContentTypes DEF ItemsOf, Settled
    <3>2. QED
      BY <2>2, <3>1 DEF fileVars, OnDisk, FilesKept
  <2>3. QED
    BY <2>1, <2>2 DEF StoreEnvelope
<1>5. DeletedIsSettled' /\ RequestCarries'
  BY <1>1, <1>4, KeptStep
<1>6. NothingLost'
  <2> SUFFICES ASSUME NEW id \in accepted', NEW ty \in Content[id].types
               PROVE  Held(id, ty)' \/ Settled(id, ty)'
    BY DEF NothingLost
  <2>1. CASE id = given
    BY <1>4, <2>1
  <2>2. CASE id \in accepted
    <3>1. Held(id, ty) => Held(id, ty)'
      BY <1>3, <1>4 DEF Held
    <3>2. QED
      BY <2>2, <3>1, SettledStays DEF NothingLost
  <2>3. QED
    BY <1>1, <2>1, <2>2
<1>7. QED
  BY <1>5, <1>6

(* The blocks of the serial queue.                                         *)
LEMMA LossQueue ==
    ASSUME IndInv, PathsAreOld, LossInv, HistoryGrows, QueueStep
    PROVE  LossInv'
<1> USE DEF IndInv, TypeOK, LossInv
<1>1. /\ queue # <<>> /\ queue' = Tail(queue) /\ pc["queue"] = "idle" /\ "queue" \in Thread
      /\ UNCHANGED <<accepted, requests>>
  BY DEF QueueStep, RunStoreBlock, RunStoreBlockFails, RunSendBlock, historyVars, netVars, Thread
<1>2. Head(queue).op = "store" => Head(queue).env \in Envelope
  BY <1>1 DEF QueueTypeOK, Block, SendBlock
<1>3. \A id, ty : /\ Queued(id, ty) => \/ Queued(id, ty)'
                                       \/ Head(queue).op = "store" /\ Has(Head(queue).env, id, ty)
                  /\ Sent(id, ty) => Sent(id, ty)'
  BY <1>1, QueueTail DEF Sent
<1>4. /\ \A id, ty : OnDisk(id, ty) => OnDisk(id, ty)'
      /\ \A id, ty : Waiting(id, ty) => Waiting(id, ty)'
      /\ \A id, ty : Head(queue).op = "store" /\ Has(Head(queue).env, id, ty)
                        => OnDisk(id, ty)' \/ Waiting(id, ty)'
      /\ FilesKept
      /\ \A u \in Thread : pc'[u] = "delete" => pc[u] = "delete" /\ path'[u] = path[u]
  <2>1. CASE RunStoreBlock
    <3>1. /\ Head(queue).env \in Envelope /\ Write("queue", Head(queue).env, AfterStore("queue"))
          /\ notStored' = notStored /\ path' = path
      BY <1>2, <2>1 DEF RunStoreBlock
    <3>2. /\ \A id, ty : OnDisk(id, ty) \/ Has(Head(queue).env, id, ty) => OnDisk(id, ty)'
          /\ FilesKept
          /\ \A u \in Thread : pc'[u] = "delete" => u = "queue" \/ pc[u] = "delete"
      BY <3>1, WriteHolds
    <3>3. pc'["queue"] # "delete"
      BY <1>1, <3>1 DEF Write, AfterStore, ThreadTypeOK
    <3>4. QED
      BY <3>1, <3>2, <3>3 DEF Waiting
  <2>2. CASE RunStoreBlockFails
    <3>1. /\ Head(queue).env \in Envelope /\ notStored' = Append(notStored, Head(queue).env)
          /\ disk' = disk /\ Goto("queue", "try", NoPath)
      BY <1>2, <2>2 DEF RunStoreBlockFails, NotStoredAfter, fileVars
    <3>2. \A id, ty : Waiting(id, ty) \/ Has(Head(queue).env, id, ty) => Waiting(id, ty)'
      BY <3>1, WaitingAppend
    <3>3. \A u \in Thread : pc'[u] = "delete" => pc[u] = "delete" /\ path'[u] = path[u]
      BY <1>1, <3>1 DEF Goto, ThreadTypeOK
    <3>4. QED
      BY <3>1, <3>2, <3>3 DEF OnDisk, FilesKept
  <2>3. CASE RunSendBlock
    <3>1. /\ Head(queue).op # "store" /\ notStored' = notStored
          /\ disk' = disk /\ Goto("queue", "try", NoPath)
      BY <2>3 DEF RunSendBlock, fileVars
    <3>2. \A u \in Thread : pc'[u] = "delete" => pc[u] = "delete" /\ path'[u] = path[u]
      BY <1>1, <3>1 DEF Goto, ThreadTypeOK
    <3>3. QED
      BY <3>1, <3>2 DEF OnDisk, Waiting, FilesKept
  <2>4. QED
    BY <2>1, <2>2, <2>3 DEF QueueStep
<1>5. DeletedIsSettled' /\ RequestCarries'
  BY <1>1, <1>4, KeptStep
<1>6. \A id, ty : Held(id, ty) => Held(id, ty)'
  BY <1>3, <1>4 DEF Held
<1>7. QED
  BY <1>1, <1>5, <1>6, NothingLostStep

-----------------------------------------------------------------------------
(* The steps that process an envelope, once its items are known to be      *)
(* settled or in a request.                                                *)
LEMMA LossTake ==
    ASSUME SendClientReports, IndInv, PathsAreOld, LossInv, HistoryGrows, NEW t \in Thread,
           TakeNotStored(t)
    PROVE  LossInv'
<1> USE DEF IndInv, TypeOK, LossInv
<1>1. /\ notStored # <<>> /\ notStored' = Tail(notStored)
      /\ Process(t, Head(notStored), NoPath)
      /\ UNCHANGED <<disk, fileCounter, queue, accepted>>
  BY DEF TakeNotStored, fileVars, historyVars
<1>2. PICK env \in Envelope : env = Head(notStored) /\ Process(t, env, NoPath)
  BY <1>1 DEF QueueTypeOK
<1>3. \A id, ty : Waiting(id, ty) => Waiting(id, ty)' \/ Has(env, id, ty)
  BY <1>1, <1>2, WaitingTail
<1>4. /\ \A ty \in env.types \ {"client_report"} :
              Settled(env.id, ty)' \/ \E r \in requests' : Has(r.env, env.id, ty)
      /\ pc'[t] = "delete" => path'[t] = NoPath
      /\ \A r \in requests' \ requests : r.path = NoPath
      /\ requests \subseteq requests'
      /\ \A u \in Thread \ {t} : pc'[u] = pc[u] /\ path'[u] = path[u]
  BY <1>2, ProcessSettles
<1>5. \A id : \A ty \in ItemType \ {"client_report"} :
          Held(id, ty) => Held(id, ty)' \/ Settled(id, ty)'
  <2> SUFFICES ASSUME NEW id, NEW ty \in ItemType \ {"client_report"}, Held(id, ty)
               PROVE  Held(id, ty)' \/ Settled(id, ty)'
    OBVIOUS
  <2>1. /\ OnDisk(id, ty) => OnDisk(id, ty)'
        /\ Queued(id, ty) => Queued(id, ty)'
        /\ Sent(id, ty) => Sent(id, ty)'
    BY <1>1, <1>4 DEF OnDisk, Queued, Sent
  <2>2. Has(env, id, ty) => Settled(id, ty)' \/ Sent(id, ty)'
    BY <1>4 DEF Has, Sent
  <2>3. QED
    BY <1>3, <2>1, <2>2 DEF Held
<1>6. NothingLost'
  BY <1>1, <1>5, NothingLostStep
<1>7. DeletedIsSettled'
  <2> SUFFICES ASSUME NEW u \in Thread, NEW id, NEW ty, pc'[u] = "delete",
                      path'[u] \in DOMAIN disk', id = disk'[path'[u]].id,
                      ty \in disk'[path'[u]].types \ {"client_report"}
               PROVE  Settled(id, ty)'
    BY DEF DeletedIsSettled
  <2>1. u # t
    BY <1>1, <1>4 DEF PathsAreOld
  <2>2. Settled(id, ty)
    BY <1>1, <1>4, <2>1 DEF DeletedIsSettled
  <2>3. QED
    BY <2>2, SettledStays
<1>8. RequestCarries'
  <2> SUFFICES ASSUME NEW r \in requests', r.path \in DOMAIN disk'
               PROVE  /\ disk'[r.path].id = r.env.id
                      /\ \A ty \in disk'[r.path].types \ {"client_report"} :
                            ty \in r.env.types \/ Settled(r.env.id, ty)'
    BY DEF RequestCarries
  <2>1. r \in requests
    BY <1>1, <1>4 DEF PathsAreOld
  <2>2. QED
    BY <1>1, <2>1, SettledStays DEF RequestCarries
<1>9. QED
  BY <1>6, <1>7, <1>8

(* A file read, its items sent or settled; the file stays for now.         *)
LEMMA LossLoad ==
    ASSUME SendClientReports, IndInv, PathsAreOld, LossInv, HistoryGrows, NEW t \in Thread,
           LoadEnvelope(t)
    PROVE  LossInv'
<1> USE DEF IndInv, TypeOK, LossInv
<1>1. /\ path[t] \in DOMAIN disk /\ Process(t, disk[path[t]], path[t])
      /\ UNCHANGED <<disk, fileCounter, notStored, queue, accepted>>
  BY DEF LoadEnvelope, fileVars, queueVars, historyVars
<1>2. PICK env \in Envelope, name \in Nat : /\ env = disk[name] /\ name = path[t]
                                          /\ Process(t, env, name)
  BY <1>1 DEF FileTypeOK, ThreadTypeOK
<1>3. /\ pc'[t] = "delete" =>
              /\ path'[t] = name
              /\ \A ty \in env.types \ {"client_report"} : Settled(env.id, ty)'
      /\ \A r \in requests' \ requests :
              /\ r.path = name /\ r.env.id = env.id
              /\ \A ty \in env.types \ {"client_report"} :
                    ty \in r.env.types \/ Settled(env.id, ty)'
      /\ requests \subseteq requests'
      /\ \A u \in Thread \ {t} : pc'[u] = pc[u] /\ path'[u] = path[u]
  BY <1>2, ProcessSettles
<1>4. \A id, ty : Held(id, ty) => Held(id, ty)'
  BY <1>1, <1>3 DEF Held, OnDisk, Waiting, Queued, Sent
<1>5. NothingLost'
  BY <1>1, <1>4, NothingLostStep
<1>6. DeletedIsSettled'
  <2> SUFFICES ASSUME NEW u \in Thread, NEW id, NEW ty, pc'[u] = "delete",
                      path'[u] \in DOMAIN disk', id = disk'[path'[u]].id,
                      ty \in disk'[path'[u]].types \ {"client_report"}
               PROVE  Settled(id, ty)'
    BY DEF DeletedIsSettled
  <2>1. CASE u = t
    BY <1>1, <1>2, <1>3, <2>1
  <2>2. CASE u # t
    <3>1. Settled(id, ty)
      BY <1>1, <1>3, <2>2 DEF DeletedIsSettled
    <3>2. QED
      BY <3>1, SettledStays
  <2>3. QED
    BY <2>1, <2>2
<1>7. RequestCarries'
  <2> SUFFICES ASSUME NEW r \in requests', r.path \in DOMAIN disk'
               PROVE  /\ disk'[r.path].id = r.env.id
                      /\ \A ty \in disk'[r.path].types \ {"client_report"} :
                            ty \in r.env.types \/ Settled(r.env.id, ty)'
    BY DEF RequestCarries
  <2>1. CASE r \in requests
    BY <1>1, <2>1, SettledStays DEF RequestCarries
  <2>2. CASE r \in requests' \ requests
    <3>1. /\ r.path = name /\ r.env.id = env.id
          /\ \A ty \in env.types \ {"client_report"} :
                ty \in r.env.types \/ Settled(env.id, ty)'
      BY <1>3, <2>2
    <3>2. disk'[r.path] = env
      BY <1>1, <1>2, <3>1
    <3>3. QED
      BY <3>1, <3>2
  <2>3. QED
    BY <2>1, <2>2
<1>8. QED
  BY <1>5, <1>6, <1>7

(* A file that cannot be read is given up before it is deleted.            *)
LEMMA LossUnreadable ==
    ASSUME IndInv, PathsAreOld, LossInv, HistoryGrows, NEW t \in Thread, NotDeserializable(t)
    PROVE  LossInv'
<1> USE DEF IndInv, TypeOK, LossInv
<1>1. /\ path[t] \in DOMAIN disk /\ excused' = excused \cup ItemsOf(disk[path[t]])
      /\ UNCHANGED <<disk, fileCounter, notStored, queue, requests, accepted>>
      /\ Goto(t, "delete", path[t])
  BY DEF NotDeserializable, fileVars, queueVars, netVars, historyVars
<1>2. \A ty \in disk[path[t]].types : <<disk[path[t]].id, ty>> \in excused'
  BY <1>1 DEF ItemsOf
<1>3. \A id, ty : <<id, ty>> \in excused' => Settled(id, ty)'
  BY DEF Settled
<1>4. /\ pc'[t] = "delete" /\ path'[t] = path[t]
      /\ \A u \in Thread \ {t} : pc'[u] = pc[u] /\ path'[u] = path[u]
  BY <1>1 DEF Goto, ThreadTypeOK
<1>5. \A id, ty : Held(id, ty) => Held(id, ty)'
  BY <1>1 DEF Held, OnDisk, Waiting, Queued, Sent
<1>6. NothingLost'
  BY <1>1, <1>5, NothingLostStep
<1>7. DeletedIsSettled'
  <2> SUFFICES ASSUME NEW u \in Thread, NEW id, NEW ty, pc'[u] = "delete",
                      path'[u] \in DOMAIN disk', id = disk'[path'[u]].id,
                      ty \in disk'[path'[u]].types \ {"client_report"}
               PROVE  Settled(id, ty)'
    BY DEF DeletedIsSettled
  <2>1. CASE u = t
    BY <1>1, <1>2, <1>3, <1>4, <2>1
  <2>2. CASE u # t
    <3>1. Settled(id, ty)
      BY <1>1, <1>4, <2>2 DEF DeletedIsSettled
    <3>2. QED
      BY <3>1, SettledStays
  <2>3. QED
    BY <2>1, <2>2
<1>8. RequestCarries'
  BY <1>1, SettledStays DEF RequestCarries
<1>9. QED
  BY <1>6, <1>7, <1>8

(* A step that removes one file whose items are settled and touches        *)
(* nothing else an item could be in.                                       *)
LEMMA LossRemove ==
    ASSUME IndInv, PathsAreOld, LossInv, HistoryGrows, NEW name,
           DOMAIN disk' = DOMAIN disk \ {name},
           \A n \in DOMAIN disk' : disk'[n].id = disk[n].id /\ disk'[n].types = disk[n].types,
           UNCHANGED <<notStored, queue, accepted, requests>>,
           name \in DOMAIN disk =>
              \A id : \A ty \in ItemType \ {"client_report"} :
                 Has(disk[name], id, ty) => Settled(id, ty)',
           \A t \in Thread : pc'[t] = "delete" => pc[t] = "delete" /\ path'[t] = path[t]
    PROVE  LossInv'
<1> USE DEF IndInv, TypeOK, LossInv
<1>1. \A id : \A ty \in ItemType \ {"client_report"} :
          OnDisk(id, ty) => OnDisk(id, ty)' \/ Settled(id, ty)'
  <2> SUFFICES ASSUME NEW id, NEW ty \in ItemType \ {"client_report"},
                      NEW n \in DOMAIN disk, Has(disk[n], id, ty)
               PROVE  OnDisk(id, ty)' \/ Settled(id, ty)'
    BY DEF OnDisk
  <2>1. CASE n = name
    BY <2>1
  <2>2. CASE n # name
    <3>1. n \in DOMAIN disk' /\ Has(disk'[n], id, ty)
      BY <2>2 DEF Has
    <3>2. QED
      BY <3>1 DEF OnDisk
  <2>3. QED
    BY <2>1, <2>2
<1>2. \A id, ty : /\ Waiting(id, ty) => Waiting(id, ty)'
                  /\ Queued(id, ty) => Queued(id, ty)'
                  /\ Sent(id, ty) => Sent(id, ty)'
  BY DEF Waiting, Queued, Sent
<1>3. NothingLost'
  BY <1>1, <1>2, NothingLostStep DEF Held
<1>4. FilesKept
  BY DEF FilesKept
<1>5. QED
  BY <1>3, <1>4, KeptStep

(* deleteEnvelopeAndSendNext deletes a file that is settled.               *)
LEMMA LossDelete ==
    ASSUME IndInv, PathsAreOld, LossInv, HistoryGrows, NEW t \in Thread,
           DeleteEnvelopeAndSendNext(t)
    PROVE  LossInv'
<1> USE DEF IndInv, TypeOK
<1>1. /\ pc[t] = "delete" /\ disk' = DiskAfterDelete(path[t]) /\ Goto(t, "idle", NoPath)
      /\ UNCHANGED <<notStored, queue, accepted, requests>>
  BY DEF DeleteEnvelopeAndSendNext, netVars, historyVars
<1>2. DOMAIN disk' = DOMAIN disk \ {path[t]} /\ \A n \in DOMAIN disk' : disk'[n] = disk[n]
  <2>1. CASE path[t] = NoPath
    BY <1>1, <2>1 DEF DiskAfterDelete, PathsAreOld
  <2>2. CASE path[t] # NoPath
    BY <1>1, <2>2 DEF DiskAfterDelete, Without
  <2>3. QED
    BY <2>1, <2>2
<1>3. \A u \in Thread : pc'[u] = "delete" => pc[u] = "delete" /\ path'[u] = path[u]
  BY <1>1 DEF Goto, ThreadTypeOK
<1>4. ASSUME path[t] \in DOMAIN disk, NEW id, NEW ty \in ItemType \ {"client_report"},
             Has(disk[path[t]], id, ty)
      PROVE  Settled(id, ty)'
  <2>1. Settled(id, ty)
    BY <1>1, <1>4 DEF LossInv, DeletedIsSettled, Has
  <2>2. QED
    BY <2>1, SettledStays
<1>5. PICK name : name = path[t]
  OBVIOUS
<1>6. name \in DOMAIN disk =>
          \A id : \A ty \in ItemType \ {"client_report"} :
             Has(disk[name], id, ty) => Settled(id, ty)'
  BY <1>4, <1>5
<1>7. QED
  BY <1>1, <1>2, <1>3, <1>5, <1>6, LossRemove

(* Expired files are given up.                                             *)
LEMMA LossOld ==
    ASSUME IndInv, PathsAreOld, LossInv, HistoryGrows, NEW name \in OldFiles,
           DeleteOldEnvelope(name)
    PROVE  LossInv'
<1>1. /\ disk' = Without(disk, name) /\ excused' = excused \cup ItemsOf(disk[name])
      /\ UNCHANGED <<notStored, queue, accepted, requests, pc, path>>
  BY DEF DeleteOldEnvelope, queueVars, netVars, historyVars, threadVars
<1>2. DOMAIN disk' = DOMAIN disk \ {name} /\ \A n \in DOMAIN disk' : disk'[n] = disk[n]
  BY <1>1 DEF Without
<1>3. \A id, ty : Has(disk[name], id, ty) => Settled(id, ty)'
  BY <1>1 DEF Has, ItemsOf, Settled
<1>4. QED
  BY <1>1, <1>2, <1>3, LossRemove

(* An evicted file is counted, handed on or unreadable.                    *)
LEMMA LossEvict ==
    ASSUME SendClientReports, IndInv, PathsAreOld, LossInv, HistoryGrows, NEW t \in Thread,
           NEW ok \in BOOLEAN, Evict(t, ok)
    PROVE  LossInv'
<1> USE DEF IndInv, TypeOK
<1>1. Oldest(disk) \in DOMAIN disk
  BY EvictMonitor
<1>2. PICK name, old, gone :
          /\ name = Oldest(disk) /\ name \in DOMAIN disk
          /\ old = disk[name] /\ old \in Envelope
          /\ gone = ItemsDeleted(disk)
  BY <1>1 DEF FileTypeOK
<1>3. /\ disk' = Without(MigrateSessionInit(disk, ok), name)
      /\ Counted(old.id, gone, "cache_overflow") \subseteq recorded'
      /\ ~Readable(old) => ItemsOf(old) \subseteq excused'
      /\ DidMigrate(disk) => <<old.id, "session">> \in excused'
      /\ UNCHANGED <<notStored, queue, accepted, requests, path>>
  BY <1>2 DEF Evict, queueVars, netVars, historyVars
<1>4. /\ DOMAIN disk' = DOMAIN disk \ {name}
      /\ \A n \in DOMAIN disk' : disk'[n].id = disk[n].id /\ disk'[n].types = disk[n].types
  BY <1>3 DEF MigrateSessionInit, Without, FileTypeOK, Envelope
<1>5. \A u \in Thread : pc'[u] = "delete" => pc[u] = "delete"
  BY DEF Evict, AfterStore, ThreadTypeOK
<1>6. ASSUME NEW ty \in old.types PROVE Settled(old.id, ty)'
  <2>1. CASE ~Readable(old)
    <3>1. <<old.id, ty>> \in excused'
      BY <1>3, <2>1 DEF ItemsOf
    <3>2. QED
      BY <3>1 DEF Settled
  <2>2. CASE ty \in gone
    <3>1. "cache_overflow" \in Reason
      BY DEF Reason
    <3>2. QED
      BY <1>3, <2>2, <3>1, CountedIsSettled
  <2>3. CASE Readable(old) /\ ty \notin gone
    <3>1. DidMigrate(disk) /\ ty = "session"
      BY <1>2, <2>3 DEF ItemsDeleted
    <3>2. QED
      BY <1>3, <3>1 DEF Settled
  <2>4. QED
    BY <2>1, <2>2, <2>3
<1>7. \A id, ty : Has(disk[name], id, ty) => Settled(id, ty)'
  BY <1>2, <1>6 DEF Has
<1>8. QED
  BY <1>3, <1>4, <1>5, <1>7, LossRemove

(* A request completed: its items are answered or counted, and with them   *)
(* the file to delete is settled.                                          *)
LEMMA LossRequest ==
    ASSUME SendClientReports, IndInv, PathsAreOld, LossInv, HistoryGrows,
           NEW r \in requests, NEW o \in Outcomes, CompleteRequest(r, o)
    PROVE  LossInv'
<1> USE DEF IndInv, TypeOK, LossInv
<1> DEFINE lost == o.error /\ ~(o.answered /\ o.response.is429)
<1>1. /\ requests' = requests \ {r} /\ "session" \in Thread
      /\ UNCHANGED <<disk, fileCounter, notStored, queue, accepted>>
      /\ lost => Counted(r.env.id, NetworkLosses(r.env.types), "network_error") \subseteq recorded'
      /\ o.answered => /\ lost \/ ItemsOf(r.env) \subseteq answered'
                       /\ Goto("session", "delete", r.path)
      /\ ~o.answered => Goto("session", "finish", NoPath)
  BY DEF CompleteRequest, fileVars, queueVars, Thread
<1>2. o.answered \/ o.error
  BY TransportAssumption DEF Outcome
<1>3. ASSUME NEW ty \in r.env.types \ {"client_report"} PROVE Settled(r.env.id, ty)'
  <2>1. CASE lost
    <3>1. ty \in NetworkLosses(r.env.types) /\ "network_error" \in Reason
      BY DEF NetworkLosses, Reason
    <3>2. QED
      BY <1>1, <2>1, <3>1, CountedIsSettled
  <2>2. CASE ~lost
    <3>1. <<r.env.id, ty>> \in answered'
      BY <1>1, <1>2, <2>2 DEF ItemsOf
    <3>2. QED
      BY <3>1 DEF Settled
  <2>3. QED
    BY <2>1, <2>2
<1> HIDE DEF lost
<1>4. \A id : \A ty \in ItemType \ {"client_report"} :
          Held(id, ty) => Held(id, ty)' \/ Settled(id, ty)'
  <2> SUFFICES ASSUME NEW id, NEW ty \in ItemType \ {"client_report"}, Held(id, ty)
               PROVE  Held(id, ty)' \/ Settled(id, ty)'
    OBVIOUS
  <2>1. /\ OnDisk(id, ty) => OnDisk(id, ty)'
        /\ Waiting(id, ty) => Waiting(id, ty)'
        /\ Queued(id, ty) => Queued(id, ty)'
    BY <1>1 DEF OnDisk, Waiting, Queued
  <2>2. Sent(id, ty) => Sent(id, ty)' \/ Has(r.env, id, ty)
    BY <1>1 DEF Sent
  <2>3. Has(r.env, id, ty) => Settled(id, ty)'
    BY <1>3 DEF Has
  <2>4. QED
    BY <2>1, <2>2, <2>3 DEF Held
<1>5. NothingLost'
  BY <1>1, <1>4, NothingLostStep
<1>6. DeletedIsSettled'
  <2> SUFFICES ASSUME NEW u \in Thread, NEW id, NEW ty, pc'[u] = "delete",
                      path'[u] \in DOMAIN disk', id = disk'[path'[u]].id,
                      ty \in disk'[path'[u]].types \ {"client_report"}
               PROVE  Settled(id, ty)'
    BY DEF DeletedIsSettled
  <2>1. \A v \in Thread \ {"session"} : pc'[v] = pc[v] /\ path'[v] = path[v]
    BY <1>1 DEF Goto, ThreadTypeOK
  <2>2. pc'["session"] = "delete" => path'["session"] = r.path
    BY <1>1 DEF Goto, ThreadTypeOK
  <2>3. CASE u = "session"
    <3>1. id = r.env.id /\ (ty \in r.env.types \/ Settled(r.env.id, ty))
      BY <1>1, <2>2, <2>3 DEF RequestCarries
    <3>2. QED
      BY <1>3, <3>1, SettledStays
  <2>4. CASE u # "session"
    <3>1. Settled(id, ty)
      BY <1>1, <2>1, <2>4 DEF DeletedIsSettled
    <3>2. QED
      BY <3>1, SettledStays
  <2>5. QED
    BY <2>3, <2>4
<1>7. RequestCarries'
  BY <1>1, SettledStays DEF RequestCarries
<1>8. QED
  BY <1>5, <1>6, <1>7

(* A crash loses what only the memory holds, and says so.                  *)
LEMMA LossCrash ==
    ASSUME IndInv, LossInv, HistoryGrows, Crash
    PROVE  LossInv'
<1> USE DEF IndInv, TypeOK, LossInv
<1>1. /\ excused' = excused \cup Volatile /\ UNCHANGED <<disk, accepted>>
      /\ requests' = {} /\ \A t \in Thread : pc'[t] # "delete"
  BY DEF Crash, Launched
<1>2. \A id, ty : Held(id, ty) => Held(id, ty)' \/ Settled(id, ty)'
  <2> SUFFICES ASSUME NEW id, NEW ty, Held(id, ty) PROVE Held(id, ty)' \/ Settled(id, ty)'
    OBVIOUS
  <2>1. CASE OnDisk(id, ty)
    BY <1>1, <2>1 DEF OnDisk, Held
  <2>2. CASE <<id, ty>> \in Volatile
    BY <1>1, <2>2 DEF Settled
  <2>3. QED
    BY <2>1, <2>2, MemoryIsVolatile
<1>3. NothingLost'
  BY <1>1, <1>2, NothingLostStep
<1>4. QED
  BY <1>1, <1>3 DEF DeletedIsSettled, RequestCarries

(* The steps that touch neither envelopes nor what is settled.             *)
LEMMA LossFrame ==
    ASSUME IndInv, PathsAreOld, LossInv, HistoryGrows,
           UNCHANGED <<disk, notStored, accepted>>,
           requests' = requests,
           \A id, ty : Queued(id, ty) => Queued(id, ty)',
           \A t \in Thread : pc'[t] = "delete" => pc[t] = "delete" /\ path'[t] = path[t]
    PROVE  LossInv'
<1>1. \A id, ty : Held(id, ty) => Held(id, ty)'
  BY DEF Held, OnDisk, Waiting, Sent
<1>2. NothingLost'
  BY <1>1, NothingLostStep DEF LossInv, IndInv, TypeOK
<1>3. QED
  BY <1>2, KeptStep DEF LossInv, FilesKept

(* Every step settles an item before it stops being on its way.            *)
LEMMA LossNext ==
    ASSUME SendClientReports, IndInv, PathsAreOld, LossInv, [Next]_vars
    PROVE  LossInv'
<1>1. HistoryGrows
  BY NextGrows
<1>2. CASE \E id \in EnvId : SendEnvelope(id) \/ StoreEnvelope(id)
  BY <1>1, <1>2, LossSend, LossStore
<1>3. CASE QueueStep
  BY <1>1, <1>3, LossQueue
<1>4. CASE RequestStep
  BY <1>1, <1>4, LossRequest DEF RequestStep
<1>5. CASE Crash
  BY <1>1, <1>5, LossCrash
<1>6. CASE \E n \in OldFiles : DeleteOldEnvelope(n)
  BY <1>1, <1>6, LossOld
<1>7. ASSUME NEW t \in Thread, SenderStep(t) PROVE LossInv'
  <2>1. CASE TakeNotStored(t)
    BY <1>1, <2>1, LossTake
  <2>2. CASE LoadEnvelope(t)
    BY <1>1, <2>2, LossLoad
  <2>3. CASE NotDeserializable(t)
    BY <1>1, <2>3, LossUnreadable
  <2>4. CASE DeleteEnvelopeAndSendNext(t)
    BY <1>1, <2>4, LossDelete
  <2>5. CASE \E ok \in BOOLEAN : Evict(t, ok)
    BY <1>1, <2>5, LossEvict
  <2>6. CASE AlreadySending(t) \/ StartSending(t) \/ NothingNotStored(t) \/ ListEnvelopes(t)
               \/ FileIsGone(t) \/ FinishedSending(t)
    <3>1. UNCHANGED <<disk, notStored, queue, accepted, requests>>
      BY <2>6 DEF AlreadySending, StartSending, NothingNotStored, ListEnvelopes, FileIsGone,
                  FinishedSending, fileVars, queueVars, netVars, historyVars
    <3>2. \A u \in Thread : pc'[u] = "delete" => pc[u] = "delete" /\ path'[u] = path[u]
      BY <2>6 DEF AlreadySending, StartSending, NothingNotStored, ListEnvelopes, FileIsGone,
                  FinishedSending, Goto, IndInv, TypeOK, ThreadTypeOK
    <3>3. QED
      BY <1>1, <3>1, <3>2, LossFrame DEF Queued
  <2>7. QED
    BY <1>7, <2>1, <2>2, <2>3, <2>4, <2>5, <2>6 DEF SenderStep
<1>8. CASE TimerFires \/ \E f \in Flusher : FlushDispatch(f)
  <2>1. /\ UNCHANGED <<disk, notStored, accepted, requests, pc, path>>
        /\ queue' = Append(queue, SendBlock)
    BY <1>8 DEF TimerFires, FlushDispatch, QueueAfterFlush, fileVars, netVars, historyVars,
                threadVars
  <2>2. \A id, ty : Queued(id, ty) => Queued(id, ty)'
    BY <2>1, QueueAppend DEF Block, IndInv, TypeOK
  <2>3. QED
    BY <1>1, <2>1, <2>2, LossFrame
<1>9. CASE ConnectivityChanged
  <2>1. UNCHANGED <<disk, notStored, queue, accepted, requests>> /\ Goto("reach", "try", NoPath)
    BY <1>9 DEF ConnectivityChanged, fileVars, queueVars, netVars
  <2>2. \A u \in Thread : pc'[u] = "delete" => pc[u] = "delete" /\ path'[u] = path[u]
    BY <2>1 DEF Goto, IndInv, TypeOK, ThreadTypeOK
  <2>3. QED
    BY <1>1, <2>1, <2>2, LossFrame DEF Queued
<1>10. CASE \/ \E f \in Flusher : FlushRefused(f) \/ FlushBegin(f) \/ FlushTimesOut(f)
            \/ SpotlightDone \/ Tick \/ Rest \/ UNCHANGED vars
  <2>1. UNCHANGED <<disk, notStored, queue, accepted, requests, pc, path>>
    BY <1>10 DEF FlushRefused, FlushBegin, FlushTimesOut, SpotlightDone, Tick, Rest, vars,
                 fileVars, queueVars, netVars, historyVars, threadVars
  <2>2. QED
    BY <1>1, <2>1, LossFrame DEF Queued
<1>11. QED
  BY <1>2, <1>3, <1>4, <1>5, <1>6, <1>7, <1>8, <1>9, <1>10 DEF Next, CallerStep

(* At the first launch every accepted item is in a file.                   *)
LEMMA LossInit == Init => PathsAreOld /\ LossInv
<1> SUFFICES ASSUME Init PROVE PathsAreOld /\ LossInv
  OBVIOUS
<1>1. DOMAIN Cached = 1 .. Len(Cached) /\ Len(Cached) \in Nat
  BY TransportAssumption
<1>2. PathsAreOld
  BY <1>1 DEF Init, PathsAreOld, NoPath
<1>3. NothingLost
  <2> SUFFICES ASSUME NEW id \in accepted, NEW ty \in Content[id].types
               PROVE  Held(id, ty)
    BY DEF NothingLost
  <2>1. PICK n \in DOMAIN Cached : id = Cached[n].id
    BY DEF Init
  <2>2. ty \in Cached[n].types
    BY <2>1, TransportAssumption
  <2>3. n \in DOMAIN disk /\ Has(disk[n], id, ty)
    BY <2>1, <2>2 DEF Init, Has
  <2>4. QED
    BY <2>3 DEF Held, OnDisk
<1>4. DeletedIsSettled /\ RequestCarries
  BY DEF Init, DeletedIsSettled, RequestCarries
<1>5. QED
  BY <1>2, <1>3, <1>4 DEF LossInv

-----------------------------------------------------------------------------
(* While the process lives an envelope is in one place: a file, the        *)
(* envelopes that could not be stored, or a block that is to store it.     *)
FileHas(n, id)  == n \in DOMAIN disk /\ disk[n].id = id
WaitHas(i, id)  == i \in 1 .. Len(notStored) /\ notStored[i].id = id
BlockHas(i, id) == i \in 1 .. Len(queue) /\ queue[i].op = "store" /\ queue[i].env.id = id

Kinds == {"file", "wait", "block"}

At(k, i, id) ==
    \/ k = "file" /\ FileHas(i, id)
    \/ k = "wait" /\ WaitHas(i, id)
    \/ k = "block" /\ BlockHas(i, id)

OnePlace ==
    \A id, i, j : \A k, l \in Kinds : At(k, i, id) /\ At(l, j, id) => k = l /\ i = j

(* Only envelopes that were taken over are anywhere.                       *)
Known ==
    /\ \A id, i : \A k \in Kinds : At(k, i, id) => id \in accepted
    /\ \A r \in requests : r.env.id \in accepted
    /\ \A a \in answered : a[1] \in accepted

(* An envelope in a request is nowhere else but in the file it came from.  *)
RequestPlace ==
    \A r \in requests : \A i : \A k \in Kinds :
        At(k, i, r.env.id) => k = "file" /\ i = r.path

(* An envelope the server answered for is nowhere but in the file that is  *)
(* about to be deleted.                                                    *)
AnsweredPlace ==
    \A a \in answered :
        /\ \A i : \A k \in Kinds : At(k, i, a[1]) =>
              k = "file" /\ pc["session"] = "delete" /\ path["session"] = i
        /\ \A r \in requests : r.env.id # a[1]

Places == OnePlace /\ Known /\ RequestPlace /\ AnsweredPlace

(* The places after a step: each one was a place before, in a list that    *)
(* may have moved up by one, but for the new place of one envelope.        *)
Moved(shift, kind, at, new) ==
    \A id, i : \A k \in Kinds : At(k, i, id)' =>
        \/ id # new /\ i \in Nat /\ At(k, i + shift[k], id)
        \/ id = new /\ k = kind /\ i = at

(* A moved or new envelope is in one place again.                          *)
LEMMA OnePlaceStep ==
    ASSUME OnePlace, NEW shift \in [Kinds -> {0, 1}], NEW kind, NEW at, NEW new,
           Moved(shift, kind, at, new)
    PROVE  OnePlace'
<1> SUFFICES ASSUME NEW id, NEW i, NEW j, NEW k \in Kinds, NEW l \in Kinds,
                    At(k, i, id)', At(l, j, id)'
             PROVE  k = l /\ i = j
  BY DEF OnePlace
<1>1. CASE id = new
  BY <1>1 DEF Moved
<1>2. CASE id # new
  <2>1. /\ i \in Nat /\ At(k, i + shift[k], id)
        /\ j \in Nat /\ At(l, j + shift[l], id)
    BY <1>2 DEF Moved
  <2>2. k = l /\ i + shift[k] = j + shift[l] /\ shift[k] \in {0, 1}
    BY <2>1 DEF OnePlace
  <2>3. QED
    BY <2>1, <2>2
<1>3. QED
  BY <1>1, <1>2

(* The rest of it, when the request and the answers do not grow.           *)
LEMMA PlacesStep ==
    ASSUME Places, NEW shift \in [Kinds -> {0, 1}], NEW kind, NEW at, NEW new,
           Moved(shift, kind, at, new), \A k, i : At(k, i, new)' => new \in accepted',
           requests' \subseteq requests, answered' = answered, accepted \subseteq accepted',
           \A id, i : At("file", i, id)' => id = new \/ At("file", i, id),
           \A r \in requests' : r.env.id # new,
           \A a \in answered : a[1] # new,
           pc["session"] = "delete" =>
              \/ pc'["session"] = "delete" /\ path'["session"] = path["session"]
              \/ \A id, i : i = path["session"] => ~At("file", i, id)'
    PROVE  Places'
<1> USE DEF Places
<1>1. OnePlace'
  BY OnePlaceStep
<1>2. \A id, i : \A k \in Kinds : At(k, i, id)' => \/ id = new
                                                   \/ \E j : At(k, j, id)
  BY DEF Moved
<1>3. Known'
  BY <1>2 DEF Known
<1>4. \A k \in Kinds : k = "file" \/ k # "file"
  OBVIOUS
<1>5. RequestPlace'
  <2> SUFFICES ASSUME NEW r \in requests', NEW i, NEW k \in Kinds, NEW id, id = r.env.id,
                      At(k, i, id)'
               PROVE  k = "file" /\ i = r.path
    BY DEF RequestPlace
  <2>1. r \in requests /\ id # new
    OBVIOUS
  <2>2. \E j : At(k, j, id)
    BY <1>2, <2>1
  <2>3. k = "file"
    BY <2>1, <2>2 DEF RequestPlace
  <2>4. At("file", i, id)
    BY <2>1, <2>3
  <2>5. QED
    BY <2>1, <2>3, <2>4 DEF RequestPlace, Kinds
<1>6. AnsweredPlace'
  <2> SUFFICES ASSUME NEW a \in answered
               PROVE  /\ \A i : \A k \in Kinds : At(k, i, a[1])' =>
                            k = "file" /\ pc'["session"] = "delete" /\ path'["session"] = i
                      /\ \A r \in requests' : r.env.id # a[1]
    BY DEF AnsweredPlace
  <2>1. ASSUME NEW i, NEW k \in Kinds, At(k, i, a[1])'
        PROVE  k = "file" /\ pc'["session"] = "delete" /\ path'["session"] = i
    <3>1. a[1] # new
      OBVIOUS
    <3>2. \E j : At(k, j, a[1])
      BY <1>2, <2>1, <3>1
    <3>3. k = "file"
      BY <3>2 DEF AnsweredPlace
    <3>4. At("file", i, a[1])
      BY <2>1, <3>1, <3>3
    <3>5. pc["session"] = "delete" /\ path["session"] = i
      BY <3>4 DEF AnsweredPlace, Kinds
    <3>6. QED
      BY <2>1, <3>3, <3>5
  <2>2. \A r \in requests' : r.env.id # a[1]
    BY DEF AnsweredPlace
  <2>3. QED
    BY <2>1, <2>2
<1>7. QED
  BY <1>1, <1>3, <1>5, <1>6

(* A step after which every envelope that is anywhere was there before.    *)
LEMMA PlacesShrink ==
    ASSUME Places, HistoryTypeOK, NEW shift \in [Kinds -> {0, 1}],
           \A id, i : \A k \in Kinds : At(k, i, id)' => i \in Nat /\ At(k, i + shift[k], id),
           \A id, i : At("file", i, id)' => At("file", i, id),
           requests' \subseteq requests, answered' = answered, accepted \subseteq accepted',
           pc["session"] = "delete" =>
              \/ pc'["session"] = "delete" /\ path'["session"] = path["session"]
              \/ \A id, i : i = path["session"] => ~At("file", i, id)'
    PROVE  Places'
<1>1. -1 \notin accepted
  BY TransportAssumption DEF HistoryTypeOK
<1>2. \A i : \A k \in Kinds : ~At(k, i, -1)
  BY <1>1 DEF Places, Known
<1>3. \A i : \A k \in Kinds : ~At(k, i, -1)'
  BY <1>2
<1>4. Moved(shift, "file", 0, -1)
  BY <1>3 DEF Moved
<1>5. \A r \in requests' : r.env.id # -1
  BY <1>1 DEF Places, Known
<1>6. \A a \in answered : a[1] # -1
  BY <1>1 DEF Places, Known
<1>7. ASSUME NEW k, NEW i, At(k, i, -1)' PROVE FALSE
  BY <1>3, <1>7 DEF At, Kinds
<1>8. QED
  BY <1>4, <1>5, <1>6, <1>7, PlacesStep

(* Nothing moved.                                                          *)
LEMMA PlacesFrame ==
    ASSUME Places, HistoryTypeOK, FileTypeOK, QueueTypeOK, FileTypeOK',
           \A id, i : FileHas(i, id)' => FileHas(i, id),
           \A id, i : BlockHas(i, id)' => BlockHas(i, id),
           notStored' = notStored,
           requests' \subseteq requests, answered' = answered, accepted \subseteq accepted',
           pc["session"] = "delete" =>
              \/ pc'["session"] = "delete" /\ path'["session"] = path["session"]
              \/ \A id, i : i = path["session"] => ~FileHas(i, id)'
    PROVE  Places'
<1> DEFINE shift == [k \in Kinds |-> 0]
<1>1. shift \in [Kinds -> {0, 1}]
  OBVIOUS
<1>2. \A id, i : WaitHas(i, id)' => WaitHas(i, id)
  BY DEF WaitHas
<1>3. \A id, i : FileHas(i, id) \/ WaitHas(i, id) \/ BlockHas(i, id) => i \in Nat
  BY DEF FileHas, WaitHas, BlockHas, FileTypeOK
<1>4. \A id, i : \A k \in Kinds : At(k, i, id)' => At(k, i, id) /\ i \in Nat
  BY <1>2, <1>3 DEF At
<1>5. \A id, i : \A k \in Kinds : At(k, i, id)' => i \in Nat /\ At(k, i + shift[k], id)
  <2> SUFFICES ASSUME NEW id, NEW i, NEW k \in Kinds, At(k, i, id)'
               PROVE  i \in Nat /\ At(k, i + shift[k], id)
    OBVIOUS
  <2>1. At(k, i, id) /\ i \in Nat
    BY <1>4
  <2>2. i + shift[k] = i
    BY <2>1
  <2>3. QED
    BY <2>1, <2>2
<1>6. \A id, i : At("file", i, id)' => At("file", i, id)
  BY <1>4 DEF Kinds
<1>7. \A id, i : At("file", i, id)' => FileHas(i, id)'
  BY DEF At
<1> HIDE DEF shift
<1>8. QED
  BY <1>1, <1>5, <1>6, <1>7, PlacesShrink

-----------------------------------------------------------------------------
(* The places in the lists, when one is taken or added.                    *)
LEMMA TailPlaces ==
    ASSUME NEW S, NEW s \in Seq(S), s # <<>>, NEW i \in 1 .. Len(Tail(s))
    PROVE  i \in Nat /\ i + 1 \in 1 .. Len(s) /\ Tail(s)[i] = s[i + 1]
OBVIOUS

(* An element added at the end.                                            *)
LEMMA AppendPlaces ==
    ASSUME NEW S, NEW s \in Seq(S), NEW e \in S, NEW i \in 1 .. Len(Append(s, e))
    PROVE  /\ i \in Nat
           /\ \/ i \in 1 .. Len(s) /\ Append(s, e)[i] = s[i]
              \/ i = Len(s) + 1 /\ Append(s, e)[i] = e
OBVIOUS

(* A block taken off the queue.                                            *)
LEMMA BlockTail ==
    ASSUME QueueTypeOK, queue # <<>>, queue' = Tail(queue)
    PROVE  /\ \A id, i : BlockHas(i, id)' => i \in Nat /\ BlockHas(i + 1, id) /\ i + 1 # 1
           /\ \A id : Head(queue).op = "store" /\ Head(queue).env.id = id => BlockHas(1, id)
<1>1. ASSUME NEW id, NEW i, BlockHas(i, id)'
      PROVE  i \in Nat /\ BlockHas(i + 1, id) /\ i + 1 # 1
  <2>1. i \in 1 .. Len(Tail(queue))
    BY <1>1 DEF BlockHas
  <2>2. i \in Nat /\ i + 1 \in 1 .. Len(queue) /\ Tail(queue)[i] = queue[i + 1]
    BY <2>1, TailPlaces DEF QueueTypeOK
  <2>3. i + 1 # 1
    BY <2>1
  <2>4. QED
    BY <1>1, <2>2, <2>3 DEF BlockHas
<1>2. 1 \in 1 .. Len(queue) /\ queue[1] = Head(queue)
  BY DEF QueueTypeOK
<1>3. QED
  BY <1>1, <1>2 DEF BlockHas

(* A block added to it.                                                    *)
LEMMA BlockAppend ==
    ASSUME QueueTypeOK, NEW b \in Block, queue' = Append(queue, b)
    PROVE  \A id, i : BlockHas(i, id)' =>
              /\ i \in Nat
              /\ \/ BlockHas(i, id)
                 \/ i = Len(queue) + 1 /\ b.op = "store" /\ b.env.id = id
<1> SUFFICES ASSUME NEW id, NEW i, BlockHas(i, id)'
             PROVE  /\ i \in Nat
                    /\ \/ BlockHas(i, id)
                       \/ i = Len(queue) + 1 /\ b.op = "store" /\ b.env.id = id
  OBVIOUS
<1>1. i \in 1 .. Len(Append(queue, b))
  BY DEF BlockHas
<1>2. /\ i \in Nat
      /\ \/ i \in 1 .. Len(queue) /\ Append(queue, b)[i] = queue[i]
         \/ i = Len(queue) + 1 /\ Append(queue, b)[i] = b
  BY <1>1, AppendPlaces DEF QueueTypeOK
<1>3. QED
  BY <1>2 DEF BlockHas

(* An envelope taken from those that could not be stored.                  *)
LEMMA WaitTail ==
    ASSUME QueueTypeOK, notStored # <<>>, notStored' = Tail(notStored)
    PROVE  /\ \A id, i : WaitHas(i, id)' => i \in Nat /\ WaitHas(i + 1, id) /\ i + 1 # 1
           /\ WaitHas(1, Head(notStored).id)
<1>1. ASSUME NEW id, NEW i, WaitHas(i, id)'
      PROVE  i \in Nat /\ WaitHas(i + 1, id) /\ i + 1 # 1
  <2>1. i \in 1 .. Len(Tail(notStored))
    BY <1>1 DEF WaitHas
  <2>2. i \in Nat /\ i + 1 \in 1 .. Len(notStored) /\ Tail(notStored)[i] = notStored[i + 1]
    BY <2>1, TailPlaces DEF QueueTypeOK
  <2>3. i + 1 # 1
    BY <2>1
  <2>4. QED
    BY <1>1, <2>2, <2>3 DEF WaitHas
<1>2. 1 \in 1 .. Len(notStored) /\ notStored[1] = Head(notStored)
  BY DEF QueueTypeOK
<1>3. QED
  BY <1>1, <1>2 DEF WaitHas

(* An envelope added to them.                                              *)
LEMMA WaitAppend ==
    ASSUME QueueTypeOK, NEW env \in Envelope, notStored' = Append(notStored, env)
    PROVE  \A id, i : WaitHas(i, id)' =>
              i \in Nat /\ (WaitHas(i, id) \/ (i = Len(notStored) + 1 /\ id = env.id))
<1> SUFFICES ASSUME NEW id, NEW i, WaitHas(i, id)'
             PROVE  i \in Nat /\ (WaitHas(i, id) \/ (i = Len(notStored) + 1 /\ id = env.id))
  OBVIOUS
<1>1. i \in 1 .. Len(Append(notStored, env))
  BY DEF WaitHas
<1>2. /\ i \in Nat
      /\ \/ i \in 1 .. Len(notStored) /\ Append(notStored, env)[i] = notStored[i]
         \/ i = Len(notStored) + 1 /\ Append(notStored, env)[i] = env
  BY <1>1, AppendPlaces DEF QueueTypeOK
<1>3. QED
  BY <1>2 DEF WaitHas

(* A file written.                                                         *)
LEMMA FileWrite ==
    ASSUME FileTypeOK, NEW t, NEW env \in Envelope, NEW next, Write(t, env, next)
    PROVE  \A id, i : FileHas(i, id)' =>
              i \in Nat /\ (FileHas(i, id) \/ (i = fileCounter /\ id = env.id))
<1>1. /\ DOMAIN disk' = DOMAIN disk \cup {fileCounter}
      /\ \A n \in DOMAIN disk' : disk'[n] = IF n = fileCounter THEN env ELSE disk[n]
  BY DEF Write, With
<1>2. QED
  BY <1>1 DEF FileHas, FileTypeOK

-----------------------------------------------------------------------------
(* What the session's thread does between an answer and the deletion.      *)
SessionKept == pc'["session"] = pc["session"] /\ path'["session"] = path["session"]

(* An envelope handed to sendEnvelope was nowhere before.                  *)
LEMMA PlacesSend ==
    ASSUME IndInv, Places, NEW given \in EnvId, SendEnvelope(given)
    PROVE  Places'
<1> USE DEF IndInv, TypeOK
<1>1. /\ given \notin accepted /\ accepted' = accepted \cup {given}
      /\ UNCHANGED <<disk, notStored, pc, path, requests, answered>>
  BY DEF SendEnvelope, fileVars, threadVars
<1>2. \/ queue' = queue
      \/ \E b \in Block : queue' = Append(queue, b) /\ b.op = "store" /\ b.env.id = given
  <2>1. /\ Fresh(given) \in Envelope /\ Fresh(given).id = given
    BY FreshType, ContentTypes
  <2>2. \A limits, date : LET kept == RemoveRateLimitedItems(Fresh(given), limits, date)
                          IN  kept \in Envelope /\ kept.id = given
    BY <2>1, RemoveType DEF RemoveRateLimitedItems, Envelope
  <2>3. \A env \in Envelope : \A counters :
            AddClientReportTo(env, counters) \in Envelope /\ AddClientReportTo(env, counters).id = env.id
    BY ReportType DEF AddClientReportTo, Envelope
  <2>4. \A env \in Envelope : StoreBlock(env) \in Block /\ StoreBlock(env).op = "store"
                              /\ StoreBlock(env).env = env
    BY DEF StoreBlock, Block
  <2>5. \/ queue' = queue
        \/ \E limits, date, counters :
              queue' = Append(queue, StoreBlock(AddClientReportTo(
                          RemoveRateLimitedItems(Fresh(given), limits, date), counters)))
    BY DEF SendEnvelope
  <2>6. QED
    BY <2>2, <2>3, <2>4, <2>5
<1>3. \A id, i : BlockHas(i, id)' => /\ i \in Nat
                                     /\ BlockHas(i, id) \/ (i = Len(queue) + 1 /\ id = given)
  BY <1>2, BlockAppend DEF BlockHas
<1> DEFINE shift == [k \in Kinds |-> 0]
<1>4. shift \in [Kinds -> {0, 1}] /\ \A k \in Kinds, i \in Nat : i + shift[k] = i
  OBVIOUS
<1> HIDE DEF shift
<1>5. \A id, i : /\ FileHas(i, id)' <=> FileHas(i, id)
                 /\ WaitHas(i, id)' <=> WaitHas(i, id)
                 /\ FileHas(i, id) \/ WaitHas(i, id) => i \in Nat
  BY <1>1 DEF FileHas, WaitHas, FileTypeOK
<1>6. \A id, i : \A k \in Kinds : At(k, i, id)' =>
          i \in Nat /\ (At(k, i, id) \/ (k = "block" /\ i = Len(queue) + 1 /\ id = given))
  BY <1>3, <1>5 DEF At
<1>7. \A i : \A k \in Kinds : ~At(k, i, given)
  BY <1>1 DEF Places, Known
<1>8. Moved(shift, "block", Len(queue) + 1, given)
  BY <1>4, <1>6, <1>7 DEF Moved
<1>9. /\ \A r \in requests' : r.env.id # given
      /\ \A a \in answered : a[1] # given
  BY <1>1 DEF Places, Known
<1>10. \A id, i : At("file", i, id)' => At("file", i, id)
  BY <1>6 DEF Kinds
<1>11. QED
  BY <1>1, <1>4, <1>8, <1>9, <1>10, PlacesStep

(* So was one handed to storeEnvelope.                                     *)
LEMMA PlacesStore ==
    ASSUME IndInv, IndInv', Places, NEW given \in EnvId, StoreEnvelope(given)
    PROVE  Places'
<1> USE DEF IndInv, TypeOK
<1>1. /\ given \notin accepted /\ accepted' = accepted \cup {given}
      /\ UNCHANGED <<notStored, queue, path, requests, answered>>
      /\ pc'["session"] = pc["session"]
  BY DEF StoreEnvelope, queueVars, Write, ThreadTypeOK, Thread
<1>2. \A id, i : FileHas(i, id)' => /\ i \in Nat
                                    /\ FileHas(i, id) \/ (i = fileCounter /\ id = given)
  <2>1. CASE Write("app", Fresh(given), AfterStore("app"))
    <3>1. PICK env \in Envelope : env.id = given /\ Write("app", env, AfterStore("app"))
      BY <2>1, FreshType, ContentTypes
    <3>2. QED
      BY <3>1, FileWrite
  <2>2. CASE UNCHANGED fileVars
    BY <2>2 DEF FileHas, FileTypeOK, fileVars
  <2>3. QED
    BY <2>1, <2>2 DEF StoreEnvelope
<1> DEFINE shift == [k \in Kinds |-> 0]
<1>3. shift \in [Kinds -> {0, 1}] /\ \A k \in Kinds, i \in Nat : i + shift[k] = i
  OBVIOUS
<1> HIDE DEF shift
<1>4. \A id, i : /\ BlockHas(i, id)' <=> BlockHas(i, id)
                 /\ WaitHas(i, id)' <=> WaitHas(i, id)
                 /\ BlockHas(i, id) \/ WaitHas(i, id) => i \in Nat
  BY <1>1 DEF BlockHas, WaitHas
<1>5. \A id, i : \A k \in Kinds : At(k, i, id)' =>
          i \in Nat /\ (At(k, i, id) \/ (k = "file" /\ i = fileCounter /\ id = given))
  BY <1>2, <1>4 DEF At
<1>6. \A i : \A k \in Kinds : ~At(k, i, given)
  BY <1>1 DEF Places, Known
<1>7. Moved(shift, "file", fileCounter, given)
  BY <1>3, <1>5, <1>6 DEF Moved
<1>8. /\ \A r \in requests' : r.env.id # given
      /\ \A a \in answered : a[1] # given
  BY <1>1 DEF Places, Known
<1>9. \A id, i : At("file", i, id)' => id = given \/ At("file", i, id)
  BY <1>5 DEF Kinds
<1>10. QED
  BY <1>1, <1>3, <1>7, <1>8, <1>9, PlacesStep

(* The blocks of the queue move an envelope to a file or to the list.      *)
LEMMA PlacesQueue ==
    ASSUME IndInv, IndInv', Places, QueueStep
    PROVE  Places'
<1> USE DEF IndInv, TypeOK
<1>1. /\ queue # <<>> /\ queue' = Tail(queue)
      /\ UNCHANGED <<accepted, requests, answered>> /\ SessionKept
  BY DEF QueueStep, RunStoreBlock, RunStoreBlockFails, RunSendBlock, historyVars, netVars,
         SessionKept, Write, Goto, ThreadTypeOK, Thread
<1> DEFINE shift == [k \in Kinds |-> IF k = "block" THEN 1 ELSE 0]
<1>2. /\ shift \in [Kinds -> {0, 1}]
      /\ \A k \in Kinds, i \in Nat : i + shift[k] = IF k = "block" THEN i + 1 ELSE i
  OBVIOUS
<1> HIDE DEF shift
<1>3. \A id, i : BlockHas(i, id)' => i \in Nat /\ BlockHas(i + 1, id) /\ i + 1 # 1
  BY <1>1, BlockTail
<1>4. \A id, i : FileHas(i, id) \/ WaitHas(i, id) => i \in Nat
  BY DEF FileHas, WaitHas, FileTypeOK
<1>5. ASSUME NEW env \in Envelope, Head(queue).op = "store", env = Head(queue).env,
             NEW kind \in {"file", "wait"}, NEW at,
             \A id, i : /\ FileHas(i, id)' =>
                              \/ FileHas(i, id)
                              \/ kind = "file" /\ i = at /\ id = env.id
                        /\ WaitHas(i, id)' =>
                              \/ WaitHas(i, id)
                              \/ kind = "wait" /\ i = at /\ id = env.id
      PROVE  Places'
  <2>1. At("block", 1, env.id)
    BY <1>1, <1>5, BlockTail DEF At
  <2>2. \A j : \A k \in Kinds : At(k, j, env.id) => k = "block" /\ j = 1
    BY <2>1 DEF Places, OnePlace, Kinds
  <2>3. \A id, i : \A k \in Kinds : At(k, i, id)' =>
            \/ i \in Nat /\ At(k, i + shift[k], id) /\ ~(k = "block" /\ i + shift[k] = 1)
            \/ k = kind /\ i = at /\ id = env.id
    BY <1>2, <1>3, <1>4, <1>5 DEF At
  <2>4. Moved(shift, kind, at, env.id)
    BY <2>2, <2>3 DEF Moved
  <2>5. env.id \in accepted
    BY <2>1 DEF Places, Known, Kinds
  <2>6. \A r \in requests' : r.env.id # env.id
    BY <1>1, <2>1 DEF Places, RequestPlace, Kinds
  <2>7. \A a \in answered : a[1] # env.id
    BY <2>1 DEF Places, AnsweredPlace, Kinds
  <2>8. \A id, i : At("file", i, id)' => id = env.id \/ At("file", i, id)
    BY <1>5 DEF At
  <2>9. pc["session"] = "delete" => pc'["session"] = "delete" /\ path'["session"] = path["session"]
    BY <1>1 DEF SessionKept
  <2>10. QED
    BY <1>1, <1>2, <2>4, <2>5, <2>6, <2>7, <2>8, <2>9, PlacesStep
<1>6. CASE RunStoreBlock
  <2>1. PICK env \in Envelope : /\ env = Head(queue).env /\ Head(queue).op = "store"
                                /\ Write("queue", env, AfterStore("queue"))
    BY <1>6 DEF RunStoreBlock, QueueTypeOK, Block, SendBlock
  <2>2. \A id, i : FileHas(i, id)' => FileHas(i, id) \/ (i = fileCounter /\ id = env.id)
    BY <2>1, FileWrite
  <2>3. \A id, i : WaitHas(i, id)' => WaitHas(i, id)
    BY <1>6 DEF RunStoreBlock, WaitHas
  <2>4. QED
    BY <1>5, <2>1, <2>2, <2>3
<1>7. CASE RunStoreBlockFails
  <2>1. PICK env \in Envelope : /\ env = Head(queue).env /\ Head(queue).op = "store"
                                /\ notStored' = Append(notStored, env)
    BY <1>7 DEF RunStoreBlockFails, QueueTypeOK, Block, SendBlock, NotStoredAfter
  <2>2. \A id, i : WaitHas(i, id)' => WaitHas(i, id) \/ (i = Len(notStored) + 1 /\ id = env.id)
    BY <2>1, WaitAppend
  <2>3. \A id, i : FileHas(i, id)' => FileHas(i, id)
    BY <1>7 DEF RunStoreBlockFails, FileHas, fileVars
  <2>4. PICK kind, at : /\ kind = "wait" /\ kind \in {"file", "wait"}
                        /\ at = Len(notStored) + 1
    OBVIOUS
  <2>5. \A id, i : /\ FileHas(i, id)' => \/ FileHas(i, id)
                                         \/ kind = "file" /\ i = at /\ id = env.id
                   /\ WaitHas(i, id)' => \/ WaitHas(i, id)
                                         \/ kind = "wait" /\ i = at /\ id = env.id
    BY <2>2, <2>3, <2>4
  <2>6. env \in Envelope /\ Head(queue).op = "store" /\ env = Head(queue).env
    BY <2>1
  <2> HIDE DEF IndInv, TypeOK
  <2>7. QED
    BY <1>5, <2>4, <2>5, <2>6
<1>8. CASE RunSendBlock
  <2>1. UNCHANGED <<disk, notStored>>
    BY <1>8 DEF RunSendBlock, fileVars
  <2>2. \A id, i : (FileHas(i, id)' <=> FileHas(i, id)) /\ (WaitHas(i, id)' <=> WaitHas(i, id))
    BY <2>1 DEF FileHas, WaitHas
  <2>3. \A id, i : \A k \in Kinds : At(k, i, id)' => i \in Nat /\ At(k, i + shift[k], id)
    BY <1>2, <1>3, <1>4, <2>2 DEF At
  <2>4. \A id, i : At("file", i, id)' => At("file", i, id)
    BY <2>2 DEF At
  <2>5. QED
    BY <1>1, <1>2, <2>3, <2>4, PlacesShrink DEF SessionKept
<1>9. QED
  BY <1>6, <1>7, <1>8 DEF QueueStep

(* A thread that takes an envelope of the list moves it to a request or    *)
(* lets it go.                                                             *)
LEMMA PlacesTake ==
    ASSUME IndInv, Places, NEW t \in Thread, TakeNotStored(t)
    PROVE  /\ Places'
           /\ \A r \in requests' \ requests : \A a \in answered : r.env.id # a[1]
<1> USE DEF IndInv, TypeOK
<1>1. /\ notStored # <<>> /\ notStored' = Tail(notStored) /\ Process(t, Head(notStored), NoPath)
      /\ UNCHANGED <<disk, queue, accepted, answered>>
      /\ pc[t] = "pick"
  BY DEF TakeNotStored, fileVars, historyVars
<1>2. PICK env \in Envelope : env = Head(notStored)
  BY <1>1 DEF QueueTypeOK
<1>3. At("wait", 1, env.id)
  BY <1>1, <1>2, WaitTail DEF At
<1>4. \A j : \A k \in Kinds : At(k, j, env.id) => k = "wait" /\ j = 1
  BY <1>3 DEF Places, OnePlace, Kinds
<1>5. \A id, i : WaitHas(i, id)' => i \in Nat /\ WaitHas(i + 1, id) /\ i + 1 # 1
  BY <1>1, WaitTail
<1>6. env.id \in accepted /\ \A a \in answered : env.id # a[1]
  BY <1>3 DEF Places, Known, AnsweredPlace, Kinds
<1>7. \A r \in requests' \ requests : r.env.id = env.id
  BY <1>1, <1>2 DEF Process, AllItemsLimited, RequestNotBuilt, AddRequest,
                    RemoveRateLimitedItems, Envelope
<1>8. requests = {} /\ (pc["session"] = "delete" => t = "session")
  BY <1>1 DEF OneSender, Sending, Thread
<1> DEFINE shift == [k \in Kinds |-> IF k = "wait" THEN 1 ELSE 0]
<1>9. /\ shift \in [Kinds -> {0, 1}]
      /\ \A k \in Kinds, i \in Nat : i + shift[k] = IF k = "wait" THEN i + 1 ELSE i
  OBVIOUS
<1> HIDE DEF shift
<1>10. \A id, i : /\ FileHas(i, id)' <=> FileHas(i, id)
                  /\ BlockHas(i, id)' <=> BlockHas(i, id)
                  /\ FileHas(i, id) \/ BlockHas(i, id) => i \in Nat
  BY <1>1 DEF FileHas, BlockHas, FileTypeOK
<1>11. \A id, i : \A k \in Kinds : At(k, i, id)' =>
           i \in Nat /\ At(k, i + shift[k], id) /\ ~(k = "wait" /\ i + shift[k] = 1)
  BY <1>5, <1>9, <1>10 DEF At
<1>12. Moved(shift, "wait", 0, env.id)
  BY <1>4, <1>11 DEF Moved
<1>13. OnePlace'
  BY <1>9, <1>12, OnePlaceStep DEF Places
<1>14. \A i : \A k \in Kinds : ~At(k, i, env.id)'
  BY <1>4, <1>11
<1>15. \A id, i : \A k \in Kinds : At(k, i, id)' => \E j : At(k, j, id)
  BY <1>11
<1>16. Known'
  BY <1>1, <1>6, <1>7, <1>8, <1>15 DEF Places, Known
<1>17. RequestPlace'
  BY <1>7, <1>8, <1>14 DEF RequestPlace
<1>18. \A id, i : At("file", i, id)' => At("file", i, id)
  BY <1>10 DEF At
<1>19. AnsweredPlace'
  <2> SUFFICES ASSUME NEW a \in answered
               PROVE  /\ \A i : \A k \in Kinds : ~At(k, i, a[1])'
                      /\ \A r \in requests' : r.env.id # a[1]
    BY <1>1 DEF AnsweredPlace
  <2>1. pc["session"] # "delete"
    BY <1>1, <1>8
  <2>2. \A i : \A k \in Kinds : ~At(k, i, a[1])'
    BY <1>15, <2>1 DEF Places, AnsweredPlace
  <2>3. QED
    BY <1>6, <1>7, <1>8, <2>2
<1>20. QED
  BY <1>6, <1>7, <1>13, <1>16, <1>17, <1>19 DEF Places

(* A thread that reads a file that was answered for would be a second      *)
(* sender.                                                                 *)
LEMMA PlacesLoad ==
    ASSUME IndInv, Places, NEW t \in Thread, LoadEnvelope(t)
    PROVE  /\ Places'
           /\ \A r \in requests' \ requests : \A a \in answered : r.env.id # a[1]
<1> USE DEF IndInv, TypeOK
<1>1. /\ path[t] \in DOMAIN disk /\ Process(t, disk[path[t]], path[t])
      /\ UNCHANGED <<disk, notStored, queue, accepted, answered>>
      /\ pc[t] = "load"
  BY DEF LoadEnvelope, fileVars, queueVars, historyVars
<1>2. PICK env \in Envelope, name \in Nat : env = disk[name] /\ name = path[t]
  BY <1>1 DEF FileTypeOK, ThreadTypeOK
<1>3. At("file", name, env.id)
  BY <1>1, <1>2 DEF At, FileHas
<1>4. \A j : \A k \in Kinds : At(k, j, env.id) => k = "file" /\ j = name
  BY <1>3 DEF Places, OnePlace, Kinds
<1>5. requests = {} /\ pc["session"] # "delete"
  BY <1>1 DEF OneSender, Sending, Thread
<1>6. env.id \in accepted /\ \A a \in answered : env.id # a[1]
  BY <1>3, <1>5 DEF Places, Known, AnsweredPlace, Kinds
<1>7. \A r \in requests' \ requests : r.env.id = env.id /\ r.path = name
  BY <1>1, <1>2 DEF Process, AllItemsLimited, RequestNotBuilt, AddRequest,
                    RemoveRateLimitedItems, Envelope
<1>8. \A id, i : \A k \in Kinds : At(k, i, id)' <=> At(k, i, id)
  BY <1>1 DEF At, FileHas, WaitHas, BlockHas
<1>9. OnePlace'
  BY <1>8 DEF Places, OnePlace
<1>10. Known'
  BY <1>1, <1>5, <1>6, <1>7, <1>8 DEF Places, Known
<1>11. RequestPlace'
  BY <1>4, <1>5, <1>7, <1>8 DEF RequestPlace
<1>12. AnsweredPlace'
  <2> SUFFICES ASSUME NEW a \in answered
               PROVE  /\ \A i : \A k \in Kinds : ~At(k, i, a[1])'
                      /\ \A r \in requests' : r.env.id # a[1]
    BY <1>1 DEF AnsweredPlace
  <2>1. \A i : \A k \in Kinds : ~At(k, i, a[1])'
    BY <1>5, <1>8 DEF Places, AnsweredPlace
  <2>2. QED
    BY <1>5, <1>6, <1>7, <2>1
<1>13. QED
  BY <1>6, <1>7, <1>9, <1>10, <1>11, <1>12 DEF Places

(* After an answer only the file of the request may hold the envelope, and *)
(* the session's thread goes on to delete it.                              *)
LEMMA PlacesRequest ==
    ASSUME IndInv, Places, NEW r \in requests, NEW o \in Outcomes, CompleteRequest(r, o)
    PROVE  Places'
<1> USE DEF IndInv, TypeOK
<1>1. /\ requests' = requests \ {r}
      /\ UNCHANGED <<disk, notStored, queue, accepted>>
      /\ pc["session"] = "idle"
      /\ \/ answered' = answered
         \/ /\ answered' = answered \cup ItemsOf(r.env)
            /\ Goto("session", "delete", r.path)
  BY DEF CompleteRequest, fileVars, queueVars
<1>2. requests' = {}
  BY <1>1 DEF OneSender
<1>3. \A id, i : \A k \in Kinds : At(k, i, id)' <=> At(k, i, id)
  BY <1>1 DEF At, FileHas, WaitHas, BlockHas
<1>4. OnePlace'
  BY <1>3 DEF Places, OnePlace
<1>5. \A a \in ItemsOf(r.env) : a[1] = r.env.id
  BY DEF ItemsOf
<1>6. Known'
  BY <1>1, <1>2, <1>3, <1>5 DEF Places, Known
<1>7. RequestPlace'
  BY <1>2 DEF RequestPlace
<1>8. AnsweredPlace'
  <2> SUFFICES ASSUME NEW a \in answered', NEW i, NEW k \in Kinds, At(k, i, a[1])'
               PROVE  k = "file" /\ pc'["session"] = "delete" /\ path'["session"] = i
    BY <1>2 DEF AnsweredPlace
  <2>1. CASE a \in answered
    BY <1>1, <1>3, <2>1 DEF Places, AnsweredPlace
  <2>2. CASE a \notin answered
    <3>1. /\ a[1] = r.env.id
          /\ pc'["session"] = "delete" /\ path'["session"] = r.path
      BY <1>1, <1>5, <2>2 DEF Goto, ThreadTypeOK, Thread
    <3>2. At(k, i, r.env.id)
      BY <1>3, <3>1
    <3>3. k = "file" /\ i = r.path
      BY <3>2 DEF Places, RequestPlace
    <3>4. QED
      BY <3>1, <3>3
  <2>3. QED
    BY <2>1, <2>2
<1>9. QED
  BY <1>4, <1>6, <1>7, <1>8 DEF Places

(* The deletion after an answer, and any other.                            *)
LEMMA PlacesDelete ==
    ASSUME IndInv, IndInv', PathsAreOld, Places, NEW t \in Thread, DeleteEnvelopeAndSendNext(t)
    PROVE  Places'
<1> USE DEF IndInv, TypeOK
<1>1. /\ pc[t] = "delete" /\ disk' = DiskAfterDelete(path[t]) /\ Goto(t, "idle", NoPath)
      /\ UNCHANGED <<notStored, queue, accepted, requests, answered>>
  BY DEF DeleteEnvelopeAndSendNext, netVars, historyVars
<1>2. DOMAIN disk' = DOMAIN disk \ {path[t]} /\ \A n \in DOMAIN disk' : disk'[n] = disk[n]
  <2>1. CASE path[t] = NoPath
    BY <1>1, <2>1 DEF DiskAfterDelete, PathsAreOld
  <2>2. CASE path[t] # NoPath
    BY <1>1, <2>2 DEF DiskAfterDelete, Without
  <2>3. QED
    BY <2>1, <2>2
<1>3. \A id, i : FileHas(i, id)' => FileHas(i, id) /\ i # path[t]
  BY <1>2 DEF FileHas
<1>4. \A id, i : BlockHas(i, id)' => BlockHas(i, id)
  BY <1>1 DEF BlockHas
<1>5. CASE t = "session"
  <2>1. \A id, i : i = path["session"] => ~FileHas(i, id)'
    BY <1>3, <1>5
  <2>2. QED
    BY <1>1, <1>3, <1>4, <2>1, PlacesFrame
<1>6. CASE t # "session"
  <2>1. pc'["session"] = pc["session"] /\ path'["session"] = path["session"]
    BY <1>1, <1>6 DEF Goto, ThreadTypeOK, Thread
  <2>2. QED
    BY <1>1, <1>3, <1>4, <2>1, PlacesFrame
<1>7. QED
  BY <1>5, <1>6

(* The other steps leave the lists alone and at most remove a file.        *)
LEMMA PlacesSender ==
    ASSUME IndInv, IndInv', PathsAreOld, Places, NEW t \in Thread, SenderStep(t)
    PROVE  Places'
<1> USE DEF IndInv, TypeOK
<1>1. CASE TakeNotStored(t)
  BY <1>1, PlacesTake
<1>2. CASE LoadEnvelope(t)
  BY <1>2, PlacesLoad
<1>3. CASE DeleteEnvelopeAndSendNext(t)
  BY <1>3, PlacesDelete
<1>4. CASE \E ok \in BOOLEAN : Evict(t, ok)
  <2>1. PICK ok \in BOOLEAN : Evict(t, ok)
    BY <1>4
  <2>2. /\ UNCHANGED <<notStored, queue, accepted, requests, answered, path>>
        /\ disk' = Without(MigrateSessionInit(disk, ok), Oldest(disk))
        /\ pc[t] = "evict"
    BY <2>1 DEF Evict, queueVars, netVars, historyVars
  <2>3. \A n \in DOMAIN disk' : n \in DOMAIN disk /\ disk'[n].id = disk[n].id
    BY <2>2 DEF MigrateSessionInit, Without, FileTypeOK, Envelope
  <2>4. \A id, i : FileHas(i, id)' => FileHas(i, id)
    BY <2>3 DEF FileHas
  <2>5. \A id, i : BlockHas(i, id)' => BlockHas(i, id)
    BY <2>2 DEF BlockHas
  <2>6. pc["session"] = "delete" => pc'["session"] = "delete" /\ path'["session"] = path["session"]
    BY <2>1, <2>2 DEF Evict, ThreadTypeOK, Thread
  <2>7. QED
    BY <2>2, <2>4, <2>5, <2>6, PlacesFrame
<1>5. CASE AlreadySending(t) \/ StartSending(t) \/ NothingNotStored(t) \/ ListEnvelopes(t)
             \/ FileIsGone(t) \/ NotDeserializable(t) \/ FinishedSending(t)
  <2>1. UNCHANGED <<disk, notStored, queue, accepted, requests, answered>>
    BY <1>5 DEF AlreadySending, StartSending, NothingNotStored, ListEnvelopes, FileIsGone,
                NotDeserializable, FinishedSending, fileVars, queueVars, netVars, historyVars
  <2>2. pc["session"] = "delete" => pc'["session"] = "delete" /\ path'["session"] = path["session"]
    BY <1>5 DEF AlreadySending, StartSending, NothingNotStored, ListEnvelopes, FileIsGone,
                NotDeserializable, FinishedSending, Goto, ThreadTypeOK, Thread
  <2>3. QED
    BY <2>1, <2>2, PlacesFrame DEF FileHas, BlockHas
<1>6. QED
  BY <1>1, <1>2, <1>3, <1>4, <1>5 DEF SenderStep

(* Every step of a living process keeps every envelope in one place.       *)
LEMMA PlacesNext ==
    ASSUME IndInv, IndInv', PathsAreOld, Places, [Next]_vars, crashes' = crashes
    PROVE  Places'
<1> USE DEF IndInv, TypeOK
<1>1. CASE \E id \in EnvId : SendEnvelope(id) \/ StoreEnvelope(id)
  BY <1>1, PlacesSend, PlacesStore
<1>2. CASE QueueStep
  BY <1>2, PlacesQueue
<1>3. CASE RequestStep
  BY <1>3, PlacesRequest DEF RequestStep
<1>4. CASE \E t \in Thread : SenderStep(t)
  BY <1>4, PlacesSender
<1>5. CASE Crash
  BY <1>5 DEF Crash, HistoryTypeOK
<1>6. CASE \E n \in OldFiles : DeleteOldEnvelope(n)
  <2>1. /\ UNCHANGED <<notStored, queue, accepted, requests, answered, pc, path>>
        /\ \A n \in DOMAIN disk' : n \in DOMAIN disk /\ disk'[n] = disk[n]
    BY <1>6 DEF DeleteOldEnvelope, Without, queueVars, netVars, historyVars, threadVars
  <2>2. QED
    BY <2>1, PlacesFrame DEF FileHas, BlockHas
<1>7. CASE TimerFires \/ \E f \in Flusher : FlushDispatch(f)
  <2>1. /\ UNCHANGED <<disk, notStored, accepted, requests, answered, pc, path>>
        /\ queue' = Append(queue, SendBlock)
    BY <1>7 DEF TimerFires, FlushDispatch, QueueAfterFlush, fileVars, netVars, historyVars,
                threadVars
  <2>2. \A id, i : BlockHas(i, id)' => BlockHas(i, id)
    BY <2>1, BlockAppend DEF Block, SendBlock
  <2>3. QED
    BY <2>1, <2>2, PlacesFrame DEF FileHas
<1>8. CASE ConnectivityChanged
  <2>1. /\ UNCHANGED <<disk, notStored, queue, accepted, requests, answered>>
        /\ Goto("reach", "try", NoPath)
    BY <1>8 DEF ConnectivityChanged, fileVars, queueVars, netVars
  <2>2. pc'["session"] = pc["session"] /\ path'["session"] = path["session"]
    BY <2>1 DEF Goto, ThreadTypeOK, Thread
  <2>3. QED
    BY <2>1, <2>2, PlacesFrame DEF FileHas, BlockHas
<1>9. CASE \/ \E f \in Flusher : FlushRefused(f) \/ FlushBegin(f) \/ FlushTimesOut(f)
           \/ SpotlightDone \/ Tick \/ Rest \/ UNCHANGED vars
  <2>1. UNCHANGED <<disk, notStored, queue, accepted, requests, answered, pc, path>>
    BY <1>9 DEF FlushRefused, FlushBegin, FlushTimesOut, SpotlightDone, Tick, Rest, vars,
                fileVars, queueVars, netVars, historyVars, threadVars
  <2>2. QED
    BY <2>1, PlacesFrame DEF FileHas, BlockHas
<1>10. QED
  BY <1>1, <1>2, <1>3, <1>4, <1>5, <1>6, <1>7, <1>8, <1>9 DEF Next, CallerStep

(* At the first launch every envelope is in its file.                      *)
LEMMA PlacesInit == Init => Places
<1> SUFFICES ASSUME Init PROVE Places
  OBVIOUS
<1>1. /\ disk = Cached /\ notStored = <<>> /\ queue = <<>> /\ requests = {} /\ answered = {}
      /\ accepted = {Cached[n].id : n \in DOMAIN Cached}
  BY DEF Init
<1>2. \A id, i : ~WaitHas(i, id) /\ ~BlockHas(i, id)
  BY <1>1 DEF WaitHas, BlockHas
<1>3. \A id, i : \A k \in Kinds : At(k, i, id) => k = "file" /\ FileHas(i, id)
  BY <1>2 DEF At
<1>4. \A id, i, j : FileHas(i, id) /\ FileHas(j, id) => i = j
  BY <1>1, TransportAssumption DEF FileHas
<1>5. \A id, i : FileHas(i, id) => id \in accepted
  BY <1>1 DEF FileHas
<1>6. QED
  BY <1>1, <1>3, <1>4, <1>5 DEF Places, OnePlace, Known, RequestPlace, AnsweredPlace

(* A new request is made of an envelope that was not answered for.         *)
LEMMA OnceNext ==
    ASSUME IndInv, IndInv', PathsAreOld, Places, [Next]_vars
    PROVE  \A r \in requests' \ requests : ItemsOf(r.env) \cap answered = {}
<1>1. ASSUME NEW r, \A a \in answered : r.env.id # a[1]
      PROVE  ItemsOf(r.env) \cap answered = {}
  BY <1>1 DEF ItemsOf
<1>2. CASE \E t \in Thread : TakeNotStored(t) \/ LoadEnvelope(t)
  BY <1>1, <1>2, PlacesTake, PlacesLoad
<1>3. CASE ~ \E t \in Thread : TakeNotStored(t) \/ LoadEnvelope(t)
  <2>1. requests' \subseteq requests
    BY <1>3 DEF Next, CallerStep, SenderStep, AlreadySending, StartSending,
          NothingNotStored, ListEnvelopes, FileIsGone, NotDeserializable,
          DeleteEnvelopeAndSendNext, FinishedSending, Evict, SendEnvelope, StoreEnvelope,
          FlushRefused, FlushBegin, FlushTimesOut, FlushDispatch, DeleteOldEnvelope, QueueStep,
          RunStoreBlock, RunStoreBlockFails, RunSendBlock, TimerFires, RequestStep,
          CompleteRequest, ConnectivityChanged, SpotlightDone, Tick, Crash, Launched, Rest,
          vars, netVars
  <2>2. QED
    BY <2>1
<1>4. QED
  BY <1>2, <1>3

(* The number of crashes only grows.                                       *)
LEMMA CrashesGrow ==
    ASSUME HistoryTypeOK, [Next]_vars, crashes' = 0
    PROVE  crashes' = crashes
<1>1. CASE Crash
  BY <1>1 DEF Crash, HistoryTypeOK
<1>2. CASE ~Crash
  BY <1>2 DEF Next, CallerStep, SenderStep, AlreadySending, StartSending,
        NothingNotStored, ListEnvelopes, FileIsGone, NotDeserializable, TakeNotStored,
        LoadEnvelope, DeleteEnvelopeAndSendNext, FinishedSending, Evict, SendEnvelope,
        StoreEnvelope, FlushRefused, FlushBegin, FlushTimesOut, FlushDispatch,
        DeleteOldEnvelope, QueueStep, RunStoreBlock, RunStoreBlockFails, RunSendBlock,
        TimerFires, RequestStep, CompleteRequest, ConnectivityChanged, SpotlightDone, Tick,
        Rest, vars, historyVars
<1>3. QED
  BY <1>1, <1>2

-----------------------------------------------------------------------------
(* The inits come first.  SeenInit, LostInit: the server saw the init of   *)
(* the session, or its loss was counted.                                   *)
LostInit(s) ==
    \E id \in EnvId : Content[id].sid = s /\ <<id, "session", "cache_overflow">> \in recorded

SeenInit(s) == \E i \in 1 .. Len(wire) : wire[i].sid = s /\ wire[i].init

Led(s) == SeenInit(s) \/ LostInit(s)

Updates(env, s) == "session" \in env.types /\ Content[env.id].sid = s

FileIn(dir, n, s) == n \in DOMAIN dir /\ Updates(dir[n], s)
BlockOf(i, s) == i \in 1 .. Len(queue) /\ queue[i].op = "store" /\ Updates(queue[i].env, s)

(* The updates on their way come after their init, in the order of the     *)
(* files and, behind them, of the blocks.                                  *)
FilesLed ==
    \A s \in Sid : \A n \in DOMAIN disk : FileIn(disk, n, s) =>
        Led(s) \/ disk[n].init \/ \E m \in DOMAIN disk : m < n /\ FileIn(disk, m, s)

BlocksLed ==
    \A s \in Sid : \A i \in 1 .. Len(queue) : BlockOf(i, s) =>
        \/ Led(s) \/ queue[i].env.init
        \/ \E n \in DOMAIN disk : FileIn(disk, n, s)
        \/ \E j \in 1 .. i - 1 : BlockOf(j, s)

StartedLed ==
    \A id \in accepted : "session" \in Content[id].types =>
        \/ Led(Content[id].sid)
        \/ \E n \in DOMAIN disk : FileIn(disk, n, Content[id].sid)
        \/ \E j \in 1 .. Len(queue) : BlockOf(j, Content[id].sid)

(* What is read is the oldest file, or is gone.                            *)
LoadsOldest ==
    \A t \in Thread : pc[t] = "load" => \A m \in DOMAIN disk : path[t] <= m

(* What is sent, and what is deleted.                                      *)
RequestLed ==
    \A r \in requests :
        /\ \A s \in Sid : Updates(r.env, s) => r.env.init \/ Led(s)
        /\ \A s \in Sid : FileIn(disk, r.path, s) => Updates(r.env, s)

DeletedLed ==
    \A t \in Thread : pc[t] = "delete" => \A s \in Sid : FileIn(disk, path[t], s) => Led(s)

OrphansLost == \A i \in 1 .. Len(wire) : Orphan(i) => LostInit(wire[i].sid)

Unlimited == notStored = <<>> /\ rateLimits["session"] = 0 /\ rateLimits["all"] = 0

WireTyped == wire \in Seq([sid: Sid, init: BOOLEAN])

(* Where the updates are, and where they go.                               *)
OrderLed == FilesLed /\ BlocksLed /\ StartedLed

SendingLed ==
    /\ LoadsOldest /\ RequestLed /\ DeletedLed /\ OrphansLost /\ Unlimited /\ WireTyped

LedInv == OrderLed /\ SendingLed

(* What was led stays led.                                                 *)
LEMMA LedStays ==
    ASSUME WireTyped, recorded \subseteq recorded',
           \/ wire' = wire
           \/ \E e \in [sid: Sid, init: BOOLEAN] : wire' = Append(wire, e)
    PROVE  \A s \in Sid : Led(s) => Led(s)'
<1>1. \A i \in 1 .. Len(wire) : i \in 1 .. Len(wire') /\ wire'[i] = wire[i]
  <2>1. CASE wire' = wire
    BY <2>1
  <2>2. ASSUME NEW e \in [sid: Sid, init: BOOLEAN], wire' = Append(wire, e)
        PROVE  \A i \in 1 .. Len(wire) : i \in 1 .. Len(wire') /\ wire'[i] = wire[i]
    BY <2>2 DEF WireTyped
  <2>3. QED
    BY <2>1, <2>2
<1>2. \A s \in Sid : SeenInit(s) => SeenInit(s)'
  BY <1>1 DEF SeenInit
<1>3. \A s \in Sid : LostInit(s) => LostInit(s)'
  BY DEF LostInit
<1>4. QED
  BY <1>2, <1>3 DEF Led

(* Files that go, of sessions that are led or whose next file has the init *)
(* now.                                                                    *)
Headed(dir, s) ==
    \E k \in DOMAIN dir :
        /\ Updates(dir[k], s) /\ dir[k].init
        /\ \A m \in DOMAIN dir : Updates(dir[m], s) => k <= m

LEMMA LedShrinks ==
    ASSUME OrderLed, FileTypeOK, \A s \in Sid : Led(s) => Led(s)', UNCHANGED queue,
           accepted' \subseteq EnvId,
           \A id \in accepted' \ accepted : "session" \notin Content[id].types,
           DOMAIN disk' \subseteq DOMAIN disk,
           \A n \in DOMAIN disk' : /\ disk'[n].id = disk[n].id /\ disk'[n].types = disk[n].types
                                   /\ disk[n].init => disk'[n].init,
           \A s \in Sid : (\E n \in DOMAIN disk \ DOMAIN disk' : FileIn(disk, n, s))
               => Led(s)' \/ Headed(disk', s)
    PROVE  OrderLed'
<1>1. \A n \in DOMAIN disk', s \in Sid : FileIn(disk', n, s) <=> FileIn(disk, n, s)
  BY DEF FileIn, Updates
<1>2. \A n, s : FileIn(disk', n, s) => n \in DOMAIN disk'
  BY DEF FileIn
<1>3. \A i, s : BlockOf(i, s)' <=> BlockOf(i, s)
  BY DEF BlockOf
<1>4. ASSUME NEW s \in Sid, NEW n \in DOMAIN disk, FileIn(disk, n, s)
      PROVE  Led(s)' \/ \E m \in DOMAIN disk' : FileIn(disk', m, s)
  <2>1. CASE n \in DOMAIN disk'
    BY <1>1, <1>4, <2>1
  <2>2. CASE n \notin DOMAIN disk'
    <3>1. Led(s)' \/ Headed(disk', s)
      BY <1>4, <2>2
    <3>2. Headed(disk', s) => \E m \in DOMAIN disk' : FileIn(disk', m, s)
      BY DEF Headed, FileIn
    <3>3. QED
      BY <3>1, <3>2
  <2>3. QED
    BY <2>1, <2>2
<1>5. FilesLed'
  <2> SUFFICES ASSUME NEW s \in Sid, NEW n \in DOMAIN disk', FileIn(disk', n, s)
               PROVE  Led(s)' \/ disk'[n].init \/ \E m \in DOMAIN disk' : m < n /\ FileIn(disk', m, s)
    BY DEF FilesLed
  <2>1. CASE Headed(disk', s)
    <3>1. PICK k \in DOMAIN disk' : Updates(disk'[k], s) /\ disk'[k].init
                                    /\ \A m \in DOMAIN disk' : Updates(disk'[m], s) => k <= m
      BY <2>1 DEF Headed
    <3>2. k <= n /\ FileIn(disk', k, s) /\ k \in Nat /\ n \in Nat
      BY <3>1 DEF FileIn, FileTypeOK
    <3>3. k = n \/ k < n
      BY <3>2
    <3>4. QED
      BY <3>1, <3>2, <3>3
  <2>2. CASE ~Headed(disk', s)
    <3>1. FileIn(disk, n, s) /\ n \in DOMAIN disk
      BY <1>1
    <3>2. Led(s) \/ disk[n].init \/ \E m \in DOMAIN disk : m < n /\ FileIn(disk, m, s)
      BY <3>1 DEF OrderLed, FilesLed
    <3>3. ASSUME NEW m \in DOMAIN disk, m < n, FileIn(disk, m, s)
          PROVE  Led(s)' \/ \E l \in DOMAIN disk' : l < n /\ FileIn(disk', l, s)
      <4>1. m \in DOMAIN disk' \/ Led(s)'
        BY <2>2, <3>3
      <4>2. QED
        BY <1>1, <3>3, <4>1
    <3>4. QED
      BY <3>2, <3>3
  <2>3. QED
    BY <2>1, <2>2
<1>6. BlocksLed'
  <2> SUFFICES ASSUME NEW s \in Sid, NEW i \in 1 .. Len(queue'), BlockOf(i, s)'
               PROVE  \/ Led(s)' \/ queue'[i].env.init
                      \/ \E n \in DOMAIN disk' : FileIn(disk', n, s)
                      \/ \E j \in 1 .. i - 1 : BlockOf(j, s)'
    BY DEF BlocksLed
  <2>1. \/ Led(s) \/ queue[i].env.init
        \/ \E n \in DOMAIN disk : FileIn(disk, n, s)
        \/ \E j \in 1 .. i - 1 : BlockOf(j, s)
    BY <1>3 DEF OrderLed, BlocksLed
  <2>2. QED
    BY <1>3, <1>4, <2>1
<1>7. StartedLed'
  <2> SUFFICES ASSUME NEW id \in accepted', "session" \in Content[id].types, NEW s, s = Content[id].sid
               PROVE  \/ Led(s)'
                      \/ \E n \in DOMAIN disk' : FileIn(disk', n, s)
                      \/ \E j \in 1 .. Len(queue') : BlockOf(j, s)'
    BY DEF StartedLed
  <2>1. \/ Led(s)
        \/ \E n \in DOMAIN disk : FileIn(disk, n, s)
        \/ \E j \in 1 .. Len(queue) : BlockOf(j, s)
    BY DEF OrderLed, StartedLed
  <2>2. s \in Sid
    BY ContentAssumption DEF Contents
  <2>3. QED
    BY <1>3, <1>4, <2>1, <2>2
<1>8. QED
  BY <1>5, <1>6, <1>7 DEF OrderLed

(* What is read, sent and deleted was so before, or is led.                *)
LEMMA LedPaths ==
    ASSUME SendingLed, FileTypeOK, ThreadTypeOK, NetTypeOK, PathsAreOld,
           \A s \in Sid : Led(s) => Led(s)',
           \A n \in DOMAIN disk' : n \in DOMAIN disk \/ n = fileCounter,
           \A n \in DOMAIN disk : \A s \in Sid : FileIn(disk', n, s) => FileIn(disk, n, s),
           \A t \in Thread : pc'[t] = "load" =>
               \/ pc[t] = "load" /\ path'[t] = path[t]
               \/ \A m \in DOMAIN disk' : path'[t] <= m,
           \A r \in requests' : r \in requests \/
               \A s \in Sid : /\ Updates(r.env, s) => r.env.init \/ Led(s)'
                              /\ FileIn(disk', r.path, s) => Updates(r.env, s),
           \A t \in Thread : pc'[t] = "delete" =>
               \/ pc[t] = "delete" /\ path'[t] = path[t]
               \/ \A s \in Sid : FileIn(disk', path'[t], s) => Led(s)'
    PROVE  LoadsOldest' /\ RequestLed' /\ DeletedLed'
<1> USE DEF SendingLed
<1>1. LoadsOldest'
  <2> SUFFICES ASSUME NEW t \in Thread, pc'[t] = "load", NEW m \in DOMAIN disk'
               PROVE  path'[t] <= m
    BY DEF LoadsOldest
  <2>1. CASE pc[t] = "load" /\ path'[t] = path[t] /\ m \in DOMAIN disk
    BY <2>1 DEF LoadsOldest
  <2>2. CASE path'[t] = path[t] /\ m = fileCounter
    BY <2>2 DEF PathsAreOld, ThreadTypeOK, FileTypeOK
  <2>3. QED
    BY <2>1, <2>2
<1>2. ASSUME NEW n, n < fileCounter, NEW s \in Sid, FileIn(disk', n, s)
      PROVE  FileIn(disk, n, s)
  <2>1. n \in DOMAIN disk'
    BY <1>2 DEF FileIn
  <2>2. n # fileCounter
    BY <1>2 DEF FileTypeOK
  <2>3. QED
    BY <1>2, <2>1, <2>2
<1>3. RequestLed'
  <2> SUFFICES ASSUME NEW r \in requests', NEW s \in Sid
               PROVE  /\ Updates(r.env, s) => r.env.init \/ Led(s)'
                      /\ FileIn(disk', r.path, s) => Updates(r.env, s)
    BY DEF RequestLed
  <2>1. CASE r \in requests
    <3>1. r.path < fileCounter
      BY <2>1 DEF PathsAreOld
    <3>2. QED
      BY <1>2, <2>1, <3>1 DEF RequestLed
  <2>2. QED
    BY <2>1
<1>4. DeletedLed'
  <2> SUFFICES ASSUME NEW t \in Thread, pc'[t] = "delete", NEW s \in Sid, FileIn(disk', path'[t], s)
               PROVE  Led(s)'
    BY DEF DeletedLed
  <2>1. CASE pc[t] = "delete" /\ path'[t] = path[t]
    <3>1. path[t] < fileCounter
      BY DEF PathsAreOld
    <3>2. QED
      BY <1>2, <2>1, <3>1 DEF DeletedLed
  <2>2. QED
    BY <2>1
<1>5. QED
  BY <1>1, <1>3, <1>4

(* A step after which nothing else is read, sent or deleted.               *)
LEMMA LedRest ==
    ASSUME SendingLed, FileTypeOK, ThreadTypeOK, NetTypeOK, PathsAreOld, recorded \subseteq recorded',
           UNCHANGED <<wire, notStored, rateLimits>>,
           \A n \in DOMAIN disk' : n \in DOMAIN disk \/ n = fileCounter,
           \A n \in DOMAIN disk : \A s \in Sid : FileIn(disk', n, s) => FileIn(disk, n, s),
           requests' \subseteq requests,
           \A t \in Thread : pc'[t] \in {"load", "delete"} => pc'[t] = pc[t] /\ path'[t] = path[t]
    PROVE  SendingLed' /\ \A s \in Sid : Led(s) => Led(s)'
<1>1. \A s \in Sid : Led(s) => Led(s)'
  BY LedStays DEF SendingLed
<1>2. LoadsOldest' /\ RequestLed' /\ DeletedLed'
  BY <1>1, LedPaths
<1>3. OrphansLost'
  BY DEF SendingLed, OrphansLost, Orphan, LostInit
<1>4. Unlimited' /\ WireTyped'
  BY DEF SendingLed, Unlimited, WireTyped
<1>5. QED
  BY <1>1, <1>2, <1>3, <1>4 DEF SendingLed

(* A new file is the last.                                                 *)
LEMMA LastFile ==
    ASSUME FileTypeOK, Monitor, NEW env, NEW dir, dir = With(disk, fileCounter, env)
    PROVE  /\ \A n \in DOMAIN disk : n \in DOMAIN dir /\ dir[n] = disk[n] /\ n < fileCounter
           /\ \A n \in DOMAIN dir : n \in DOMAIN disk \/ (n = fileCounter /\ dir[n] = env)
<1>1. \A n \in DOMAIN disk : n < fileCounter
  BY DEF Monitor
<1>2. \A n \in DOMAIN disk : n # fileCounter
  BY <1>1 DEF FileTypeOK
<1>3. QED
  BY <1>1, <1>2 DEF With

(* A block at the end of the queue.                                        *)
LEMMA LedAppend ==
    ASSUME OrderLed, HistoryTypeOK, QueueTypeOK, \A s \in Sid : Led(s) => Led(s)',
           UNCHANGED disk, NEW b \in Block, queue' = Append(queue, b),
           \A s \in Sid : b.op = "store" /\ Updates(b.env, s) =>
               \/ b.env.init \/ Led(s)
               \/ \E n \in DOMAIN disk : FileIn(disk, n, s)
               \/ \E j \in 1 .. Len(queue) : BlockOf(j, s),
           accepted' \subseteq EnvId,
           \A id \in accepted' \ accepted : "session" \in Content[id].types =>
               b.op = "store" /\ Updates(b.env, Content[id].sid)
    PROVE  OrderLed'
<1>1. /\ Len(queue) \in Nat /\ Len(queue') = Len(queue) + 1 /\ queue'[Len(queue) + 1] = b
      /\ \A i \in 1 .. Len(queue) : queue'[i] = queue[i] /\ i \in 1 .. Len(queue')
  BY DEF QueueTypeOK
<1>2. \A i \in 1 .. Len(queue) : \A s : BlockOf(i, s)' <=> BlockOf(i, s)
  BY <1>1 DEF BlockOf
<1>3. FilesLed'
  BY DEF OrderLed, FilesLed
<1>4. BlocksLed'
  <2> SUFFICES ASSUME NEW s \in Sid, NEW i \in 1 .. Len(queue'), BlockOf(i, s)'
               PROVE  \/ Led(s)' \/ queue'[i].env.init
                      \/ \E n \in DOMAIN disk : FileIn(disk, n, s)
                      \/ \E j \in 1 .. i - 1 : BlockOf(j, s)'
    BY DEF BlocksLed
  <2>1. CASE i \in 1 .. Len(queue)
    <3>1. \/ Led(s) \/ queue[i].env.init
          \/ \E n \in DOMAIN disk : FileIn(disk, n, s)
          \/ \E j \in 1 .. i - 1 : BlockOf(j, s)
      BY <1>2, <2>1 DEF OrderLed, BlocksLed
    <3>2. \A j \in 1 .. i - 1 : j \in 1 .. Len(queue)
      BY <1>1, <2>1
    <3>3. QED
      BY <1>1, <1>2, <2>1, <3>1, <3>2
  <2>2. CASE i = Len(queue) + 1
    <3>1. b.op = "store" /\ Updates(b.env, s)
      BY <1>1, <2>2 DEF BlockOf
    <3>2. 1 .. i - 1 = 1 .. Len(queue)
      BY <1>1, <2>2
    <3>3. QED
      BY <1>1, <1>2, <2>2, <3>1, <3>2
  <2>3. i \in 1 .. Len(queue) \/ i = Len(queue) + 1
    BY <1>1
  <2>4. QED
    BY <2>1, <2>2, <2>3
<1>5. StartedLed'
  <2> SUFFICES ASSUME NEW id \in accepted', "session" \in Content[id].types, NEW s, s = Content[id].sid
               PROVE  \/ Led(s)'
                      \/ \E n \in DOMAIN disk : FileIn(disk, n, s)
                      \/ \E j \in 1 .. Len(queue') : BlockOf(j, s)'
    BY DEF StartedLed
  <2>1. s \in Sid
    BY ContentAssumption DEF Contents
  <2>2. CASE id \in accepted
    <3>1. \/ Led(s)
          \/ \E n \in DOMAIN disk : FileIn(disk, n, s)
          \/ \E j \in 1 .. Len(queue) : BlockOf(j, s)
      BY <2>2 DEF OrderLed, StartedLed
    <3>2. QED
      BY <1>1, <1>2, <2>1, <3>1
  <2>3. CASE id \notin accepted
    <3>1. b.op = "store" /\ Updates(b.env, s)
      BY <2>3
    <3>2. PICK k \in 1 .. Len(queue') : queue'[k] = b
      BY <1>1
    <3>3. BlockOf(k, s)'
      BY <3>1, <3>2 DEF BlockOf
    <3>4. QED
      BY <3>2, <3>3
  <2>4. QED
    BY <2>2, <2>3
<1>6. QED
  BY <1>3, <1>4, <1>5 DEF OrderLed

(* The first block of the queue, with or without a new file.               *)
LEMMA LedTail ==
    ASSUME OrderLed, HistoryTypeOK, QueueTypeOK, FileTypeOK, Monitor,
           \A s \in Sid : Led(s) => Led(s)',
           queue # <<>>, queue' = Tail(queue), UNCHANGED accepted,
           \/ Head(queue).op = "send" /\ UNCHANGED disk
           \/ Head(queue).op = "store" /\ disk' = With(disk, fileCounter, Head(queue).env)
    PROVE  OrderLed'
<1>1. /\ Len(queue) \in Nat \ {0} /\ Len(queue') = Len(queue) - 1 /\ queue[1] = Head(queue)
      /\ \A i \in 1 .. Len(queue') : queue'[i] = queue[i + 1] /\ i + 1 \in 1 .. Len(queue)
      /\ 1 \in 1 .. Len(queue)
  BY DEF QueueTypeOK
<1>2. \A i \in 1 .. Len(queue') : \A s : BlockOf(i, s)' <=> BlockOf(i + 1, s)
  BY <1>1 DEF BlockOf
<1>3. /\ \A n \in DOMAIN disk : n \in DOMAIN disk' /\ disk'[n] = disk[n] /\ n < fileCounter
      /\ \A n \in DOMAIN disk' : n \in DOMAIN disk
             \/ (Head(queue).op = "store" /\ n = fileCounter /\ disk'[n] = Head(queue).env)
  <2>1. \A n \in DOMAIN disk : n < fileCounter
    BY DEF Monitor
  <2>2. CASE Head(queue).op = "store" /\ disk' = With(disk, fileCounter, Head(queue).env)
    BY <2>2, LastFile
  <2>3. CASE UNCHANGED disk
    BY <2>1, <2>3
  <2>4. QED
    BY <2>2, <2>3
<1>4. \A n \in DOMAIN disk : \A s : FileIn(disk', n, s) <=> FileIn(disk, n, s)
  BY <1>3 DEF FileIn
<1>5. \A s : BlockOf(1, s) => \E n \in DOMAIN disk' : FileIn(disk', n, s)
  <2> SUFFICES ASSUME NEW s, BlockOf(1, s) PROVE \E n \in DOMAIN disk' : FileIn(disk', n, s)
    OBVIOUS
  <2>1. Head(queue).op = "store" /\ Updates(Head(queue).env, s)
    BY <1>1 DEF BlockOf
  <2>2. fileCounter \in DOMAIN disk' /\ disk'[fileCounter] = Head(queue).env
    BY <2>1 DEF With
  <2>3. QED
    BY <2>1, <2>2 DEF FileIn
<1>6. FilesLed'
  <2> SUFFICES ASSUME NEW s \in Sid, NEW n \in DOMAIN disk', FileIn(disk', n, s)
               PROVE  Led(s)' \/ disk'[n].init \/ \E m \in DOMAIN disk' : m < n /\ FileIn(disk', m, s)
    BY DEF FilesLed
  <2>1. CASE n \in DOMAIN disk
    <3>1. Led(s) \/ disk[n].init \/ \E m \in DOMAIN disk : m < n /\ FileIn(disk, m, s)
      BY <1>4, <2>1 DEF OrderLed, FilesLed
    <3>2. QED
      BY <1>3, <1>4, <2>1, <3>1
  <2>2. CASE n \notin DOMAIN disk
    <3>1. Head(queue).op = "store" /\ n = fileCounter /\ disk'[n] = Head(queue).env
      BY <1>3, <2>2
    <3>2. BlockOf(1, s)
      BY <1>1, <3>1 DEF BlockOf, FileIn
    <3>3. \/ Led(s) \/ queue[1].env.init
          \/ \E m \in DOMAIN disk : FileIn(disk, m, s)
          \/ \E j \in 1 .. 1 - 1 : BlockOf(j, s)
      BY <1>1, <3>2 DEF OrderLed, BlocksLed
    <3>4. \A j \in 1 .. 1 - 1 : FALSE
      OBVIOUS
    <3>5. QED
      BY <1>1, <1>3, <1>4, <3>1, <3>3, <3>4
  <2>3. QED
    BY <2>1, <2>2
<1>7. BlocksLed'
  <2> SUFFICES ASSUME NEW s \in Sid, NEW i \in 1 .. Len(queue'), BlockOf(i, s)'
               PROVE  \/ Led(s)' \/ queue'[i].env.init
                      \/ \E n \in DOMAIN disk' : FileIn(disk', n, s)
                      \/ \E j \in 1 .. i - 1 : BlockOf(j, s)'
    BY DEF BlocksLed
  <2>1. i \in Nat /\ i + 1 \in 1 .. Len(queue) /\ BlockOf(i + 1, s) /\ queue'[i] = queue[i + 1]
    BY <1>1, <1>2
  <2>2. \/ Led(s) \/ queue[i + 1].env.init
        \/ \E n \in DOMAIN disk : FileIn(disk, n, s)
        \/ \E j \in 1 .. i + 1 - 1 : BlockOf(j, s)
    BY <2>1 DEF OrderLed, BlocksLed
  <2>3. ASSUME NEW j \in 1 .. i + 1 - 1, BlockOf(j, s)
        PROVE  \/ \E n \in DOMAIN disk' : FileIn(disk', n, s)
               \/ \E k \in 1 .. i - 1 : BlockOf(k, s)'
    <3>1. CASE j = 1
      BY <1>5, <2>3, <3>1
    <3>2. CASE j # 1
      <4>1. PICK k \in 1 .. i - 1 : j = k + 1
        BY <2>1, <3>2
      <4>2. k \in 1 .. Len(queue')
        BY <1>1, <2>1
      <4>3. BlockOf(k, s)'
        BY <1>2, <2>3, <4>1, <4>2
      <4>4. QED
        BY <4>3
    <3>3. QED
      BY <3>1, <3>2
  <2>4. QED
    BY <1>3, <1>4, <2>1, <2>2, <2>3
<1>8. StartedLed'
  <2> SUFFICES ASSUME NEW id \in accepted, "session" \in Content[id].types, NEW s, s = Content[id].sid
               PROVE  \/ Led(s)'
                      \/ \E n \in DOMAIN disk' : FileIn(disk', n, s)
                      \/ \E j \in 1 .. Len(queue') : BlockOf(j, s)'
    BY DEF StartedLed
  <2>1. s \in Sid
    BY ContentAssumption DEF Contents, HistoryTypeOK
  <2>2. \/ Led(s)
        \/ \E n \in DOMAIN disk : FileIn(disk, n, s)
        \/ \E j \in 1 .. Len(queue) : BlockOf(j, s)
    BY DEF OrderLed, StartedLed
  <2>3. ASSUME NEW j \in 1 .. Len(queue), BlockOf(j, s)
        PROVE  \/ \E n \in DOMAIN disk' : FileIn(disk', n, s)
               \/ \E k \in 1 .. Len(queue') : BlockOf(k, s)'
    <3>1. CASE j = 1
      BY <1>5, <2>3, <3>1
    <3>2. CASE j # 1
      <4>1. PICK k \in 1 .. Len(queue') : j = k + 1
        BY <1>1, <3>2
      <4>2. BlockOf(k, s)'
        BY <1>2, <2>3, <4>1
      <4>3. QED
        BY <4>2
    <3>3. QED
      BY <3>1, <3>2
  <2>4. QED
    BY <1>3, <1>4, <2>1, <2>2, <2>3
<1>9. QED
  BY <1>6, <1>7, <1>8 DEF OrderLed

(* A file without an update.                                               *)
LEMMA LedDirect ==
    ASSUME OrderLed, HistoryTypeOK, FileTypeOK, Monitor, \A s \in Sid : Led(s) => Led(s)',
           UNCHANGED queue, NEW env, disk' = With(disk, fileCounter, env),
           "session" \notin env.types,
           \A id \in accepted' : id \in accepted \/ "session" \notin Content[id].types
    PROVE  OrderLed'
<1>1. /\ \A n \in DOMAIN disk : n \in DOMAIN disk' /\ disk'[n] = disk[n] /\ n < fileCounter
      /\ \A n \in DOMAIN disk' : n \in DOMAIN disk \/ (n = fileCounter /\ disk'[n] = env)
  BY LastFile
<1>2. \A n, s : FileIn(disk', n, s) <=> FileIn(disk, n, s)
  BY <1>1 DEF FileIn, Updates
<1>3. \A i, s : BlockOf(i, s)' <=> BlockOf(i, s)
  BY DEF BlockOf
<1>4. \A s : (\E n \in DOMAIN disk : FileIn(disk, n, s)) => \E n \in DOMAIN disk' : FileIn(disk', n, s)
  BY <1>1, <1>2
<1>5. FilesLed'
  <2> SUFFICES ASSUME NEW s \in Sid, NEW n \in DOMAIN disk', FileIn(disk', n, s)
               PROVE  Led(s)' \/ disk'[n].init \/ \E m \in DOMAIN disk' : m < n /\ FileIn(disk', m, s)
    BY DEF FilesLed
  <2>1. n \in DOMAIN disk /\ FileIn(disk, n, s) /\ disk'[n] = disk[n]
    BY <1>1, <1>2 DEF FileIn
  <2>2. Led(s) \/ disk[n].init \/ \E m \in DOMAIN disk : m < n /\ FileIn(disk, m, s)
    BY <2>1 DEF OrderLed, FilesLed
  <2>3. QED
    BY <1>1, <1>2, <2>1, <2>2
<1>6. BlocksLed'
  <2> SUFFICES ASSUME NEW s \in Sid, NEW i \in 1 .. Len(queue), BlockOf(i, s)
               PROVE  \/ Led(s)' \/ queue[i].env.init
                      \/ \E n \in DOMAIN disk' : FileIn(disk', n, s)
                      \/ \E j \in 1 .. i - 1 : BlockOf(j, s)
    BY <1>3 DEF BlocksLed
  <2>1. \/ Led(s) \/ queue[i].env.init
        \/ \E n \in DOMAIN disk : FileIn(disk, n, s)
        \/ \E j \in 1 .. i - 1 : BlockOf(j, s)
    BY DEF OrderLed, BlocksLed
  <2>2. QED
    BY <1>4, <2>1
<1>7. StartedLed'
  <2> SUFFICES ASSUME NEW id \in accepted, "session" \in Content[id].types, NEW s, s = Content[id].sid
               PROVE  \/ Led(s)'
                      \/ \E n \in DOMAIN disk' : FileIn(disk', n, s)
                      \/ \E j \in 1 .. Len(queue) : BlockOf(j, s)
    BY <1>3 DEF StartedLed
  <2>1. s \in Sid
    BY ContentAssumption DEF Contents, HistoryTypeOK
  <2>2. \/ Led(s)
        \/ \E n \in DOMAIN disk : FileIn(disk, n, s)
        \/ \E j \in 1 .. Len(queue) : BlockOf(j, s)
    BY DEF OrderLed, StartedLed
  <2>3. QED
    BY <1>4, <2>1, <2>2
<1>8. QED
  BY <1>5, <1>6, <1>7 DEF OrderLed

(* At the first launch the files are in order.                             *)
LEMMA LedInit == Init /\ NothingElseFails => LedInv
<1> SUFFICES ASSUME Init, NothingElseFails PROVE LedInv
  OBVIOUS
<1>1. /\ disk = Cached /\ queue = <<>> /\ notStored = <<>> /\ requests = {} /\ wire = <<>>
      /\ accepted = {Cached[n].id : n \in DOMAIN Cached}
      /\ \A t \in Thread : pc[t] \in {"try", "idle"}
      /\ rateLimits = [c \in LimitCategory |-> 0]
  BY DEF Init
<1>2. DOMAIN Cached = 1 .. Len(Cached) /\ Len(Cached) \in Nat /\ \A n \in DOMAIN Cached : Cached[n] \in Envelope
  BY TransportAssumption
<1>3. FilesLed
  <2> SUFFICES ASSUME NEW s \in Sid, NEW n \in DOMAIN Cached, FileIn(Cached, n, s)
               PROVE  Cached[n].init \/ \E m \in DOMAIN Cached : m < n /\ FileIn(Cached, m, s)
    BY <1>1 DEF FilesLed
  <2>1. Cached[n].init \/ \E m \in 1 .. n - 1 : SameSession(Cached[n], Cached[m])
    BY DEF NothingElseFails, FileIn, Updates
  <2>2. ASSUME NEW m \in 1 .. n - 1, SameSession(Cached[n], Cached[m])
        PROVE  m \in DOMAIN Cached /\ m < n /\ FileIn(Cached, m, s)
    <3>1. m \in DOMAIN Cached /\ m < n
      BY <1>2
    <3>2. QED
      BY <2>2, <3>1 DEF SameSession, FileIn, Updates
  <2>3. QED
    BY <2>1, <2>2
<1>4. BlocksLed
  BY <1>1 DEF BlocksLed, BlockOf
<1>5. StartedLed
  <2> SUFFICES ASSUME NEW id \in accepted, "session" \in Content[id].types
               PROVE  \E n \in DOMAIN disk : FileIn(disk, n, Content[id].sid)
    BY DEF StartedLed
  <2>1. PICK n \in DOMAIN Cached : id = Cached[n].id
    BY <1>1
  <2>2. "session" \in Cached[n].types
    BY <2>1, TransportAssumption
  <2>3. QED
    BY <1>1, <2>1, <2>2 DEF FileIn, Updates
<1>6. LoadsOldest /\ RequestLed /\ DeletedLed
  BY <1>1 DEF LoadsOldest, RequestLed, DeletedLed
<1>7. OrphansLost /\ WireTyped
  BY <1>1 DEF OrphansLost, WireTyped
<1>8. Unlimited
  BY <1>1 DEF Unlimited, LimitCategory, Category
<1>9. QED
  BY <1>3, <1>4, <1>5, <1>6, <1>7, <1>8 DEF LedInv, OrderLed, SendingLed

(* A step that touches neither the files nor the blocks.                   *)
LEMMA LedFrame ==
    ASSUME IndInv, PathsAreOld, LedInv,
           UNCHANGED <<disk, queue, notStored, accepted, requests, wire, rateLimits, recorded>>,
           \A t \in Thread : pc'[t] \in {"load", "delete"} => pc'[t] = pc[t] /\ path'[t] = path[t]
    PROVE  LedInv'
<1> USE DEF IndInv, TypeOK, LedInv
<1>1. SendingLed' /\ \A s \in Sid : Led(s) => Led(s)'
  BY LedRest
<1>2. OrderLed'
  BY <1>1, LedShrinks DEF HistoryTypeOK
<1>3. QED
  BY <1>1, <1>2

(* The rate limits spare the sessions.                                     *)
LEMMA KeptSession ==
    ASSUME Unlimited, LimitTypeOK, NEW env \in Envelope, NEW kept,
           kept = RemoveRateLimitedItems(env, rateLimits, now)
    PROVE  /\ kept.id = env.id /\ kept.init = env.init
           /\ "session" \in kept.types <=> "session" \in env.types
<1>1. ~IsRateLimitActive(rateLimits, now, "session")
  BY DEF IsRateLimitActive, IsInFuture, Unlimited, LimitTypeOK
<1>2. CategoryOf["session"] = "session"
  BY DEF CategoryOf, ItemType
<1>3. \A types : "session" \notin ItemsToDrop(types, rateLimits, now)
  BY <1>1, <1>2 DEF ItemsToDrop
<1>4. QED
  BY <1>3 DEF RemoveRateLimitedItems, Envelope

(* sendEnvelope: the init of the session came before.                      *)
LEMMA LedSend ==
    ASSUME NothingElseFails, IndInv, PathsAreOld, LedInv, NEW id \in EnvId, SendEnvelope(id)
    PROVE  LedInv'
<1> USE DEF IndInv, TypeOK, LedInv
<1>1. PICK kept, counted :
          /\ kept = RemoveRateLimitedItems(Fresh(id), rateLimits, now)
          /\ InSessionOrder(id) /\ accepted' = accepted \cup {id}
          /\ IF kept.types = {} THEN UNCHANGED queue
             ELSE queue' = Append(queue, StoreBlock(AddClientReportTo(kept, counted)))
          /\ recorded \subseteq recorded'
          /\ UNCHANGED <<disk, notStored, requests, wire, rateLimits, pc, path>>
  BY DEF SendEnvelope, fileVars, threadVars, limitVars
<1>2. /\ kept \in Envelope /\ kept.id = id /\ kept.init = Content[id].init
      /\ "session" \in kept.types <=> "session" \in Content[id].types
  <2>1. Fresh(id) \in Envelope /\ Fresh(id).id = id /\ Fresh(id).init = Content[id].init
        /\ Fresh(id).types = Content[id].types
    BY FreshType DEF Fresh
  <2>2. QED
    BY <1>1, <2>1, KeptSession, RemoveType DEF SendingLed
<1>3. SendingLed' /\ \A s \in Sid : Led(s) => Led(s)'
  BY <1>1, LedRest
<1>4. accepted' \subseteq EnvId
  BY <1>1 DEF HistoryTypeOK
<1>5. CASE kept.types = {}
  <2>1. "session" \notin Content[id].types
    BY <1>2, <1>5
  <2>2. OrderLed'
    BY <1>1, <1>3, <1>4, <1>5, <2>1, LedShrinks
  <2>3. QED
    BY <1>3, <2>2
<1>6. CASE kept.types # {}
  <2>1. PICK env : env = AddClientReportTo(kept, counted)
    OBVIOUS
  <2>2. /\ env \in Envelope /\ env.id = id /\ env.init = Content[id].init
        /\ "session" \in env.types <=> "session" \in Content[id].types
    <3>1. env \in Envelope
      BY <1>2, <2>1, ReportType
    <3>2. env.id = kept.id /\ env.init = kept.init
      BY <1>2, <2>1 DEF AddClientReportTo, Envelope
    <3>3. "session" \in env.types <=> "session" \in kept.types
      BY <1>2, <2>1 DEF AddClientReportTo, Envelope
    <3>4. QED
      BY <1>2, <3>1, <3>2, <3>3
  <2>3. PICK b : b = StoreBlock(env)
    OBVIOUS
  <2>4. b \in Block /\ b.op = "store" /\ b.env = env /\ queue' = Append(queue, b)
    BY <1>1, <1>6, <2>1, <2>2, <2>3 DEF StoreBlock, Block
  <2>5. ASSUME NEW s \in Sid, Updates(env, s)
        PROVE  \/ env.init \/ Led(s)
               \/ \E n \in DOMAIN disk : FileIn(disk, n, s)
               \/ \E j \in 1 .. Len(queue) : BlockOf(j, s)
    <3>1. "session" \in Content[id].types /\ Content[id].sid = s
      BY <2>2, <2>5 DEF Updates
    <3>2. Content[id].init \/ \E other \in EnvId : other < id /\ SameSession(Fresh(id), Fresh(other))
      BY <3>1 DEF NothingElseFails
    <3>3. ASSUME NEW other \in EnvId, other < id, SameSession(Fresh(id), Fresh(other))
          PROVE  \/ Led(s)
                 \/ \E n \in DOMAIN disk : FileIn(disk, n, s)
                 \/ \E j \in 1 .. Len(queue) : BlockOf(j, s)
      <4>1. "session" \in Content[other].types /\ Content[other].sid = s
        BY <3>1, <3>3 DEF SameSession, Fresh
      <4>2. other \in accepted
        BY <1>1, <3>1, <3>3, <4>1 DEF InSessionOrder
      <4>3. QED
        BY <4>1, <4>2 DEF OrderLed, StartedLed
    <3>4. QED
      BY <2>2, <3>2, <3>3
  <2>6. \A i \in accepted' \ accepted : "session" \in Content[i].types =>
            Updates(env, Content[i].sid)
    BY <1>1, <2>2 DEF Updates
  <2>7. OrderLed'
    BY <1>1, <1>3, <1>4, <2>4, <2>5, <2>6, LedAppend
  <2>8. QED
    BY <1>3, <2>7
<1>7. QED
  BY <1>5, <1>6

(* storeEnvelope never gets a session.                                     *)
LEMMA LedStore ==
    ASSUME NothingElseFails, IndInv, PathsAreOld, LedInv, NEW id \in EnvId, StoreEnvelope(id)
    PROVE  LedInv'
<1> USE DEF IndInv, TypeOK, LedInv
<1>1. /\ disk' = With(disk, fileCounter, Fresh(id))
      /\ accepted' = accepted \cup {id} /\ id \in Direct
      /\ UNCHANGED <<queue, notStored, requests, wire, rateLimits, path, recorded>>
  BY DEF StoreEnvelope, Write, NothingElseFails, queueVars, limitVars
<1>2. \A t \in Thread : pc'[t] \in {"load", "delete"} => pc'[t] = pc[t]
  BY DEF StoreEnvelope, Write, AfterStore, ThreadTypeOK, NothingElseFails
<1>3. "session" \notin Content[id].types /\ Fresh(id).types = Content[id].types
  BY <1>1 DEF NothingElseFails, Fresh
<1>4. /\ \A n \in DOMAIN disk : n \in DOMAIN disk' /\ disk'[n] = disk[n]
      /\ \A n \in DOMAIN disk' : n \in DOMAIN disk \/ n = fileCounter
  BY <1>1, LastFile
<1>5. SendingLed' /\ \A s \in Sid : Led(s) => Led(s)'
  BY <1>1, <1>2, <1>4, LedRest DEF FileIn
<1>6. OrderLed'
  BY <1>1, <1>3, <1>5, LedDirect
<1>7. QED
  BY <1>5, <1>6

(* The blocks: stored in their order, or started.                          *)
LEMMA LedQueue ==
    ASSUME NothingElseFails, IndInv, PathsAreOld, LedInv, QueueStep
    PROVE  LedInv'
<1> USE DEF IndInv, TypeOK, LedInv
<1>1. CASE RunStoreBlock
  <2>1. /\ disk' = With(disk, fileCounter, Head(queue).env)
        /\ Head(queue).op = "store" /\ queue # <<>> /\ queue' = Tail(queue)
        /\ UNCHANGED <<accepted, notStored, requests, wire, rateLimits, path, recorded>>
    BY <1>1 DEF RunStoreBlock, Write, netVars, limitVars, lossVars, historyVars
  <2>2. \A t \in Thread : pc'[t] \in {"load", "delete"} => pc'[t] = pc[t]
    BY <1>1 DEF RunStoreBlock, Write, AfterStore, ThreadTypeOK
  <2>3. /\ \A n \in DOMAIN disk : n \in DOMAIN disk' /\ disk'[n] = disk[n]
        /\ \A n \in DOMAIN disk' : n \in DOMAIN disk \/ n = fileCounter
    BY <2>1, LastFile
  <2>4. SendingLed' /\ \A s \in Sid : Led(s) => Led(s)'
    BY <2>1, <2>2, <2>3, LedRest DEF FileIn
  <2>5. OrderLed'
    BY <2>1, <2>4, LedTail
  <2>6. QED
    BY <2>4, <2>5
<1>2. CASE RunSendBlock
  <2>1. /\ Head(queue).op = "send" /\ queue # <<>> /\ queue' = Tail(queue)
        /\ UNCHANGED <<disk, accepted, notStored, requests, wire, rateLimits, recorded>>
    BY <1>2 DEF RunSendBlock, fileVars, netVars, limitVars, lossVars, historyVars
  <2>2. \A t \in Thread : pc'[t] \in {"load", "delete"} => pc'[t] = pc[t] /\ path'[t] = path[t]
    BY <1>2 DEF RunSendBlock, Goto, ThreadTypeOK
  <2>3. SendingLed' /\ \A s \in Sid : Led(s) => Led(s)'
    BY <2>1, <2>2, LedRest
  <2>4. OrderLed'
    BY <2>1, <2>3, LedTail
  <2>5. QED
    BY <2>3, <2>4
<1>3. ~RunStoreBlockFails
  BY DEF RunStoreBlockFails, NothingElseFails
<1>4. QED
  BY <1>1, <1>2, <1>3 DEF QueueStep

(* A block that only starts the transport.                                 *)
LEMMA LedDispatch ==
    ASSUME IndInv, PathsAreOld, LedInv, TimerFires \/ \E f \in Flusher : FlushDispatch(f)
    PROVE  LedInv'
<1> USE DEF IndInv, TypeOK, LedInv
<1>1. /\ queue' = Append(queue, SendBlock)
      /\ UNCHANGED <<disk, accepted, notStored, requests, wire, rateLimits, recorded, pc, path>>
  BY DEF TimerFires, FlushDispatch, QueueAfterFlush, fileVars, netVars, limitVars, lossVars,
         historyVars, threadVars
<1>2. SendingLed' /\ \A s \in Sid : Led(s) => Led(s)'
  BY <1>1, LedRest
<1>3. SendBlock \in Block /\ SendBlock.op # "store"
  BY DEF SendBlock, Block
<1>4. accepted' \subseteq EnvId
  BY <1>1 DEF HistoryTypeOK
<1>5. OrderLed'
  BY <1>1, <1>2, <1>3, <1>4, LedAppend
<1>6. QED
  BY <1>2, <1>5

(* A nonempty set of numbers has a least element.                          *)
LEMMA LeastExists ==
    ASSUME NEW S, S \subseteq Nat, S # {}
    PROVE  \E n \in S : \A m \in S : n <= m
<1>1. PICK dir : dir = [n \in S |-> n]
  OBVIOUS
<1>2. DOMAIN dir = S
  BY <1>1
<1>3. QED
  BY <1>2, OldestExists

(* handleEnvelopesLimit: the next file of the session gets the init of the *)
(* one that goes, or there is none, and the loss is counted.               *)
LEMMA LedEvict ==
    ASSUME NothingElseFails, IndInv, PathsAreOld, LedInv, NEW t \in Thread,
           NEW ok \in BOOLEAN, Evict(t, ok)
    PROVE  LedInv'
<1> USE DEF IndInv, TypeOK, LedInv
<1>1. Oldest(disk) \in DOMAIN disk
  BY EvictMonitor
<1>2. PICK name, old :
          /\ name = Oldest(disk) /\ name \in DOMAIN disk
          /\ old = disk[name] /\ old \in Envelope
  BY <1>1 DEF FileTypeOK
<1>3. /\ disk' = Without(MigrateSessionInit(disk, TRUE), name)
      /\ recorded' = recorded \cup Counted(old.id, ItemsDeleted(disk), "cache_overflow")
      /\ UNCHANGED <<queue, notStored, accepted, requests, wire, rateLimits, path>>
  BY <1>2 DEF Evict, NothingElseFails, queueVars, netVars, limitVars, historyVars
<1>4. /\ DOMAIN disk' = DOMAIN disk \ {name}
      /\ \A n \in DOMAIN disk' : /\ disk'[n].id = disk[n].id /\ disk'[n].types = disk[n].types
                                 /\ disk[n].init => disk'[n].init
  BY <1>3 DEF MigrateSessionInit, Without, FileTypeOK, Envelope
<1>5. \A u \in Thread : pc'[u] \in {"load", "delete"} => pc'[u] = pc[u]
  BY DEF Evict, AfterStore, ThreadTypeOK
<1>6. \A n \in DOMAIN disk : \A s \in Sid : FileIn(disk', n, s) => FileIn(disk, n, s)
  BY <1>4 DEF FileIn, Updates
<1>7. SendingLed' /\ \A s \in Sid : Led(s) => Led(s)'
  BY <1>3, <1>4, <1>5, <1>6, LedRest
<1>8. ASSUME NEW s \in Sid, Updates(old, s) PROVE Led(s)' \/ Headed(disk', s)
  <2>1. "session" \in old.types /\ Content[old.id].sid = s /\ Readable(old) /\ old.id \in EnvId
    BY <1>2, <1>8 DEF Updates, Readable, NothingElseFails, Envelope
  <2>2. CASE DidMigrate(disk)
    <3>1. Successors(disk) # {} /\ Successors(disk) \subseteq DOMAIN disk
      BY <2>2 DEF DidMigrate, Successors
    <3>2. \A n \in DOMAIN disk' : Updates(disk'[n], s) => n \in Successors(disk)
      BY <1>2, <1>4, <2>1 DEF Updates, Successors, SameSession, Readable, NothingElseFails
    <3>3. PICK next : next \in Successors(disk) /\ next = NextWithSameSession(disk)
                      /\ \A m \in Successors(disk) : next <= m
      <4>1. Successors(disk) \subseteq Nat
        BY <3>1 DEF FileTypeOK
      <4>2. \E n \in Successors(disk) : \A m \in Successors(disk) : n <= m
        BY <3>1, <4>1, LeastExists
      <4>3. QED
        BY <4>2 DEF NextWithSameSession
    <3>4. next \in DOMAIN disk' /\ SameSession(old, disk[next])
      BY <1>2, <1>4, <3>3 DEF Successors
    <3>5. Updates(disk'[next], s)
      BY <1>4, <2>1, <3>4 DEF SameSession, Updates
    <3>6. disk'[next].init
      <4>1. disk'[next] = [disk[next] EXCEPT !.init = TRUE]
        BY <1>3, <1>4, <2>2, <3>3, <3>4 DEF MigrateSessionInit, Without
      <4>2. disk[next] \in Envelope
        BY <1>4, <3>4 DEF FileTypeOK
      <4>3. QED
        BY <4>1, <4>2 DEF Envelope
    <3>7. QED
      BY <3>2, <3>3, <3>4, <3>5, <3>6 DEF Headed
  <2>3. CASE ~DidMigrate(disk)
    <3>1. ItemsDeleted(disk) = old.types
      BY <1>2, <2>1, <2>3 DEF ItemsDeleted
    <3>2. <<old.id, "session", "cache_overflow">> \in recorded'
      BY <1>3, <2>1, <3>1 DEF Counted, NothingElseFails
    <3>3. QED
      BY <2>1, <3>2 DEF Led, LostInit
  <2>4. QED
    BY <2>2, <2>3
<1>9. \A s \in Sid : (\E n \in DOMAIN disk \ DOMAIN disk' : FileIn(disk, n, s))
               => Led(s)' \/ Headed(disk', s)
  BY <1>2, <1>4, <1>8 DEF FileIn
<1>10. OrderLed'
  BY <1>3, <1>4, <1>7, <1>9, LedShrinks DEF HistoryTypeOK
<1>11. QED
  BY <1>7, <1>10

(* getOldestEnvelope takes the first file.                                 *)
LEMMA LedList ==
    ASSUME IndInv, PathsAreOld, LedInv, NEW t \in Thread, ListEnvelopes(t)
    PROVE  LedInv'
<1> USE DEF IndInv, TypeOK, LedInv
<1>1. /\ UNCHANGED <<disk, queue, notStored, accepted, requests, wire, rateLimits, recorded>>
      /\ IF DOMAIN disk = {} THEN Goto(t, "finish", NoPath) ELSE Goto(t, "load", Oldest(disk))
  BY DEF ListEnvelopes, fileVars, queueVars, netVars, limitVars, lossVars, historyVars
<1>2. \A s \in Sid : Led(s) => Led(s)'
  BY <1>1, LedStays DEF SendingLed
<1>3. OrderLed'
  BY <1>1, <1>2, LedShrinks DEF HistoryTypeOK
<1>4. \A u \in Thread : pc'[u] = "load" =>
          \/ pc[u] = "load" /\ path'[u] = path[u]
          \/ \A m \in DOMAIN disk : path'[u] <= m
  <2>1. DOMAIN disk # {} => \A m \in DOMAIN disk : Oldest(disk) <= m
    BY OldestExists DEF FileTypeOK
  <2>2. \A u \in Thread \ {t} : pc'[u] = pc[u] /\ path'[u] = path[u]
    BY <1>1 DEF Goto, ThreadTypeOK
  <2>3. pc'[t] = "load" => DOMAIN disk # {} /\ path'[t] = Oldest(disk)
    BY <1>1 DEF Goto, ThreadTypeOK
  <2>4. QED
    BY <2>1, <2>2, <2>3
<1>5. \A u \in Thread : pc'[u] = "delete" => pc[u] = "delete" /\ path'[u] = path[u]
  BY <1>1 DEF Goto, ThreadTypeOK
<1>6. LoadsOldest' /\ RequestLed' /\ DeletedLed'
  BY <1>1, <1>2, <1>4, <1>5, LedPaths
<1>7. OrphansLost' /\ Unlimited' /\ WireTyped'
  BY <1>1 DEF SendingLed, OrphansLost, Orphan, LostInit, Unlimited, WireTyped
<1>8. QED
  BY <1>3, <1>6, <1>7 DEF SendingLed

(* The file that is read is the first of its session, which makes it the   *)
(* init or finds it led.                                                   *)
LEMMA LedLoad ==
    ASSUME NothingElseFails, IndInv, PathsAreOld, LedInv, NEW t \in Thread, LoadEnvelope(t)
    PROVE  LedInv'
<1> USE DEF IndInv, TypeOK, LedInv
<1>1. PICK name, env, kept :
          /\ name = path[t] /\ name \in DOMAIN disk /\ env = disk[name] /\ env \in Envelope
          /\ kept = RemoveRateLimitedItems(env, rateLimits, now)
          /\ pc[t] = "load"
  BY DEF LoadEnvelope, FileTypeOK
<1>2. /\ UNCHANGED <<disk, queue, notStored, accepted, wire, rateLimits>>
      /\ recorded \subseteq recorded'
      /\ \/ kept.types = {} /\ Goto(t, "delete", name) /\ requests' = requests
         \/ /\ Goto(t, "idle", NoPath)
            /\ requests' = requests \cup {[env |-> kept, path |-> name]}
  BY <1>1 DEF LoadEnvelope, Process, AllItemsLimited, RequestNotBuilt, AddRequest,
              NothingElseFails, fileVars, queueVars, limitVars, historyVars
<1>3. /\ kept.id = env.id /\ kept.init = env.init
      /\ "session" \in kept.types <=> "session" \in env.types
  BY <1>1, KeptSession DEF SendingLed
<1>4. \A s \in Sid : Led(s) => Led(s)'
  BY <1>2, LedStays DEF SendingLed
<1>5. OrderLed'
  BY <1>2, <1>4, LedShrinks DEF HistoryTypeOK
<1>6. \A s \in Sid : FileIn(disk, name, s) <=> Updates(kept, s)
  BY <1>1, <1>3 DEF FileIn, Updates
<1>7. ASSUME NEW s \in Sid, Updates(kept, s) PROVE kept.init \/ Led(s)
  <2>1. FileIn(disk, name, s)
    BY <1>6, <1>7
  <2>2. Led(s) \/ disk[name].init \/ \E m \in DOMAIN disk : m < name /\ FileIn(disk, m, s)
    BY <1>1, <2>1 DEF OrderLed, FilesLed
  <2>3. \A m \in DOMAIN disk : ~(m < name)
    <3>1. \A m \in DOMAIN disk : name <= m
      BY <1>1 DEF SendingLed, LoadsOldest
    <3>2. QED
      BY <1>1, <3>1 DEF FileTypeOK
  <2>4. QED
    BY <1>1, <1>3, <2>2, <2>3
<1>8. \A u \in Thread : pc'[u] = "load" => pc[u] = "load" /\ path'[u] = path[u]
  BY <1>2 DEF Goto, ThreadTypeOK
<1>9. \A u \in Thread : pc'[u] = "delete" =>
          \/ pc[u] = "delete" /\ path'[u] = path[u]
          \/ path'[u] = name /\ kept.types = {}
  BY <1>2 DEF Goto, ThreadTypeOK
<1>10. \A u \in Thread : pc'[u] = "delete" =>
          \/ pc[u] = "delete" /\ path'[u] = path[u]
          \/ \A s \in Sid : FileIn(disk', path'[u], s) => Led(s)'
  BY <1>2, <1>6, <1>9 DEF Updates
<1>11. \A r \in requests' : r \in requests \/
          \A s \in Sid : /\ Updates(r.env, s) => r.env.init \/ Led(s)'
                         /\ FileIn(disk', r.path, s) => Updates(r.env, s)
  <2>1. \A r \in requests' : r \in requests \/ (r.env = kept /\ r.path = name)
    BY <1>2
  <2>2. QED
    BY <1>2, <1>4, <1>6, <1>7, <2>1
<1>12. LoadsOldest' /\ RequestLed' /\ DeletedLed'
  BY <1>2, <1>4, <1>8, <1>10, <1>11, LedPaths
<1>13. OrphansLost' /\ Unlimited' /\ WireTyped'
  BY <1>2 DEF SendingLed, OrphansLost, Orphan, LostInit, Unlimited, WireTyped
<1>14. QED
  BY <1>5, <1>12, <1>13 DEF SendingLed

(* The file of an answered request goes, and its session is led.           *)
LEMMA LedDelete ==
    ASSUME IndInv, PathsAreOld, LedInv, NEW t \in Thread, DeleteEnvelopeAndSendNext(t)
    PROVE  LedInv'
<1> USE DEF IndInv, TypeOK, LedInv
<1>1. /\ disk' = DiskAfterDelete(path[t]) /\ pc[t] = "delete"
      /\ UNCHANGED <<queue, notStored, accepted, requests, wire, rateLimits, recorded>>
      /\ Goto(t, "idle", NoPath)
  BY DEF DeleteEnvelopeAndSendNext, netVars, limitVars, lossVars, historyVars
<1>2. /\ DOMAIN disk' \subseteq DOMAIN disk
      /\ \A n \in DOMAIN disk \ DOMAIN disk' : n = path[t]
      /\ \A n \in DOMAIN disk' : disk'[n] = disk[n]
  BY <1>1 DEF DiskAfterDelete, Without
<1>3. \A u \in Thread : pc'[u] \in {"load", "delete"} => pc'[u] = pc[u] /\ path'[u] = path[u]
  BY <1>1 DEF Goto, ThreadTypeOK
<1>4. \A n \in DOMAIN disk : \A s \in Sid : FileIn(disk', n, s) => FileIn(disk, n, s)
  BY <1>2 DEF FileIn
<1>5. SendingLed' /\ \A s \in Sid : Led(s) => Led(s)'
  BY <1>1, <1>2, <1>3, <1>4, LedRest
<1>6. \A s \in Sid : (\E n \in DOMAIN disk \ DOMAIN disk' : FileIn(disk, n, s)) => Led(s)'
  BY <1>1, <1>2, <1>5 DEF SendingLed, DeletedLed
<1>7. OrderLed'
  BY <1>1, <1>2, <1>5, <1>6, LedShrinks DEF HistoryTypeOK
<1>8. QED
  BY <1>5, <1>7

(* A request ends: with an answer, its session is led.                     *)
LEMMA LedRequest ==
    ASSUME NothingElseFails, IndInv, PathsAreOld, LedInv, NEW r \in requests,
           NEW o \in Outcomes, CompleteRequest(r, o)
    PROVE  LedInv'
<1> USE DEF IndInv, TypeOK, LedInv
<1>1. /\ requests' = requests \ {r} /\ recorded \subseteq recorded' /\ "session" \in Thread
      /\ UNCHANGED <<disk, queue, notStored, accepted>>
      /\ \/ /\ ~o.answered /\ Goto("session", "finish", NoPath)
            /\ UNCHANGED <<wire, rateLimits>>
         \/ /\ o.answered /\ Goto("session", "delete", r.path)
            /\ rateLimits' = Update(rateLimits, now, o.response)
            /\ wire' = IF "session" \in r.env.types
                       THEN Append(wire, [sid |-> Content[r.env.id].sid, init |-> r.env.init])
                       ELSE wire
  BY DEF CompleteRequest, fileVars, queueVars, limitVars, Thread
<1>2. PICK e : /\ e = [sid |-> Content[r.env.id].sid, init |-> r.env.init]
               /\ e \in [sid: Sid, init: BOOLEAN]
  <2>1. r.env.id \in EnvId /\ r.env.init \in BOOLEAN
    BY DEF NetTypeOK, Request, Envelope
  <2>2. Content[r.env.id].sid \in Sid
    BY <2>1, ContentAssumption DEF Contents
  <2>3. [sid |-> Content[r.env.id].sid, init |-> r.env.init] \in [sid: Sid, init: BOOLEAN]
    BY <2>1, <2>2
  <2>4. QED
    BY <2>3
<1>3. \/ wire' = wire
      \/ wire' = Append(wire, e) /\ Updates(r.env, e.sid)
  BY <1>1, <1>2 DEF Updates
<1>4. \A s \in Sid : Led(s) => Led(s)'
  BY <1>1, <1>2, <1>3, LedStays DEF SendingLed
<1>5. wire \in Seq([sid: Sid, init: BOOLEAN])
  BY DEF SendingLed, WireTyped
<1>6. ASSUME wire' = Append(wire, e)
      PROVE  /\ Len(wire') = Len(wire) + 1 /\ Len(wire) \in Nat /\ wire'[Len(wire) + 1] = e
             /\ \A i \in 1 .. Len(wire) : wire'[i] = wire[i]
  BY <1>2, <1>5, <1>6
<1>7. OrderLed'
  BY <1>1, <1>4, LedShrinks DEF HistoryTypeOK
<1>8. \A s \in Sid : Updates(r.env, s) => r.env.init \/ Led(s)
  BY DEF SendingLed, RequestLed
<1>9. \A s \in Sid : o.answered /\ FileIn(disk, r.path, s) => Led(s)'
  <2> SUFFICES ASSUME NEW s \in Sid, o.answered, FileIn(disk, r.path, s) PROVE Led(s)'
    OBVIOUS
  <2>1. Updates(r.env, s)
    BY DEF SendingLed, RequestLed
  <2>2. wire' = Append(wire, e) /\ e.sid = s /\ e.init = r.env.init
    BY <1>1, <1>2, <2>1 DEF Updates
  <2>3. CASE r.env.init
    <3>1. PICK k \in 1 .. Len(wire') : wire'[k] = e
      BY <1>6, <2>2
    <3>2. QED
      BY <2>2, <2>3, <3>1 DEF Led, SeenInit
  <2>4. QED
    BY <1>4, <1>8, <2>1, <2>3
<1>10. \A u \in Thread : pc'[u] = "load" => pc[u] = "load" /\ path'[u] = path[u]
  BY <1>1 DEF Goto, ThreadTypeOK
<1>11. \A u \in Thread : pc'[u] = "delete" =>
          \/ pc[u] = "delete" /\ path'[u] = path[u]
          \/ path'[u] = r.path /\ o.answered
  BY <1>1 DEF Goto, ThreadTypeOK
<1>12. LoadsOldest' /\ RequestLed' /\ DeletedLed'
  <2>1. \A u \in Thread : pc'[u] = "delete" =>
            \/ pc[u] = "delete" /\ path'[u] = path[u]
            \/ \A s \in Sid : FileIn(disk', path'[u], s) => Led(s)'
    BY <1>1, <1>9, <1>11
  <2>2. QED
    BY <1>1, <1>4, <1>10, <2>1, LedPaths
<1>13. OrphansLost'
  <2> SUFFICES ASSUME NEW i \in 1 .. Len(wire'), NEW s, s = wire'[i].sid, ~wire'[i].init,
                      \A j \in 1 .. i - 1 : wire'[j].sid = s => ~wire'[j].init
               PROVE  LostInit(s)'
    BY DEF OrphansLost, Orphan, LostInit
  <2>1. LostInit(s) => LostInit(s)'
    BY <1>1 DEF LostInit
  <2>2. CASE i \in 1 .. Len(wire) /\ \A j \in 1 .. Len(wire) : wire'[j] = wire[j]
    <3>1. \A j \in 1 .. i - 1 : j \in 1 .. Len(wire)
      BY <1>5, <2>2
    <3>2. Orphan(i) /\ wire[i].sid = s
      BY <2>2, <3>1 DEF Orphan
    <3>3. QED
      BY <2>1, <2>2, <3>2 DEF SendingLed, OrphansLost
  <2>3. CASE wire' = Append(wire, e) /\ i = Len(wire) + 1
    <3>1. wire'[i] = e /\ e.sid = s /\ ~e.init /\ \A j \in 1 .. Len(wire) : wire[j].sid = s => ~wire[j].init
      BY <1>6, <2>3
    <3>2. Updates(r.env, s) /\ e.init = r.env.init /\ s \in Sid
      BY <1>2, <1>3, <1>6, <2>3, <3>1
    <3>3. Led(s)
      BY <1>8, <3>1, <3>2
    <3>4. LostInit(s)
      BY <3>1, <3>3 DEF Led, SeenInit
    <3>5. QED
      BY <2>1, <3>4
  <2>4. QED
    BY <1>3, <1>5, <1>6, <2>2, <2>3
<1>14. Unlimited'
  <2>1. "session" \in LimitCategory /\ "all" \in LimitCategory
    BY DEF LimitCategory, Category
  <2>2. o.answered => \A c \in {"session", "all"} : Update(rateLimits, now, o.response)[c] = rateLimits[c]
    BY <2>1 DEF Update, NothingElseFails
  <2>3. QED
    BY <1>1, <2>2 DEF SendingLed, Unlimited
<1>15. WireTyped'
  <2>1. \A S : wire \in Seq(S) /\ e \in S => Append(wire, e) \in Seq(S)
    OBVIOUS
  <2>2. QED
    BY <1>2, <1>3, <1>5, <2>1 DEF WireTyped
<1>16. QED
  BY <1>7, <1>12, <1>13, <1>14, <1>15 DEF SendingLed

(* Every step of a living process keeps the inits first.                   *)
LEMMA LedNext ==
    ASSUME NothingElseFails, IndInv, PathsAreOld, LedInv, [Next]_vars, crashes' = crashes
    PROVE  LedInv'
<1> USE DEF IndInv, TypeOK
<1>1. CASE \E id \in EnvId : SendEnvelope(id) \/ StoreEnvelope(id)
  BY <1>1, LedSend, LedStore
<1>2. CASE QueueStep
  BY <1>2, LedQueue
<1>3. CASE RequestStep
  BY <1>3, LedRequest DEF RequestStep
<1>4. CASE Crash
  BY <1>4 DEF Crash, HistoryTypeOK
<1>5. CASE \E n \in OldFiles : DeleteOldEnvelope(n)
  BY <1>5 DEF NothingElseFails
<1>6. CASE TimerFires \/ \E f \in Flusher : FlushDispatch(f)
  BY <1>6, LedDispatch
<1>7. ASSUME NEW t \in Thread, SenderStep(t) PROVE LedInv'
  <2>1. CASE LoadEnvelope(t)
    BY <2>1, LedLoad
  <2>2. CASE DeleteEnvelopeAndSendNext(t)
    BY <2>2, LedDelete
  <2>3. CASE \E ok \in BOOLEAN : Evict(t, ok)
    BY <2>3, LedEvict
  <2>4. CASE ListEnvelopes(t)
    BY <2>4, LedList
  <2>5. ~TakeNotStored(t)
    BY DEF TakeNotStored, LedInv, SendingLed, Unlimited
  <2>6. ~NotDeserializable(t)
    BY DEF NotDeserializable, Readable, NothingElseFails
  <2>7. CASE AlreadySending(t) \/ StartSending(t) \/ NothingNotStored(t) \/ FileIsGone(t)
               \/ FinishedSending(t)
    <3>1. UNCHANGED <<disk, queue, notStored, accepted, requests, wire, rateLimits, recorded>>
      BY <2>7 DEF AlreadySending, StartSending, NothingNotStored, FileIsGone, FinishedSending,
                  fileVars, queueVars, netVars, limitVars, lossVars, historyVars
    <3>2. \A u \in Thread : pc'[u] \in {"load", "delete"} => pc'[u] = pc[u] /\ path'[u] = path[u]
      BY <2>7 DEF AlreadySending, StartSending, NothingNotStored, FileIsGone, FinishedSending,
                  Goto, ThreadTypeOK
    <3>3. QED
      BY <3>1, <3>2, LedFrame
  <2>8. QED
    BY <1>7, <2>1, <2>2, <2>3, <2>4, <2>5, <2>6, <2>7 DEF SenderStep
<1>8. CASE ConnectivityChanged
  <2>1. /\ UNCHANGED <<disk, queue, notStored, accepted, requests, wire, rateLimits, recorded>>
        /\ Goto("reach", "try", NoPath)
    BY <1>8 DEF ConnectivityChanged, fileVars, queueVars, netVars, limitVars, lossVars
  <2>2. \A u \in Thread : pc'[u] \in {"load", "delete"} => pc'[u] = pc[u] /\ path'[u] = path[u]
    BY <2>1 DEF Goto, ThreadTypeOK
  <2>3. QED
    BY <2>1, <2>2, LedFrame
<1>9. CASE \/ \E f \in Flusher : FlushRefused(f) \/ FlushBegin(f) \/ FlushTimesOut(f)
           \/ SpotlightDone \/ Tick \/ Rest \/ UNCHANGED vars
  <2>1. UNCHANGED <<disk, queue, notStored, accepted, requests, wire, rateLimits, recorded, pc, path>>
    BY <1>9 DEF FlushRefused, FlushBegin, FlushTimesOut, SpotlightDone, Tick, Rest, vars,
                fileVars, queueVars, netVars, limitVars, lossVars, historyVars, threadVars
  <2>2. QED
    BY <2>1, LedFrame
<1>10. QED
  BY <1>1, <1>2, <1>3, <1>4, <1>5, <1>6, <1>7, <1>8, <1>9 DEF Next, CallerStep

-----------------------------------------------------------------------------
(* The theorems.                                                           *)

(* All state of the transport stays well typed; the dispatch group's count *)
(* never goes below zero.                                                  *)
THEOREM TypeCorrect == Spec => []TypeOK
BY SpecInd, PTL DEF IndInv

(* sendAllCachedEnvelopes never works on two envelopes at once, on any     *)
(* number of threads and with any order of completions, crashes and        *)
(* failures: isSending is a lock.                                          *)
THEOREM SendingIsExclusive == Spec => []OneSender
BY SpecInd, PTL DEF IndInv

(* flush and finishedSending enter and leave the dispatch group in turns.  *)
THEOREM GroupIsBalanced == Spec => []GroupBalanced
BY SpecInd, PTL DEF IndInv

(* The envelope cache stays within its bound, whatever is stored, evicted, *)
(* sent or expired at the same time, and after any number of crashes.      *)
THEOREM CacheIsBounded == Spec => []CacheBounded
<1>1. Init => CacheBounded
  <2> SUFFICES ASSUME Init PROVE CacheBounded
    OBVIOUS
  <2>1. DOMAIN disk = 1 .. Len(Cached) /\ Len(Cached) \in Nat /\ crashes = 0
    BY TransportAssumption DEF Init
  <2>2. Cardinality(DOMAIN disk) = Len(Cached)
    <3>1. \A n \in Nat : Cardinality(1 .. n) = n
      <4>1. \A n \in Nat : Cardinality(1 .. n) = IF 1 > n THEN 0 ELSE n - 1 + 1
        BY FS_Interval
      <4>2. QED
        BY <4>1
    <3>2. QED
      BY <2>1, <3>1
  <2>3. QED
    BY <2>1, <2>2, AllowanceType DEF CacheBounded
<1>2. QED
  BY <1>1, CacheNext, SpecInd, PTL DEF Spec

(* No item of an accepted envelope disappears without being answered for,  *)
(* counted or given up by design, whatever fails and however often the     *)
(* process dies.                                                           *)
THEOREM LossesAreCounted == Spec => []NoSilentLoss
<1> DEFINE Inv == PathsAreOld /\ (SendClientReports => LossInv)
<1>1. Init => Inv
  BY LossInit
<1>2. IndInv /\ Inv /\ [Next]_vars => Inv'
  BY PathsNext, LossNext
<1>3. Inv => NoSilentLoss
  BY PendingIsHeld DEF LossInv, NothingLost, NoSilentLoss, Settled
<1>4. QED
  BY <1>1, <1>2, <1>3, SpecInd, PTL DEF Spec

(* An envelope the server answered for is not sent again by this process:  *)
(* its file is deleted before isSending is reset.                          *)
THEOREM AnswersAreFinal == Spec => AnsweredOnce
<1> DEFINE Inv == IndInv /\ PathsAreOld /\ (crashes = 0 => Places)
           Once == crashes = 0 =>
                      \A r \in requests' \ requests : ItemsOf(r.env) \cap answered = {}
<1>1. Init => Inv
  BY InitInd, LossInit, PlacesInit
<1>2. Inv /\ [Next]_vars => Inv'
  BY NextInd, PathsNext, PlacesNext, CrashesGrow DEF IndInv, TypeOK
<1>3. Inv /\ Inv' /\ [Next]_vars => Once
  BY OnceNext
<1> HIDE DEF Inv
<1>4. QED
  BY <1>1, <1>2, <1>3, PTL DEF Spec, AnsweredOnce

(* The server never sees an update before the init of its session, except  *)
(* after an eviction that found no envelope to migrate the init to and     *)
(* counted the loss: for any number of sessions and envelopes, any cache   *)
(* size and any interleaving of the threads.                               *)
THEOREM InitsComeFirst == Spec => []InitLostOnlyByEviction
<1> DEFINE Inv == IndInv /\ PathsAreOld /\ (NothingElseFails /\ crashes = 0 => LedInv)
<1>1. Init => Inv
  BY InitInd, LossInit, LedInit
<1>2. Inv /\ [Next]_vars => Inv'
  BY NextInd, PathsNext, LedNext, CrashesGrow DEF IndInv, TypeOK, NothingElseFails
<1>3. Inv => InitLostOnlyByEviction
  BY DEF LedInv, SendingLed, OrphansLost, LostInit, InitLostOnlyByEviction
<1> HIDE DEF Inv
<1>4. QED
  BY <1>1, <1>2, <1>3, PTL DEF Spec

(* No request carries an item the server asked to hold back for longer.    *)
THEOREM RateLimitsRespected == Spec => BackOffRespected
<1>1. ASSUME NEW t \in Thread, NEW env \in Envelope, NEW name, AddRequest(t, env, name),
             LimitTypeOK, LimitsKept,
             NEW r \in requests' \ requests, NEW ty \in r.env.types, NEW b \in told,
             b[1] \in {CategoryOf[ty], "all"}
      PROVE  b[2] <= now
  <2>1. r.env = RemoveRateLimitedItems(env, rateLimits, now)
    BY <1>1 DEF AddRequest
  <2>2. ty \in env.types \ ItemsToDrop(env.types, rateLimits, now)
    BY <2>1 DEF RemoveRateLimitedItems, Envelope
  <2>3. ~IsRateLimitActive(rateLimits, now, CategoryOf[ty])
    BY <2>2 DEF ItemsToDrop
  <2>4. ~(now < rateLimits[b[1]])
    BY <1>1, <2>3 DEF IsRateLimitActive, IsInFuture
  <2>5. b[2] \in Nat /\ rateLimits[b[1]] \in Nat /\ now \in Nat /\ b[2] <= rateLimits[b[1]]
    BY <1>1 DEF LimitTypeOK, LimitsKept
  <2>6. QED
    BY <2>4, <2>5
<1>2. ASSUME NEW t \in Thread, NEW env \in Envelope, NEW name, Process(t, env, name),
             LimitTypeOK, LimitsKept
      PROVE  \A r \in requests' \ requests : \A ty \in r.env.types : \A b \in told :
                b[1] \in {CategoryOf[ty], "all"} => b[2] <= now
  BY <1>1, <1>2 DEF Process, AllItemsLimited, RequestNotBuilt
<1>3. ASSUME IndInv, [Next]_vars
      PROVE  \A r \in requests' \ requests : \A ty \in r.env.types : \A b \in told :
                b[1] \in {CategoryOf[ty], "all"} => b[2] <= now
  <2>1. CASE \E t \in Thread : TakeNotStored(t) \/ LoadEnvelope(t)
    <3>1. PICK t \in Thread : TakeNotStored(t) \/ LoadEnvelope(t)
      BY <2>1
    <3>2. CASE TakeNotStored(t)
      <4>1. Head(notStored) \in Envelope /\ Process(t, Head(notStored), NoPath)
        BY <1>3, <3>2 DEF TakeNotStored, QueueTypeOK, IndInv, TypeOK
      <4>2. QED
        BY <1>2, <1>3, <4>1 DEF IndInv, TypeOK
    <3>3. CASE LoadEnvelope(t)
      <4>1. disk[path[t]] \in Envelope /\ Process(t, disk[path[t]], path[t])
        BY <1>3, <3>3 DEF LoadEnvelope, FileTypeOK, IndInv, TypeOK
      <4>2. QED
        BY <1>2, <1>3, <4>1 DEF IndInv, TypeOK
    <3>4. QED
      BY <3>1, <3>2, <3>3
  <2>2. CASE ~ \E t \in Thread : TakeNotStored(t) \/ LoadEnvelope(t)
    <3>1. requests' \subseteq requests
      BY <1>3, <2>2 DEF Next, CallerStep, SenderStep, AlreadySending, StartSending,
            NothingNotStored, ListEnvelopes, FileIsGone, NotDeserializable,
            DeleteEnvelopeAndSendNext, FinishedSending, Evict, SendEnvelope, StoreEnvelope,
            FlushRefused, FlushBegin, FlushTimesOut, FlushDispatch, DeleteOldEnvelope, QueueStep,
            RunStoreBlock, RunStoreBlockFails, RunSendBlock, TimerFires, RequestStep,
            CompleteRequest, ConnectivityChanged, SpotlightDone, Tick, Crash, Launched, Rest,
            vars, netVars
    <3>2. QED
      BY <3>1
  <2>3. QED
    BY <2>1, <2>2
<1>4. QED
  BY <1>3, SpecInd, PTL DEF Spec, BackOffRespected
=============================================================================
