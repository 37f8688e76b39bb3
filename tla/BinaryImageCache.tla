---------------------------- MODULE BinaryImageCache ----------------------------
(***************************************************************************)
(* The list of loaded images that the crash handler walks without a lock   *)
(* (SentryCrashBinaryImageCache.c), and the cache that follows it through  *)
(* callbacks (SentryBinaryImageCache.m).  dyld calls back, one call at a   *)
(* time, on the thread that loads or unloads an image; another thread      *)
(* starts and stops the caches.  An image stands for the address it is     *)
(* loaded at, so that one can be loaded there again.                       *)
(***************************************************************************)
EXTENDS Integers, Sequences, FiniteSets

CONSTANTS Images,      \* addresses of images
          Unreadable,  \* those whose header cannot be read
          MaxLoads,    \* bound: loads and unloads
          MaxStarts    \* bound: starts of the cache

ASSUME BinaryImageCacheAssumption ==
    /\ Unreadable \subseteq Images /\ MaxLoads \in Nat /\ MaxStarts \in Nat

VARIABLES nodes,       \* every node ever made: [image, available, freed]
          list,        \* the nodes behind rootNode, in order
          running,     \* tailNode # NULL
          mutex,       \* who holds binaryImagesMutex
          dyld,        \* loaded images, registered functions, the calls to make
          sdk,         \* what the starting or stopping thread does next
          callback,    \* imageAddedCallback and imageRemovedCallback are set
          known        \* _cache of SentryBinaryImageCache, as a bag

imageVars == <<nodes, list, running, mutex, dyld, sdk, callback, known>>

None == "none"

Call(op, image) == [op |-> op, image |-> image]

\* As many calls as there are functions registered; dyld never forgets one.
Calls(n, op, image) == [i \in 1 .. n |-> Call(op, image)]

ImagesInit ==
    /\ nodes = <<>> /\ list = <<>> /\ running = FALSE /\ mutex = None
    /\ dyld = [loaded |-> {}, added |-> 0, removed |-> 0, todo |-> <<>>, step |-> "check", loads |-> 0]
    /\ sdk = [step |-> "off", free |-> <<>>, starts |-> 0]
    /\ callback = [added |-> FALSE, removed |-> FALSE]
    /\ known = [i \in Images |-> 0]

----------------------------------------------------------------------------
(* dyld *)

Load(i) ==
    /\ dyld.todo = <<>> /\ i \notin dyld.loaded /\ dyld.loads < MaxLoads
    /\ dyld' = [dyld EXCEPT !.loaded = @ \cup {i}, !.todo = Calls(dyld.added, "add", i), !.loads = @ + 1]
    /\ UNCHANGED <<nodes, list, running, mutex, sdk, callback, known>>

Unload(i) ==
    /\ dyld.todo = <<>> /\ i \in dyld.loaded /\ dyld.loads < MaxLoads
    /\ dyld' = [dyld EXCEPT !.loaded = @ \ {i}, !.todo = Calls(dyld.removed, "remove", i), !.loads = @ + 1]
    /\ UNCHANGED <<nodes, list, running, mutex, sdk, callback, known>>

Calling(op, step) == dyld.todo # <<>> /\ dyld.todo[1].op = op /\ dyld.step = step

Returns == dyld' = [dyld EXCEPT !.todo = Tail(@), !.step = "check"]

\* binaryImageAdded: the first look at tailNode, and the image for the header.
AddCheck ==
    /\ Calling("add", "check") /\ mutex = None
    /\ IF running /\ dyld.todo[1].image \notin Unreadable
       THEN dyld' = [dyld EXCEPT !.step = "append"]
       ELSE Returns
    /\ UNCHANGED <<nodes, list, running, mutex, sdk, callback, known>>

\* The second look, after which the node is in the list or freed.
AddAppend ==
    /\ Calling("add", "append") /\ mutex = None
    /\ nodes' = Append(nodes, [image |-> dyld.todo[1].image, available |-> running, freed |-> ~running])
    /\ list' = IF running THEN Append(list, Len(nodes')) ELSE list
    /\ IF running THEN dyld' = [dyld EXCEPT !.step = "call"] ELSE Returns
    /\ UNCHANGED <<running, mutex, sdk, callback, known>>

\* The callback reads the node without the lock.  stopCache may have freed it:
\* what is read then may be anything that the memory holds.
AddCallback ==
    /\ Calling("add", "call")
    /\ \E i \in IF nodes[Len(nodes)].freed THEN Images ELSE {dyld.todo[1].image} :
           known' = IF callback.added THEN [known EXCEPT ![i] = @ + 1] ELSE known
    /\ Returns
    /\ UNCHANGED <<nodes, list, running, mutex, sdk, callback>>

\* binaryImageRemoved: the first node with that address, available or not.
FirstNode(i) ==
    LET at == {k \in DOMAIN list : nodes[list[k]].image = i}
    IN  IF at = {} THEN 0 ELSE list[CHOOSE k \in at : \A m \in at : k <= m]

\* The walk takes no lock.  It is one step here: in the code it may stand on a node
\* that stopCache frees (c:119-130), which is left out.
RemoveImage ==
    /\ Calling("remove", "check")
    /\ LET i == dyld.todo[1].image
           n == FirstNode(i)
       IN  /\ nodes' = IF n = 0 THEN nodes ELSE [nodes EXCEPT ![n].available = FALSE]
           /\ known' = IF n = 0 \/ ~callback.removed \/ known[i] = 0 THEN known
                       ELSE [known EXCEPT ![i] = @ - 1]
    /\ Returns
    /\ UNCHANGED <<list, running, mutex, sdk, callback>>

----------------------------------------------------------------------------
(* Start and stop *)

\* sentrycrashbic_startCache, then start of SentryBinaryImageCache.
StartCache ==
    /\ sdk.step = "off" /\ mutex = None /\ sdk.starts < MaxStarts
    /\ running' = TRUE /\ list' = <<>>
    /\ sdk' = [sdk EXCEPT !.step = "register", !.starts = @ + 1]
    /\ UNCHANGED <<nodes, mutex, dyld, callback, known>>

\* _dyld_register_func_for_add_image calls back for every image there is.
RegisterAdd ==
    /\ sdk.step = "register" /\ dyld.todo = <<>>
    /\ \E s \in [1 .. Cardinality(dyld.loaded) -> dyld.loaded] :
           /\ \A i \in dyld.loaded : \E k \in DOMAIN s : s[k] = i
           /\ dyld' = [dyld EXCEPT !.added = @ + 1, !.todo = [k \in DOMAIN s |-> Call("add", s[k])]]
    /\ sdk' = [sdk EXCEPT !.step = "calls"]
    /\ UNCHANGED <<nodes, list, running, mutex, callback, known>>

RegisterRemove ==
    /\ sdk.step = "calls" /\ dyld.todo = <<>>
    /\ dyld' = [dyld EXCEPT !.removed = @ + 1]
    /\ sdk' = [sdk EXCEPT !.step = "added"]
    /\ UNCHANGED <<nodes, list, running, mutex, callback, known>>

\* sentrycrashbic_registerAddedCallback: set, then iterate under the lock.
RegisterAddedCallback ==
    /\ sdk.step = "added"
    /\ known' = [i \in Images |-> 0]
    /\ callback' = [callback EXCEPT !.added = TRUE]
    /\ sdk' = [sdk EXCEPT !.step = "iterate"]
    /\ UNCHANGED <<nodes, list, running, mutex, dyld>>

IterateOverImages ==
    /\ sdk.step = "iterate" /\ mutex = None
    /\ known' = [i \in Images |-> known[i] + Cardinality({k \in DOMAIN list :
                     running /\ nodes[list[k]].available /\ nodes[list[k]].image = i})]
    /\ sdk' = [sdk EXCEPT !.step = "removed"]
    /\ UNCHANGED <<nodes, list, running, mutex, dyld, callback>>

\* sentrycrashbic_registerRemovedCallback
RegisterRemovedCallback ==
    /\ sdk.step = "removed"
    /\ callback' = [callback EXCEPT !.removed = TRUE]
    /\ sdk' = [sdk EXCEPT !.step = "on"]
    /\ UNCHANGED <<nodes, list, running, mutex, dyld, known>>

\* mutant: the nodes are freed before they are taken off the list
StopCache_FreesFirst ==
    /\ sdk.step = "on" /\ mutex = None
    /\ mutex' = "sdk"
    /\ nodes' = [n \in DOMAIN nodes |-> [nodes[n] EXCEPT !.freed = TRUE]]
    /\ sdk' = [sdk EXCEPT !.step = "free", !.free = list]
    /\ UNCHANGED <<list, running, dyld, callback, known>>

\* sentrycrashbic_stopCache: the list is cut off before its nodes are freed.
StopCache ==
    /\ sdk.step = "on" /\ mutex = None
    /\ mutex' = "sdk" /\ running' = FALSE /\ list' = <<>>
    /\ sdk' = [sdk EXCEPT !.step = "free", !.free = list]
    /\ UNCHANGED <<nodes, dyld, callback, known>>

FreeNode ==
    /\ sdk.step = "free"
    /\ IF sdk.free = <<>>
       THEN mutex' = None /\ sdk' = [sdk EXCEPT !.step = "stop"] /\ UNCHANGED nodes
       ELSE /\ nodes' = [nodes EXCEPT ![sdk.free[1]].freed = TRUE]
            /\ sdk' = [sdk EXCEPT !.free = Tail(@)]
            /\ UNCHANGED mutex
    /\ UNCHANGED <<list, running, dyld, callback, known>>

\* stop of SentryBinaryImageCache
StopCallbacks ==
    /\ sdk.step = "stop"
    /\ callback' = [added |-> FALSE, removed |-> FALSE]
    /\ known' = [i \in Images |-> 0]
    /\ sdk' = [sdk EXCEPT !.step = "off"]
    /\ UNCHANGED <<nodes, list, running, mutex, dyld>>

ImagesNext ==
    \/ \E i \in Images : Load(i) \/ Unload(i)
    \/ AddCheck \/ AddAppend \/ AddCallback \/ RemoveImage
    \/ StartCache \/ RegisterAdd \/ RegisterRemove \/ RegisterAddedCallback
    \/ IterateOverImages \/ RegisterRemovedCallback
    \/ StopCache \/ FreeNode \/ StopCallbacks

ImagesSpec == ImagesInit /\ [][ImagesNext]_imageVars

----------------------------------------------------------------------------
(* Properties *)

\* What sentrycrashbic_iterateOverImages reads when the process crashes now.
WalkedNodes == IF running THEN {list[k] : k \in DOMAIN list} ELSE {}

\* The images that the report of a crash would name now.
ReportedImages == {nodes[n].image : n \in {x \in WalkedNodes : nodes[x].available}}

\* The crash handler walks the list without a lock at any moment, also while it
\* is stopped or grows: it never meets a node that was freed.  At rest every
\* loaded image with a readable header is in the report and known to the cache
\* that symbolicates events, whatever was loaded while the caches started,
\* stopped and started again.
ImagesAreComplete ==
    /\ \A n \in WalkedNodes : ~nodes[n].freed
    /\ sdk.step = "on" /\ dyld.todo = <<>> =>
           dyld.loaded \ Unreadable \subseteq ReportedImages \cap {i \in Images : known[i] > 0}

=============================================================================
