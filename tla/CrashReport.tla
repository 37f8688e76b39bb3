------------------------------ MODULE CrashReport ------------------------------
(***************************************************************************)
(* What SentryCrashReport.c writes when the process crashes, and what      *)
(* SentryCrashReportFixer.c makes of it at the next launch.  A section of  *)
(* the report is the sequence of calls it makes on the report writer; runs *)
(* of plain fields stand for one field of their kind.  The crash is a      *)
(* record cr: its type, the threads, images, the scope and the memory the  *)
(* registers and the stack lead to.                                        *)
(***************************************************************************)
EXTENDS JsonCodec, ObjCRuntime, TLC

CONSTANTS MemorySearchDepth,   \* kDefaultMemorySearchDepth
          MaxDepth             \* MAX_DEPTH of the fixer

ASSUME CrashReportAssumption == MemorySearchDepth \in Nat /\ MaxDepth \in Nat

----------------------------------------------------------------------------
(* Calls on the writer *)

Value(name, v) == <<Event("val", name, v)>>

Object(name, body) == <<Event("obj", name, None)>> \o body \o <<Event("end", NoName, None)>>

Array(name, body) == <<Event("arr", name, None)>> \o body \o <<Event("end", NoName, None)>>

JSON(name, toks, close) == <<[k |-> "json", name |-> name, toks |-> toks, close |-> close]>>

JSONFile(name, toks) == <<[k |-> "file", name |-> name, toks |-> toks]>>

When(cond, ops) == IF cond THEN ops ELSE <<>>

Each(n, op(_)) == Fold(LAMBDA ops, i : ops \o op(i), <<>>, [i \in 1 .. n |-> i])

\* A text that holds the whole of a JSON text, control characters escaped.
Whole(toks) == Str(IF Str("huge") \in {toks[i] : i \in DOMAIN toks} THEN "huge" ELSE "text")

\* addJSONElement of SentryCrashReport.c: JSON that cannot be passed on is
\* followed by an object that says so, inside whatever it left open.
WriteJSON(c, op) ==
    LET r == AddJSONElement(c, op.name, op.toks, op.close)
    IN  IF r.ok THEN r
        ELSE EndContainer(AddElement(AddElement(BeginObject(r, op.name),
                 "error", Str("invalid")), "json_data", Whole(op.toks)))

Write(c, op) ==
    CASE op.k = "json" -> WriteJSON(c, op)
      [] op.k = "file" -> AddJSONElementFromFile(c, op.name, op.toks, TRUE)
      [] OTHER -> Encode(c, op)

WriteAll(ops) == EndEncode(Fold(Write, BeginEncode, ops)).out

----------------------------------------------------------------------------
(* Memory introspection *)

\* What the functions of SentryCrashObjC.c say of the word a; text is the set of
\* addresses where isValidString finds a string.
Inspect(mem, text, restricted, a) ==
    LET type == ObjectType(mem, a)
        object == type = "object" /\ ~IsTaggedPointer(a)
    IN  [kind |-> IF type = "unknown" /\ a \in text THEN "text" ELSE type,
         class |-> IF type = "object" THEN ObjectClassType(mem, a) ELSE "unknown",
         tagged |-> IsTaggedPointer(a),
         pointer |-> IsTaggedPointer(a) => IsValidTaggedPointer(a),
         restricted |-> type = "object" /\ ObjectClassName(mem, a) \in restricted,
         first |-> IF object /\ ArrayContents(mem[a].array, 1) = 1 THEN mem[a].array.first ELSE -1,
         ivars |-> IF object THEN IvarList(mem[mem[a].isa]) ELSE <<>>]

\* The heap of a crash is a function from words to what Inspect says of them.
Interesting == {"class", "object", "block", "text"}

\* isValidPointer
IsValidPointer(heap, a) == a # 0 /\ heap[a].pointer

\* isNotableAddress
IsNotableAddress(heap, a) == IsValidPointer(heap, a) /\ heap[a].kind \in Interesting

RECURSIVE WriteMemoryContents(_, _, _, _)

\* writeUnknownObjectContents: only pointers are followed.
WriteIvar(heap, r, ivar) ==
    IF IvarValue(ivar) < 0
    THEN [r EXCEPT !.ops = @ \o Value(ivar.name, Num("int"))]
    ELSE LET m == WriteMemoryContents(heap, ivar.name, IvarValue(ivar), r.limit)
         IN  [ops |-> r.ops \o m.ops, limit |-> m.limit]

WriteUnknownObjectContents(heap, a, limit) ==
    LET o == heap[a]
        r == Fold(LAMBDA x, ivar : WriteIvar(heap, x, ivar),
                  [ops |-> <<>>, limit |-> limit - 1 - Len(o.ivars)], o.ivars)
    IN  IF o.tagged
        THEN [ops |-> Object("ivars", Value("tagged_payload", Num("int"))), limit |-> limit - 1]
        ELSE [ops |-> Object("ivars", r.ops), limit |-> r.limit]

\* writeArrayContents: the first element.
WriteArrayContents(heap, a, limit) ==
    IF heap[a].first < 0 THEN [ops |-> <<>>, limit |-> limit]
    ELSE WriteMemoryContents(heap, "first_object", heap[a].first, limit)

\* mutant: containers are followed whatever the limit
ClassContents_NoLimit(heap, a, limit) ==
    CASE heap[a].class \in {"string", "url", "date", "number"} ->
             [ops |-> Value("value", Str("text")), limit |-> limit]
      [] heap[a].class = "array" /\ limit > -MaxIvars -> WriteArrayContents(heap, a, limit)
      [] heap[a].class = "unknown" /\ limit > 0 -> WriteUnknownObjectContents(heap, a, limit)
      [] OTHER -> [ops |-> <<>>, limit |-> limit]

\* The contents of an object, by what its class is.
ClassContents(heap, a, limit) ==
    CASE heap[a].class \in {"string", "url", "date", "number"} ->
             [ops |-> Value("value", Str("text")), limit |-> limit]
      [] heap[a].class = "array" /\ limit > 0 -> WriteArrayContents(heap, a, limit)
      [] heap[a].class = "unknown" /\ limit > 0 -> WriteUnknownObjectContents(heap, a, limit)
      [] OTHER -> [ops |-> <<>>, limit |-> limit]

\* writeObjCObject; an object of a restricted class counts as not handled.
WriteObjCObject(heap, a, limit) ==
    LET o == heap[a]
        head == Value("type", Str(o.kind)) \o Value("class", Str("name"))
        body == ClassContents(heap, a, limit)
    IN  CASE o.kind \in {"class", "block"} -> [ops |-> head, limit |-> limit, handled |-> TRUE]
          [] o.kind = "object" /\ o.restricted -> [ops |-> head, limit |-> limit, handled |-> FALSE]
          [] o.kind = "object" /\ ~o.restricted ->
                 [ops |-> head \o body.ops, limit |-> body.limit, handled |-> TRUE]
          [] OTHER -> [ops |-> <<>>, limit |-> limit, handled |-> FALSE]

WriteMemoryContents(heap, name, a, limit) ==
    LET r == WriteObjCObject(heap, a, limit - 1)
        plain == CASE r.handled -> <<>>
                   [] ~r.handled /\ a = 0 -> Value("type", Str("null_pointer"))
                   [] ~r.handled /\ a # 0 /\ heap[a].kind = "text" ->
                          Value("type", Str("string")) \o Value("value", Str("text"))
                   [] OTHER -> Value("type", Str("unknown"))
    IN  [ops |-> Object(name, Value("address", Num("uint")) \o r.ops \o plain), limit |-> r.limit]

WriteMemoryContentsIfNotable(heap, name, a) ==
    When(IsNotableAddress(heap, a), WriteMemoryContents(heap, name, a, MemorySearchDepth).ops)

\* writeAddressReferencedByString
WriteAddressReferencedByString(heap, name, a) ==
    When(a >= 0, WriteMemoryContents(heap, name, a, MemorySearchDepth).ops)

----------------------------------------------------------------------------
(* Threads *)

WriteFrame(symbolicated) ==
    Object(NoName,
        When(symbolicated, Value("object_name", Str("text")) \o Value("object_addr", Num("uint"))
                           \o Value("symbol_name", Str("text")) \o Value("symbol_addr", Num("uint")))
        \o Value("instruction_addr", Num("uint")))

WriteBacktrace(frames) ==
    Object("backtrace", Array("contents", Each(Len(frames), LAMBDA i : WriteFrame(frames[i])))
                        \o Value("skipped", Num("int")))

\* writeStackContents; nothing without a stack pointer.
WriteStackContents(stack) ==
    When(stack # "none",
         Object("stack", Value("dump_start", Num("uint"))
                         \o IF stack = "readable" THEN Value("contents", Str("text"))
                                                  ELSE Value("error", Str("text"))))

WriteBasicRegisters(n) == Object("basic", Each(n, LAMBDA i : Value("r" \o ToString(i), Num("uint"))))

WriteExceptionRegisters == Object("exception", Value("exception", Num("uint")))

WriteRegisters(t) ==
    Object("registers", WriteBasicRegisters(t.registers)
                        \o When(t.exceptionRegisters, WriteExceptionRegisters))

WriteNotableRegisters(heap, regs) ==
    Each(Len(regs), LAMBDA i : WriteMemoryContentsIfNotable(heap, "r" \o ToString(i), regs[i]))

WriteNotableStackContents(heap, words) ==
    Each(Len(words), LAMBDA i : WriteMemoryContentsIfNotable(heap, "stack@" \o ToString(i), words[i]))

WriteNotableAddresses(cr) ==
    Object("notable_addresses", WriteNotableRegisters(cr.heap, cr.regs)
                                \o WriteNotableStackContents(cr.heap, cr.words))

WriteThread(cr, name, t, notable) ==
    Object(name,
        WriteBacktrace(t.frames)
        \o When(t.cpuState, WriteRegisters(t))
        \o Value("index", Num("int"))
        \o When(t.named, Value("name", Str("text")))
        \o When(t.queue, Value("dispatch_queue", Str("text")))
        \o Value("crashed", Lit("true")) \o Value("current_thread", Lit("false"))
        \o When(t.crashed, WriteStackContents(t.stack)
                           \o When(notable, WriteNotableAddresses(cr))))

\* Without a machine context there is no list of threads at all.
WriteAllThreads(cr) ==
    When(cr.context, Array("threads", Each(Len(cr.threads),
                               LAMBDA i : WriteThread(cr, NoName, cr.threads[i], cr.introspect))))

----------------------------------------------------------------------------
(* The other sections *)

WriteBinaryImage(image) ==
    Object(NoName, Value("image_addr", Num("uint")) \o Value("name", Str("text"))
                   \o Value("uuid", IF image.uuid THEN Str("text") ELSE Lit("null"))
                   \o Value("cpu_type", Num("int"))
                   \o When(image.message, Value("crash_info_message", Str("text"))))

WriteBinaryImages(images) ==
    Array("binary_images", Each(Len(images), LAMBDA i : WriteBinaryImage(images[i])))

WriteMemoryInfo == Object("memory", Value("size", Num("uint")))

WriteAppStats ==
    Object("application_stats", Value("application_active", Lit("true"))
                                \o Value("launches_since_last_crash", Num("int"))
                                \o Value("active_time_since_launch", Num("fp")))

WriteSystemInfo ==
    Object("system", Value("system_name", Str("text")) \o Value("jailbroken", Lit("false"))
                     \o Value("cpu_type", Num("int")) \o WriteMemoryInfo \o WriteAppStats)

WriteProcessState(cr) ==
    Object("process",
        When(cr.zombie >= 0,
             Object("last_dealloced_nsexception",
                    Value("address", Num("uint")) \o Value("name", Str("text"))
                    \o Value("reason", Str("text"))
                    \o WriteAddressReferencedByString(cr.heap, "referenced_object", cr.zombie))))

\* sentrycrashmach_kernelReturnCodeName: the codes of the kernel and of ARM that
\* have a name.
KernelReturnCodes == (0 .. 50) \cup (257 .. 261)

\* writeError, with the part of each type of crash.
WriteError(cr) ==
    LET named == Value("name", Str("text"))
        reason == When(cr.reason # "none", Value("reason", Str(cr.reason)))
    IN  Object("error",
            Object("mach", Value("exception", Num("uint")) \o Value("code", Num("uint"))
                           \o When(cr.code # 0 /\ cr.code \in KernelReturnCodes,
                                   Value("code_name", Str("text"))))
            \o Object("signal", Value("signal", Num("uint")) \o When(cr.signalName, named))
            \o Value("address", Num("uint")) \o reason
            \o Value("type", Str(cr.type))
            \o When(cr.type = "cpp_exception", Object("cpp_exception", named))
            \o When(cr.type = "nsexception",
                    Object("nsexception", named \o Value("userInfo", Str("text")) \o reason)))

WriteReportInfo(type) ==
    Object("report", Value("version", Str("text")) \o Value("timestamp", Num("int"))
                     \o Value("type", Str(type)))

NoJSON == <<>>

\* The breadcrumbs of the ring, the oldest first.
WriteCrumbs(crumbs, current) ==
    LET n == Len(crumbs)
        at(i) == crumbs[((current + i - 1) % n) + 1]
    IN  When(\E i \in 1 .. n : crumbs[i] # NoJSON,
             Array("breadcrumbs", Each(n, LAMBDA i :
                 When(at(i) # NoJSON, JSON("crumb", at(i), FALSE)))))

ScopeEntries == <<"user", "dist", "context", "traceContext", "environment", "tags",
                  "extra", "fingerprint", "level">>

WriteScopeJson(cr) ==
    Object("sentry_sdk_scope",
        Each(Len(ScopeEntries), LAMBDA i :
            LET toks == cr.scope[ScopeEntries[i]]
            IN  When(toks # NoJSON, JSON(ScopeEntries[i], toks, FALSE)))
        \o WriteCrumbs(cr.crumbs, cr.currentCrumb))

\* The user section: the JSON leaves its object open for the endContainer.
WriteUser(cr) ==
    (IF cr.userInfo # NoJSON THEN JSON("user", cr.userInfo, FALSE)
                             ELSE <<Event("obj", "user", None)>>)
    \o <<Event("end", NoName, None)>>

\* writeDebugInfo: the lines of the log, if it can be opened.
WriteDebugInfo(cr) ==
    Object("debug", When(cr.log >= 0,
                         Array("console_log", Each(cr.log, LAMBDA i : Value(NoName, Str("text"))))))

\* The sections of a report, SentryCrashField_Report and the fields after it.
Sections == {"report", "binary_images", "process", "system", "crash", "sentry_sdk_scope", "user", "debug"}

\* sentrycrashreport_writeStandardReport
StandardReport(cr) ==
    WriteAll(Object("report",
        WriteReportInfo("standard")
        \o WriteBinaryImages(cr.images)
        \o WriteProcessState(cr)
        \o WriteSystemInfo
        \o Object("crash", WriteError(cr) \o WriteAllThreads(cr))
        \o WriteScopeJson(cr)
        \o WriteUser(cr)
        \o WriteDebugInfo(cr)))

\* sentrycrashreport_writeRecrashReport, around the report of the first crash.
RecrashReport(cr, old) ==
    WriteAll(Object("report",
        JSONFile("recrash_report", old)
        \o WriteReportInfo("minimal")
        \o Object("crash", WriteError(cr)
                           \o WriteThread(cr, "crashed_thread", cr.threads[1], FALSE))))

----------------------------------------------------------------------------
(* SentryCrashReportFixer.c *)

DatePaths == { <<"", "report", "timestamp">>,
               <<"", "recrash_report", "report", "timestamp">> }

\* The name of an array element counts as empty.
PathName(name) == IF name = NoName THEN "" ELSE name

\* increaseDepth and decreaseDepth
PathAfter(path, ev) ==
    CASE ev.k \in {"obj", "arr"} -> Append(path, PathName(ev.name))
      [] ev.k = "end" -> Pop(path)
      [] OTHER -> path

\* shouldFixDate
ShouldFixDate(path, ev) ==
    ev.k = "val" /\ ev.v = Num("int") /\ Append(path, PathName(ev.name)) \in DatePaths

\* The callbacks of the fixer: everything is written as it came, the timestamps
\* of the report and of an embedded report as dates.
FixEvent(z, ev) ==
    LET c == IF ShouldFixDate(z.path, ev) THEN AddElement(z.c, ev.name, Str("date"))
                                          ELSE Encode(z.c, ev)
        path == PathAfter(z.path, ev)
    IN  IF ~z.c.ok THEN z
        ELSE [c |-> [c EXCEPT !.ok = @ /\ Len(path) <= MaxDepth], path |-> path]

\* sentrycrashcrf_fixupCrashReport
FixupCrashReport(toks) ==
    LET d == Decode(toks, NoName, DecodeBuffers)
        z == Fold(FixEvent, [c |-> BeginEncode, path |-> <<>>], d.evs)
    IN  [ok |-> d.ok /\ z.c.ok, out |-> EndEncode(z.c).out]

=============================================================================
