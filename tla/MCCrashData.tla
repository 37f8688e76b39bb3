------------------------------ MODULE MCCrashData ------------------------------
(***************************************************************************)
(* What a crash leaves behind, over bounded inputs: one report is written, *)
(* written again by a crash of the handler, and fixed at the next launch;  *)
(* and each tool under the handler does one job.  The jobs are chosen in   *)
(* Init, an action does the job, the properties compare what came out with *)
(* a definition of what was wanted.                                        *)
(***************************************************************************)
EXTENDS CrashReport, CrashTools, StackUnwinding

VARIABLES job,     \* what is to be done
          phase,   \* "new", then what was done last
          out      \* what came out of it

vars == <<job, phase, out>>

----------------------------------------------------------------------------
(* Crashes *)

Texts == {"ok", "ctl", "mid", "long", "huge"}

JSONValues == {Str(s) : s \in Texts} \cup {Num("int"), Lit("null")}

Member(n, v) == <<Punct("{"), Str(n), Punct(":")>> \o v \o <<Punct("}")>>

List(v) == <<Punct("["), Str("ok"), Punct(",")>> \o v \o <<Punct("]")>>

Plain == Member("ok", <<Str("ok")>>)

\* An object inside n others.
Nested(n) == Fold(LAMBDA v, i : Member("ok", v), <<Punct("{"), Punct("}")>>, [i \in 1 .. n |-> i])

Docs == {Member(n, <<v>>) : n \in Texts, v \in JSONValues}
        \cup {Member("ok", Member(n, <<Str(s)>>)) : n \in Texts, s \in Texts}
        \cup {Member("ok", List(<<v>>)) : v \in JSONValues}
        \cup {Nested(n) : n \in MaxDepth - 6 .. MaxDepth}

FewDocs == {Plain, Member("ctl", <<Str("ok")>>), Member("ok", Member("ok", <<Str("long")>>)),
            Member("ok", List(<<Num("int")>>))}

Scalars == {<<Str(s)>> : s \in Texts} \cup {List(<<Str("ctl")>>)}

Thread == [frames |-> <<TRUE, FALSE>>, cpuState |-> TRUE, registers |-> 2,
           exceptionRegisters |-> TRUE, named |-> TRUE, queue |-> FALSE, crashed |-> TRUE,
           stack |-> "readable"]

Idle == [Thread EXCEPT !.crashed = FALSE, !.cpuState = FALSE, !.named = FALSE, !.queue = TRUE]

Words == 0 .. 13

\* An object at 2 of the class at 4, whose superclass is the root at 6.
NoArray == [count |-> 0, kind |-> "plain", readable |-> TRUE, first |-> 0]

Class == [isa |-> 4, super |-> 6, rw |-> "ro", meta |-> FALSE, root |-> FALSE, name |-> "Thing",
          ivarList |-> "ok", ivars |-> <<>>, array |-> NoArray]

Ivar(valid, to) == [valid |-> valid, name |-> "ivar", to |-> to]

Classes == {[Class EXCEPT !.name = n] : n \in {"NSCFString", "NSDate", "junk"}}
           \cup {[Class EXCEPT !.meta = TRUE], [Class EXCEPT !.rw = "badro"], [Class EXCEPT !.super = 3]}
           \cup {[Class EXCEPT !.ivars = <<Ivar(v, s), Ivar(w, t), Ivar(TRUE, -1)>>] :
                   v, w \in BOOLEAN, s, t \in {0, 2, 5, 8}}

Arrays == {[Class EXCEPT !.array = [count |-> c, kind |-> k, readable |-> r, first |-> f]] :
             c \in 0 .. 1, k \in {"plain", "mutable"}, r \in BOOLEAN, f \in {2, 8}}

Roots == {[Class EXCEPT !.root = TRUE, !.name = n] : n \in {"NSObject", "unreadable"}}

Memories ==
    {[a \in {2, 4, 6} |-> CASE a = 2 -> Class [] a = 4 -> c [] a = 6 -> r] : c \in Classes, r \in Roots}
    \cup {[a \in {2, 4, 6} |-> CASE a = 2 -> o [] a = 4 -> [Class EXCEPT !.name = "NSArrayI"]
                                 [] a = 6 -> [Class EXCEPT !.root = TRUE, !.name = "NSObject"]] : o \in Arrays}
    \cup {[a \in {2, 4, 6} |-> CASE a = 2 -> Class [] a = 4 -> [Class EXCEPT !.super = 6]
                                 [] a = 6 -> [Class EXCEPT !.root = TRUE, !.name = "NSBlock"]],
          [a \in {2, 4, 6} |-> CASE a = 2 -> [Class EXCEPT !.isa = 6] [] a = 4 -> Class
                                 [] a = 6 -> [Class EXCEPT !.super = 4]]}

Heap(mem, restricted) == [a \in Words |-> Inspect(mem, {8}, restricted, a)]

Base == [type |-> "mach", code |-> 1, reason |-> "none", signalName |-> TRUE, context |-> TRUE,
         threads |-> <<Thread, Idle>>, introspect |-> FALSE, regs |-> <<2, 0>>, words |-> <<8, 5>>,
         heap |-> Heap([a \in {} |-> Class], {}), zombie |-> -1,
         images |-> <<[uuid |-> TRUE, message |-> FALSE], [uuid |-> FALSE, message |-> TRUE]>>,
         scope |-> [e \in {ScopeEntries[i] : i \in 1 .. Len(ScopeEntries)} |-> NoJSON],
         crumbs |-> <<NoJSON, NoJSON>>, currentCrumb |-> 0, userInfo |-> NoJSON, log |-> 2]

ScopeCases == {[Base EXCEPT !.scope["user"] = d, !.scope["tags"] = e, !.scope["level"] = s] :
                 d \in Docs \cup {NoJSON}, e \in FewDocs, s \in Scalars}

CrumbCases == {[Base EXCEPT !.crumbs = <<d, e>>, !.currentCrumb = i, !.userInfo = u, !.log = l] :
                 d \in {NoJSON, Plain}, e \in {NoJSON} \cup FewDocs, i \in 0 .. 1,
                 u \in {NoJSON} \cup FewDocs, l \in {-1, 2}}

ErrorCases == {[Base EXCEPT !.type = t, !.reason = r, !.context = c, !.zombie = z, !.code = n,
                            !.threads = <<[Thread EXCEPT !.stack = k], Idle>>] :
                 t \in {"mach", "signal", "cpp_exception", "nsexception"}, c \in BOOLEAN,
                 r \in {"none", "ok", "ctl", "mid", "huge"},
                 z \in {-1, 0, 2}, n \in {0, 261, 262}, k \in {"none", "readable", "unreadable"}}

HeapCases == {[Base EXCEPT !.introspect = TRUE, !.heap = Heap(mem, r)] :
                mem \in Memories, r \in {{}, {"Thing"}}}

Crashes == ScopeCases \cup CrumbCases \cup ErrorCases \cup HeapCases

----------------------------------------------------------------------------
(* Other jobs *)

SeqsUpTo(S, n) == UNION {[1 .. k -> S] : k \in 0 .. n}

\* Strings to escape, digits of numbers, UTF-16, bytes that may be text, numbers
\* in a text, sizes of the elements of a file.
EscapeJobs == {[k |-> "escape", s |-> s] : s \in SeqsUpTo({"a", "\"", "\\", "NL", "CTL"}, 4)}

NumberJobs == {[k |-> "number", negative |-> n, digits |-> d] :
                 n \in BOOLEAN, d \in SeqsUpTo({0, 1, 6, 9}, 3) \ {<<>>}}

UTF16Jobs == {[k |-> "utf16", s |-> s, room |-> r] :
                s \in SeqsUpTo({65, 233, 8364, 55357, 56832}, 3) \ {<<>>}, r \in 1 .. 6}

\* Every lead byte before some continuation bytes, among them too few and too many.
LeadBytes == {<<l>> \o [i \in 1 .. n |-> c] \o <<0>> : l \in 128 .. 255, n \in 0 .. 6, c \in {65, 128, 191}}

UTF8Jobs == {[k |-> "utf8", s |-> s, mem |-> 1 .. e] :
               s \in (SeqsUpTo({0, 1, 9, 65, 128, 192, 226, 255}, 4) \ {<<>>}) \cup LeadBytes, e \in {2, 8}}

UnicodeJobs == {[k |-> "unicode", s |-> s] :
                  s \in SeqsUpTo({<<0, 0, 4, 1>>, <<0, 0, 14, 9>>, <<2, 0, 10, 12>>, <<13, 8, 3, 13>>,
                                  <<13, 14, 0, 0>>, <<0, 0, 0, 16>>}, 3)}

HexJobs == {[k |-> "hex", s |-> s] : s \in SeqsUpTo({0, 15, -1, -2}, 5)}

ElementJobs == {[k |-> "elements", s |-> s] : s \in SeqsUpTo({1, 3, 4, 6}, 4)}

\* A page boundary in the memory, a range that starts at 1.
MemoryJobs == {[k |-> "memory", mem |-> m, n |-> n] : m \in {1 .. e : e \in 0 .. 9}, n \in 1 .. 9}

LineJobs == {[k |-> "lines", s |-> s, chunk |-> c] : s \in SeqsUpTo({10, 65, 66}, 5), c \in {1, 2, 8}}

WriteJobs ==
    {[k |-> "writes", s |-> s, room |-> r, exists |-> x] :
            s \in SeqsUpTo({0, 1, 2, 4}, 4), r \in {3, 40}, x \in BOOLEAN}

\* A path to make where some directories exist and some cannot be made.
MakeJobs == {[k |-> "make", fs |-> {SubSeq(<<"a", "b", "c">>, 1, i) : i \in 1 .. n}, refused |-> r] :
               n \in 0 .. 3, r \in SUBSET {<<"a">>, <<"a", "b">>, <<"a", "b", "c">>}}

\* A value whose size may change between the two calls that read it.
SysctlJobs == {[k |-> "sysctl", works |-> w, size |-> n, then |-> m] : w \in BOOLEAN, n, m \in 0 .. 3}

UUIDJobs == {[k |-> "uuid", bytes |-> [i \in 1 .. 16 |-> (i * m) % 256]] : m \in 0 .. 40}

\* Mach exceptions with codes.
SignalJobs == {[k |-> "signal", exception |-> e, code |-> c] : e \in MachExceptions,
                 c \in {"KERN_INVALID_ADDRESS", "EXC_UNIX_BAD_SYSCALL", "EXC_UNIX_BAD_PIPE",
                         "EXC_UNIX_ABORT", "EXC_SOFT_SIGNAL", "other"}}

\* The end of a file, and a directory tree whose part below <<"r", "s">> goes.
TailJobs == {[k |-> "tail", s |-> s, max |-> m] : s \in SeqsUpTo({10, 65}, 4), m \in 0 .. 3}

Tree == {<<"r">>, <<"r", "s">>, <<"r", "a">>, <<"r", "s", ".">>, <<"r", "s", "..">>, <<"r", "s", "b">>,
         <<"r", "s", "c">>, <<"r", "s", "c", "d">>}

DeleteJobs == {[k |-> "delete", fs |-> fs, path |-> p] : fs \in SUBSET Tree, p \in {<<"r", "s">>, <<"r">>}}

Arches == {Arm64, Arm, X86_64, X86}

RegisterJobs == {[k |-> "registers", arch |-> a] : a \in Arches}

\* Three frames that lie where the architecture aligns them, with any links among
\* them, to no frame at all and to a place between two frames.
Frames == {4, 8, 12}

Links == {0, 4, 6, 8, 12}

Aligned(arch, x) == IF x > 0 /\ arch.call = 3 THEN x + 2 ELSE x

StackJobs ==
    {[k |-> "walk", arch |-> a, pc |-> p, lr |-> Aligned(a, l), fp |-> Aligned(a, f), start |-> b,
      stack |-> [x \in {Aligned(a, y) : y \in Frames} |->
                    LET y == CHOOSE z \in Frames : Aligned(a, z) = x
                    IN  [previous |-> Aligned(a, s[y]), return |-> IF y = 12 THEN r ELSE y + 5]]] :
        a \in Arches, p \in {0, 13}, l \in {0, 4, 7}, f \in Links \ {12}, b \in {13, 17},
        s \in [Frames -> Links], r \in {0, 15}}

Image(slide, base, syms) ==
    [magic |-> "64", name |-> "image", slide |-> slide, info |-> [present |-> FALSE],
     cmds |-> << [cmd |-> "segment", name |-> "TEXT", vmaddr |-> base, size |-> 4, fileoff |-> 0],
                 [cmd |-> "uuid"], [cmd |-> "symtab", syms |-> syms],
                 [cmd |-> "segment", name |-> "LINKEDIT", vmaddr |-> base + 4, size |-> 2, fileoff |-> 1] >>]

Corrupt == [Image(0, 1, <<1>>) EXCEPT !.magic = "corrupt"]

SymbolJobs ==
    {[k |-> "symbol", arch |-> a, address |-> x, images |-> <<Corrupt, Image(s, 1, t), Image(8, 1, <<2>>)>>] :
        a \in Arches, x \in 1 .. 16, s \in {0, 1, 8}, t \in SeqsUpTo({0, 1, 2, 4}, 3)}

\* The crash info of an image: its message may lie at the end of the memory.
Message(e, bytes) == [address |-> 1, bytes |-> bytes, end |-> e, readable |-> MaxReadableBytes(1 .. e, 1, 4)]

ImageJobs ==
    {[k |-> "image", image |-> [(IF c THEN Corrupt ELSE Image(0, 1, <<1>>)) EXCEPT !.info =
        [present |-> TRUE, large |-> TRUE, readable |-> r, version |-> v, messages |-> <<Message(e, s)>>]]] :
        c, r \in BOOLEAN, v \in {3, 4, 5}, e \in 0 .. 6, s \in SeqsUpTo({0, 65}, 5) \ {<<>>}}

ThreadJobs == {[k |-> "threads", n |-> n, crashed |-> c] : n \in 1 .. 4, c \in 1 .. 4}

InspectJobs == {[k |-> "inspect", mem |-> m, a |-> a] : m \in Memories, a \in Words}

NameJobs == {[k |-> "name", s |-> s] : s \in SeqsUpTo(DOMAIN NameChars, 4)}

StringJobs ==
    {[k |-> "string", max |-> m,
      str |-> [header |-> h, inline |-> i, mutable |-> u, lengthByte |-> b, length |-> l, byte |-> y, readable |-> r]] :
        m \in {0, 1, 3}, h, i, u, b \in BOOLEAN, l \in -1 .. 3, y \in 0 .. 3, r \in 0 .. 4}

DescribeJobs ==
    {[k |-> "describe", parts |-> p, size |-> n] : n \in 1 .. 12,
            p \in {StringDescription(Part(w, l)) : w \in {"8bit", "16bit"}, l \in {0, 4}}
                  \cup {TaggedStringDescription(l) : l \in {0, 3, 11}}
                  \cup {ArrayDescription(TaggedStringDescription(4)), ArrayDescription(<<>>),
                        ArrayDescription(DateDescription(2)), NumberDescription(5),
                        URLDescription(Part("8bit", 4))}}

TaggedJobs == {[k |-> "tagged", p |-> p] : p \in 0 .. 2 ^ PointerBits - 1}

CrashJobs == {[k |-> "crash", cr |-> c] : c \in Crashes}

Init ==
    /\ phase = "new" /\ out = <<>>
    /\ \/ job \in CrashJobs
       \/ job \in EscapeJobs \/ job \in NumberJobs \/ job \in UTF16Jobs \/ job \in UTF8Jobs
       \/ job \in HexJobs \/ job \in UnicodeJobs \/ job \in ElementJobs
       \/ job \in MemoryJobs \/ job \in LineJobs \/ job \in WriteJobs \/ job \in TailJobs \/ job \in DeleteJobs
       \/ job \in MakeJobs \/ job \in SysctlJobs \/ job \in UUIDJobs \/ job \in SignalJobs
       \/ job \in ImageJobs \/ job \in NameJobs \/ job \in StringJobs
       \/ job \in RegisterJobs \/ job \in StackJobs \/ job \in SymbolJobs \/ job \in ThreadJobs
       \/ job \in InspectJobs \/ job \in DescribeJobs \/ job \in TaggedJobs

----------------------------------------------------------------------------
(* Actions *)

Does(k, done, result) == job.k = k /\ phase' = done /\ out' = result /\ UNCHANGED job

WriteStandardReport == phase = "new" /\ Does("crash", "written", StandardReport(job.cr))

WriteRecrashReport == phase = "written" /\ Does("crash", "rewritten", RecrashReport(job.cr, out))

Fixup ==
    /\ phase \in {"written", "rewritten"}
    /\ Does("crash", "fixed", [report |-> out, fixed |-> FixupCrashReport(out)])

EncodeText == phase = "new" /\ Does("escape", "done", AddEscapedString(job.s))

DecodeNumberText == phase = "new" /\ Does("number", "done", DecodeNumber(job.negative, job.digits))

ConvertText ==
    phase = "new" /\ Does("utf16", "done",
                          CopyAndConvertUTF16StringToUTF8(Append(job.s, 56832), Len(job.s), job.room))

RecogniseText == phase = "new" /\ Does("utf8", "done", 
        [text |-> IsNullTerminatedUTF8String(job.s, 1), valid |-> IsValidString(job.mem, 1, job.s, 1)])

FindNumber == phase = "new" /\ Does("hex", "done", ExtractHexValue(job.s))

DecodeEscapes == phase = "new" /\ Does("unicode", "done", DecodeUnicode(job.s))

ReadElements == phase = "new" /\ Does("elements", "done", AddJSONFromFile(job.s))

ReadMemory ==
    phase = "new" /\ Does("memory", "done", [copied |-> CopyMaxPossible(job.mem, 1, job.n),
                                             most |-> MaxReadableBytes(job.mem, 1, job.n),
                                             readable |-> IsMemoryReadable(job.mem, 1, job.n)])

ReadLinesOfFile == phase = "new" /\ Does("lines", "done", AddTextLinesFromFile(job.s, job.chunk))

\* Piece i of what is written is i, as many times as its length.
Piece(i, n) == [x \in 1 .. n |-> i]

WritePieces ==
    phase = "new" /\ Does("writes", "done",
        LET w0 == OpenBufferedWriter(job.exists, 3, job.room)
        IN  IF ~w0.ok THEN w0
            ELSE CloseBufferedWriter(Fold(LAMBDA w, i : WriteBufferedWriter(w, Piece(i, job.s[i])),
                                          w0, [i \in 1 .. Len(job.s) |-> i])))

ReadTail == phase = "new" /\ Does("tail", "done", ReadEntireFile(job.s, job.max, Len(job.s)))

ClearDirectory == phase = "new" /\ Does("delete", "done", DeleteContentsOfPath(job.fs, job.path))

MakeDirectories == phase = "new" /\ Does("make", "done", MakePath(job.fs, <<"a", "b", "c">>, job.refused))

ReadSysctl ==
    phase = "new" /\ Does("sysctl", "done",
        [number |-> Sysctl(job.works, job.then), time |-> SysctlTimeval(job.works, job.then),
         mac |-> GetMacAddress(Sysctl(job.works, 1), job.size, job.then), sized |-> SysctlSized(Sysctl(job.works, job.size), job.then)])

WriteUUID == phase = "new" /\ Does("uuid", "done", ConvertBinaryImageUUID(job.bytes))

NameSignal ==
    phase = "new" /\ Does("signal", "done",
        LET sig == SignalForMachException(job.exception, job.code)
        IN  [signal |-> sig, name |-> SignalName(sig), back |-> MachExceptionForSignal(sig),
             codes |-> {SignalCodeName(sig, c) : c \in {"ADRALN", "FLTDIV", "ILLOPC", "MAPERR", "BRKPT"}}])

ReadImage ==
    phase = "new" /\ Does("image", "done",
        [binary |-> GetBinaryImageForHeader(job.image, TRUE), uuid |-> ImageUUID(<<job.image>>, "image")])

CheckName ==
    phase = "new" /\ Does("name", "done", [name |-> IsValidNameChars(job.s), type |-> IsValidIvarTypeChars(job.s)])

CopyString ==
    phase = "new" /\ Does("string", "done", [valid |-> StringIsValid(job.str), length |-> StringLength(job.str),
                                             copied |-> Copy8BitString(job.str, job.max)])

Context(arch, pc, lr, fp) ==
    [arch |-> arch, thread |-> 1, current |-> FALSE, crashed |-> TRUE, signal |-> FALSE,
     overflow |-> FALSE, threads |-> <<>>,
     state |-> [f \in ({arch.pc, arch.lr, arch.fp} \ {"none"}) |->
                  IF f = arch.pc THEN pc ELSE IF f = arch.lr THEN lr ELSE fp]]

\* Every field holds the number of its place among all names.
ReadRegisters ==
    phase = "new" /\ Does("registers", "done",
        LET a == job.arch
            all == a.names \o a.exceptionNames
            ctx == [arch |-> a, state |-> [f \in {all[i] : i \in DOMAIN all} |-> CHOOSE i \in DOMAIN all : all[i] = f]]
        IN  [values |-> [i \in 1 .. Len(a.names) + 1 |-> RegisterValue(ctx, i)],
             exceptions |-> [i \in DOMAIN a.exceptionNames |-> ExceptionRegisterValue(ctx, i)],
             special |-> {FramePointer(ctx), StackPointer(ctx), InstructionAddress(ctx)},
             fault |-> FaultAddress(ctx)])

Depth == 4

Bounds(start) == [start |-> start, end |-> 2]

WalkStack ==
    phase = "new" /\ Does("walk", "done",
        LET ctx == Context(job.arch, job.pc, job.lr, job.fp)
        IN  [crash |-> Walk(job.stack, ctx, Depth),
             context |-> GetContext(job.stack, ctx, <<1>>, Depth),
             sample |-> Backtrace(job.stack, ctx, Bounds(job.start), Depth),
             given |-> WalkBacktrace(ctx, <<job.lr, job.pc, 9>>, 1),
             crashed |-> StackOf(job.stack, ctx, [thread |-> 1, stack |-> <<9>>], Depth),
             other |-> StackOf(job.stack, ctx, [thread |-> 2, stack |-> <<9>>], Depth),
             faulted |-> HasValidExceptionRegisters([ctx EXCEPT !.current = (job.lr = 0)])])

NameAddress ==
    phase = "new" /\ Does("symbol", "done", Symbolicate(Context(job.arch, 1, 0, 0), job.images, job.address))

ListThreads ==
    phase = "new" /\ Does("threads", "done",
        LET list == GetThreadList([i \in 1 .. job.n |-> i])
        IN  [list |-> list, crashed |-> IndexOfThread(list.kept, job.crashed)])

InspectWord ==
    phase = "new" /\ Does("inspect", "done",
        [type |-> ObjectType(job.mem, job.a), names |-> NamesRead(job.mem, job.a),
         ivars |-> IvarsRead(job.mem, job.a)])

DescribeObject == phase = "new" /\ Does("describe", "done", Describe(job.parts, job.size))

ReadTagged ==
    phase = "new" /\ Does("tagged", "done",
        [valid |-> IsValidObject([a \in {} |-> Class], job.p), number |-> ExtractTaggedNSNumber(job.p),
         integer |-> NumberAsInteger([pointer |-> job.p, type |-> "int", value |-> 3]),
         places |-> ExtractTaggedNSString(job.p, 16)])

Next ==
    \/ WriteStandardReport \/ WriteRecrashReport \/ Fixup
    \/ EncodeText \/ DecodeNumberText \/ ConvertText \/ RecogniseText \/ FindNumber \/ DecodeEscapes \/ ReadElements
    \/ ReadMemory \/ ReadLinesOfFile \/ WritePieces \/ ReadTail \/ ClearDirectory
    \/ MakeDirectories \/ ReadSysctl \/ WriteUUID \/ NameSignal \/ ReadImage \/ CheckName \/ CopyString
    \/ ReadRegisters \/ WalkStack \/ NameAddress \/ ListThreads
    \/ InspectWord \/ DescribeObject \/ ReadTagged

Spec == Init /\ [][Next]_vars

----------------------------------------------------------------------------
(* The report *)

\* The JSON that others made for the report.
Foreign(cr) == {cr.scope[e] : e \in DOMAIN cr.scope} \cup {cr.userInfo} \cup {cr.crumbs[i] : i \in DOMAIN cr.crumbs}

\* The writer decodes a JSON text and encodes it again: every text fits its
\* buffers and has no control character without an escape.
Passes(toks) == toks = NoJSON \/ LET x == AddJSONElement(BeginEncode, "", toks, TRUE) IN x.ok

\* A name in it has such a character.
HasBadName(toks) ==
    \E i \in 1 .. Len(toks) - 1 : HasControl(toks[i].s) /\ toks[i + 1] = Punct(":")

PathNames(toks) == {p[1] : p \in Paths(toks)}

At(s, toks) == <<"", s>> \in PathNames(toks)

\* The fixer has room for the depth and for every text.
FitsFixer(toks) ==
    /\ Str("huge") \notin {toks[i] : i \in DOMAIN toks}
    /\ \A p \in Paths(toks) : Len(p[1]) <= MaxDepth + 1 /\ (Len(p[1]) = MaxDepth + 1 => p[2] # None)

\* The report is JSON with every section where the converter looks for it
\* (sentrycrashreport_writeStandardReport), if the JSON of the scope and of the
\* user passes the decoder and the encoder of the writer.  Otherwise that JSON
\* stays open (SentryCrashJSONCodec.c:227) and takes the sections after it in; the
\* sections before it stay, and the report is still JSON unless a name has a
\* control character.  The report that a crash of the handler wraps around it is
\* always JSON.  The fixer of the next launch keeps every element of a report
\* that is JSON, and drops the report exactly when it is deeper than MaxDepth or
\* a text, the reason of the crash or JSON that did not pass, is too long.
ReportIsReadable ==
    job.k = "crash" =>
        /\ phase = "written" =>
               /\ \A s \in Sections \ {"sentry_sdk_scope", "user", "debug"} : At(s, out)
               /\ ~IsJSON(out) => \E toks \in Foreign(job.cr) : HasBadName(toks)
               /\ (\A toks \in Foreign(job.cr) : Passes(toks)) => \A s \in Sections : At(s, out)
        /\ phase = "rewritten" => IsJSON(out) /\ \A s \in {"recrash_report", "report", "crash"} : At(s, out)
        /\ phase = "fixed" /\ IsJSON(out.report) => (out.fixed.ok <=> FitsFixer(out.report))
        /\ phase = "fixed" /\ out.fixed.ok => PathNames(out.fixed.out) = PathNames(out.report)

----------------------------------------------------------------------------
(* Inspection *)

Addresses(toks) == Len(SelectSeq(toks, LAMBDA t : t = Str("address")))

\* The inspection of a word follows only names and instance variables that were
\* checked, but for the two holes of the code: the name of a base class and the
\* first instance variable.  What is found is written within a bound, however
\* the objects refer to each other.  A description stays inside its buffer,
\* except for a tagged string without room for its terminator and UTF-16 text
\* behind a header that just fills the buffer.  A string object is copied with
\* the length that was checked, unless it is inline with a length byte.
InspectionIsSafe ==
    phase = "done" =>
        /\ job.k = "inspect" =>
               /\ \A c \in out.names : IsValidName(job.mem[c].name) \/ (c # job.mem[job.a].isa /\ c # job.a)
               /\ \A i \in out.ivars : i = 1 \/ job.mem[job.mem[job.a].isa].ivars[i].valid
               /\ Addresses(WriteAll(Object("", WriteMemoryContentsIfNotable(Heap(job.mem, {}), "", job.a))))
                      <= MemorySearchDepth + MaxIvars - 1
               /\ out.type # "unknown" /\ ~IsTaggedPointer(job.a) =>
                      \A c \in {job.a, job.mem[job.a].isa} : job.mem[c].rw \notin {"bad", "badro", "badext"}
        /\ job.k = "describe" =>
               \/ out.last < job.size
               \/ \E i \in DOMAIN job.parts : job.parts[i].k \in {"tagged", "16bit"}
        /\ job.k = "describe" /\ out.last >= job.size =>
               \E i \in DOMAIN job.parts :
                   LET before == Describe(SubSeq(job.parts, 1, i - 1), job.size)
                   IN  \/ job.parts[i].k = "tagged" /\ before.pos + job.parts[i].n >= job.size
                       \/ job.parts[i].k = "16bit" /\ before.pos = job.size
        /\ job.k = "name" => (out.name => out.type)
        /\ job.k = "string" =>
               /\ out.copied <= job.str.readable /\ (job.max > 0 => out.copied < job.max)
               /\ out.valid => \/ out.length = ValidatedLength(job.str) /\ out.length >= 0
                               \/ job.str.inline /\ ~HasExplicitLength(job.str)
        /\ job.k = "tagged" =>
               /\ out.integer = IF out.valid THEN out.number ELSE 3
               /\ out.valid => IsTaggedPointer(job.p)
               /\ out.number \in -(2 ^ (PointerBits - 9)) .. 2 ^ (PointerBits - 9) - 1
               /\ (out.number - job.p \div 2 ^ 8) % 2 ^ (PointerBits - 8) = 0
               /\ IsTaggedPointer(job.p) =>
                      out.valid = (TaggedClassData[GetTaggedSlot(job.p) + 1] \in {"string", "number", "date"})

----------------------------------------------------------------------------
(* Text *)

Value10(digits) == Fold(LAMBDA v, d : v * 10 + d, 0, digits)

\* The characters of a UTF-16 text with whole pairs.
WellFormed16(s) ==
    \A i \in DOMAIN s :
        /\ LeadSurrogate(s[i]) => i < Len(s) /\ TailSurrogate(s[i + 1])
        /\ TailSurrogate(s[i]) => i > 1 /\ LeadSurrogate(s[i - 1])

\* The character of the only pair of the jobs.
Emoji == 128512

Characters(s) ==
    LET at == SelectSeq([i \in 1 .. Len(s) |-> i], LAMBDA i : ~TailSurrogate(s[i]))
    IN  [j \in 1 .. Len(at) |-> IF LeadSurrogate(s[at[j]])
                                THEN Emoji ELSE s[at[j]]]

Encoded(chars) == Fold(LAMBDA b, ch : b \o WriteUTF8(ch), <<>>, chars)

\* The lead bytes that announce one to five continuation bytes.
Leads == <<192 .. 223, 224 .. 239, 240 .. 247, 248 .. 251, 252 .. 253>>

\* A character as the first definition of UTF-8 had it, of up to six bytes and
\* whatever its number is, and a byte of ASCII that prints.
IsCharacter(c) ==
    \/ Len(c) = 1 /\ c[1] \in PrintableControlChars \cup 32 .. 127
    \/ /\ Len(c) \in 2 .. 6 /\ c[1] \in Leads[Len(c) - 1]
       /\ \A i \in 2 .. Len(c) : c[i] \in 128 .. 191

\* One or more characters up to a terminator: they begin at the places of cuts.
Text8(s) ==
    \E n \in 1 .. Len(s) - 1 :
        /\ s[n + 1] = 0
        /\ \E cuts \in SUBSET (2 .. n) :
               \A a \in cuts \cup {1}, b \in cuts \cup {n + 1} :
                   a < b /\ (\A x \in cuts : x <= a \/ x >= b) => IsCharacter(SubSeq(s, a, b - 1))

\* The digits after the first "0x" that has some.
HexRuns(s) ==
    {[from |-> i, digits |-> SubSeq(s, i + 2, j)] :
        <<i, j>> \in {<<x, y>> \in (DOMAIN s) \X (DOMAIN s) :
                       /\ x + 2 <= y /\ s[x] = 0 /\ s[x + 1] = LetterX
                       /\ \A z \in x + 2 .. y : s[z] >= 0
                       /\ y < Len(s) => s[y + 1] < 0}}

\* What the handler writes as text is what the next launch reads: a string comes
\* back from its escapes unless it has a control character, a number keeps its
\* value or becomes a float when 64 bits are too few, UTF-16 of a string object
\* is cut only between characters and never read past its end but for a lead
\* surrogate at the end, \u escapes are decoded exactly when they are characters
\* (a pair to the wrong one), bytes of memory are text exactly when they have the
\* form of UTF-8 (SentryCrashString.c:139: five and six bytes and overlong forms,
\* which UTF-8 has no more and NSString refuses, are text too), and the elements of
\* an old report are all passed on while each fits half a buffer.
TextSurvives ==
    phase = "done" =>
        /\ job.k = "escape" =>
               IF \E i \in DOMAIN job.s : job.s[i] = "CTL" THEN ~out.ok
               ELSE out.ok /\ DecodeString(out.out \o <<"\"", "a">>) = [ok |-> TRUE, out |-> job.s]
        /\ job.k = "number" =>
               LET v == Value10(job.digits)
               IN  /\ out.kind # "fp" => out.value = IF job.negative THEN -v ELSE v
                   /\ out.kind = "fp" <=> v > (IF job.negative THEN LLONG_MAX + 1 ELSE ULLONG_MAX)
        /\ job.k = "utf16" =>
               /\ out.read > Len(job.s) => LeadSurrogate(job.s[Len(job.s)])
               /\ Len(out.out) < job.room
               /\ WellFormed16(job.s) =>
                      \E n \in 0 .. Len(Characters(job.s)) :
                          /\ out.out = Encoded(SubSeq(Characters(job.s), 1, n))
                          /\ n < Len(Characters(job.s)) =>
                                 Len(Encoded(SubSeq(Characters(job.s), 1, n + 1))) > job.room - 1
        /\ job.k = "utf8" =>
               /\ out.text = Text8(job.s)
               /\ out.valid => Text8(job.s) /\ DOMAIN job.s \subseteq job.mem
        /\ job.k = "unicode" =>
               LET units == [i \in DOMAIN job.s |-> FourNybbles(job.s[i])]
               IN  /\ out.ok <=> (\A i \in DOMAIN job.s : units[i] # INV) /\ WellFormed16(units)
                   /\ out.ok /\ (\A i \in DOMAIN job.s : ~LeadSurrogate(units[i])) => out.out = Encoded(units)
        /\ job.k = "hex" =>
               IF HexRuns(job.s) = {} THEN out = NotFound
               ELSE \E h \in HexRuns(job.s) :
                        /\ \A g \in HexRuns(job.s) : h.from <= g.from
                        /\ out = Fold(LAMBDA v, d : v * 16 + d, 0, h.digits) % 2 ^ HexBits
        /\ job.k = "elements" =>
               ((\A i \in DOMAIN job.s : job.s[i] <= FileBufferSize \div 2) => out = Len(job.s))

----------------------------------------------------------------------------
(* Memory and files *)

\* The pieces of a text that the lines of a file are: up to a line end, or as
\* much as the buffer holds.
RECURSIVE Split(_)
Split(s) ==
    LET ends == {i \in DOMAIN s : s[i] = NewLine}
        first == IF ends = {} THEN Len(s) ELSE CHOOSE i \in ends : \A j \in ends : i <= j
        n == IF first < LineBufferSize THEN first ELSE LineBufferSize
    IN  IF s = <<>> THEN <<>>
        ELSE <<SubSeq(s, 1, n - 1)>> \o Split(SubSeq(s, n + 1, Len(s)))

Flat(s) == Fold(LAMBDA all, i : all \o Piece(i, s[i]), <<>>, [i \in 1 .. Len(s) |-> i])

IsSuffixOf(s, t) == Len(s) <= Len(t) /\ SubSeq(t, Len(t) - Len(s) + 1, Len(t)) = s

IsPrefixOf(s, t) == Len(s) <= Len(t) /\ SubSeq(t, 1, Len(s)) = s

\* Memory is copied up to the first byte that cannot be read and not one byte
\* less (copyMaxPossible); a file is read into the same lines whatever read()
\* returns at a time; and what the buffered writer leaves on disk is all that was
\* written, in order, or the beginning of it when the disk is full.  The buffer
\* is only overrun after a write that failed.  Directories are made from the top,
\* a value is read as a whole or not at all, a UUID is written without loss, and
\* the tables of signals and mach exceptions agree but for EXC_SOFTWARE.
DataIsExact ==
    phase = "done" =>
        /\ job.k = "memory" =>
               LET r == ReadableFrom(job.mem, 1)
                   least == IF r < job.n THEN r ELSE job.n
               IN  /\ out.copied = least
                   /\ out.most >= least /\ (out.most > least => r > job.n)
                   /\ out.readable => r >= IF job.n < TestBufferSize THEN job.n ELSE TestBufferSize
        /\ job.k = "lines" => out = Split(job.s)
        /\ job.k = "tail" =>
               /\ out.ends /\ IsSuffixOf(out.data, job.s)
               /\ Len(out.data) = IF job.max = 0 \/ job.max > Len(job.s) THEN Len(job.s) ELSE job.max
        /\ job.k = "delete" =>
               \A p \in Tree :
                   p \in out <=> p \in job.fs /\ ~(/\ job.path \in job.fs
                                               /\ Len(p) > Len(job.path)
                                               /\ \A i \in DOMAIN job.path : p[i] = job.path[i]
                                               /\ p[Len(job.path) + 1] \notin {".", ".."})
        /\ job.k = "make" =>
               /\ job.fs \subseteq out
               /\ \A p \in out : Len(p) > 1 => SubSeq(p, 1, Len(p) - 1) \in out
               /\ <<"a", "b", "c">> \in out <=> job.refused \subseteq job.fs
        /\ job.k = "sysctl" => 
               /\ out.sized \in {0, job.then} /\ out.sized <= job.size
               /\ out.mac <=> job.works /\ job.then \in 1 .. job.size
               /\ out.time = out.number
        /\ job.k = "uuid" =>
               LET digits == SelectSeq(out, LAMBDA x : x # Dash)
               IN  /\ [i \in 1 .. 16 |-> 16 * digits[2 * i - 1] + digits[2 * i]] = job.bytes
                   /\ {i \in DOMAIN out : out[i] = Dash} = {9, 14, 19, 24}
        /\ job.k = "signal" =>
               /\ out.name = "none" <=> out.signal \in {"none", "SIGEMT", "SIGKILL"}
               /\ out.back = job.exception \/ job.exception \in {"EXC_SOFTWARE"} \/ out.signal = "none"
               /\ Cardinality(out.codes \ {"none"}) <= 1
        /\ job.k = "writes" =>
               /\ job.exists => out.file = <<>>
               /\ ~job.exists => IsPrefixOf(out.file, Flat(job.s))
               /\ ~job.exists /\ Len(Flat(job.s)) <= job.room => out.file = Flat(job.s) /\ ~out.overflow

----------------------------------------------------------------------------
(* Stacks *)

\* The return addresses of a chain of frames from fp on, as far as n frames.
RECURSIVE Chain(_, _, _)
Chain(mem, fp, n) ==
    IF n = 0 \/ fp \notin DOMAIN mem THEN <<>>
    ELSE IF mem[fp].previous = 0 \/ mem[fp].return = 0 THEN <<>>
    ELSE <<mem[fp].return>> \o Chain(mem, mem[fp].previous, n - 1)

\* The frames that the links from fp lead to when only a link upwards to a valid
\* frame counts: what is in every set of frames that holds fp and such links.
Climbing(ctx, mem, bounds, fp) ==
    {f \in DOMAIN mem :
        \A S \in SUBSET DOMAIN mem :
            /\ fp \in DOMAIN mem => fp \in S
            /\ \A a \in S : mem[a].previous > a /\ IsValidFrame(ctx, bounds, mem[a].previous)
                            /\ mem[a].previous \in DOMAIN mem => mem[a].previous \in S
            => f \in S}

\* A set of frames from the lowest to the highest.
Upwards(S) == [i \in 1 .. Cardinality(S) |-> CHOOSE f \in S : Cardinality({g \in S : g < f}) = i - 1]

\* The sample that these frames make: the instruction, the link register if it is
\* a place in the stack, and the callers.
Sampled(ctx, mem, bounds) ==
    LET up == Upwards(Climbing(ctx, mem, bounds, FramePointer(ctx)))
        lr == IF IsValidFrame(ctx, bounds, LinkRegister(ctx)) THEN <<LinkRegister(ctx)>> ELSE <<>>
        returns == <<InstructionAddress(ctx)>> \o lr \o [i \in DOMAIN up |-> mem[up[i]].return]
    IN  IF ~IsValidFrame(ctx, bounds, FramePointer(ctx)) THEN <<>>
        ELSE [i \in DOMAIN returns |-> GetPreviousInstructionAddress(ctx, returns[i])]

\* The crash cursor gives the instruction, the link register and the callers of
\* the frames, at most the depth it was given, and says that it gave up when the
\* depth was reached, be it the last frame or a loop of frames.  The sampled
\* stack is the instruction, the link register and the frames that climb from one
\* to the next inside the bounds of the stack, each of them once and in order, cut
\* off at the depth; it counts as complete only if none was cut off.  A symbol is
\* the nearest one below the call in the image around it.  The thread that crashed
\* is missed only beyond the limit of threads.  A crash message of an image is
\* only taken if it ends in memory that can be read.
StackIsWalked ==
    phase = "done" =>
        /\ job.k = "registers" =>
               LET n == Len(job.arch.names)
               IN  /\ \A i \in 1 .. n : out.values[i] = i
                   /\ out.values[n + 1] = 0
                   /\ \A i \in DOMAIN out.exceptions : out.exceptions[i] = n + i
                   /\ Cardinality(out.special) = 3 /\ out.special \subseteq 1 .. n
                   /\ out.fault > n
        /\ job.k = "image" =>
               /\ out.binary.ok <=> out.uuid
               /\ out.binary.ok => \A i \in DOMAIN out.binary.messages :
                      LET m == out.binary.messages[i]
                      IN  \E n \in 1 .. m.end : n <= Len(m.bytes) /\ m.bytes[n] = 0
        /\ job.k = "walk" =>
               LET lr == IF job.arch.lr = "none" \/ job.lr = 0 THEN <<>> ELSE <<job.lr % PACMask>>
                   all == <<job.pc>> \o lr \o Chain(job.stack, job.fp, Depth + 1)
               IN  /\ job.pc = 0 => out.crash.addresses = <<>>
                   /\ job.pc # 0 =>
                          /\ out.crash.addresses =
                                 SubSeq(all, 1, IF Len(all) < Depth THEN Len(all) ELSE Depth)
                          /\ out.crash.gaveUp <=> Len(all) >= Depth
                   /\ out.context.overflow = out.crash.gaveUp
                   /\ out.given = IF job.pc <= 1 THEN <<>> ELSE <<job.pc, 9>>
                   /\ out.crashed = <<9>> /\ out.other = out.crash.addresses
                   /\ out.faulted <=> job.lr # 0
                   /\ LET sampled == Sampled(Context(job.arch, job.pc, job.lr, job.fp), job.stack, Bounds(job.start))
                      IN  /\ out.sample.addresses =
                                 SubSeq(sampled, 1, IF Len(sampled) < Depth THEN Len(sampled) ELSE Depth)
                          /\ out.sample.end => sampled # <<>> /\ Len(sampled) <= Depth
        /\ job.k = "symbol" =>
               LET at == job.arch.detag * (job.address \div job.arch.detag) - 1
                   image == job.images[out.image]
                   syms == {image.cmds[3].syms[i] + image.slide :
                              i \in {j \in DOMAIN image.cmds[3].syms : image.cmds[3].syms[j] # 0}}
               IN  out.found =>
                      /\ out.image > 1
                      /\ out.symbol # 0 => out.symbol <= at /\ out.symbol \in syms
                                           /\ \A y \in syms : y <= at => y <= out.symbol
                      /\ out.symbol = 0 => \A y \in syms : y > at
        /\ job.k = "threads" =>
               /\ out.crashed = -1 <=> job.crashed > (IF job.n < MaxThreads THEN job.n ELSE MaxThreads)
               /\ \A i \in out.list.read : i <= MaxThreads \/ job.n > MaxThreads

=============================================================================
