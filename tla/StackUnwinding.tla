----------------------------- MODULE StackUnwinding -----------------------------
(***************************************************************************)
(* How a stack is walked and its addresses are given names: the machine    *)
(* context of a thread (SentryCrashMachineContext.c, SentryCrashCPU_*.c),  *)
(* the two stack cursors of the crash handler, the walk of the sampling    *)
(* profiler (SentryBacktrace.cpp), and the search for the image and the    *)
(* symbol of an address (SentryCrashDynamicLinker.c,                       *)
(* SentryCrashSymbolicator.c).  An address is a number.  The stack memory  *)
(* is a function from the readable addresses to frame entries.             *)
(***************************************************************************)
EXTENDS Integers, Sequences, FiniteSets

CONSTANTS MaxThreads,        \* length of allThreads in SentryCrashMachineContext
          PACMask,           \* KSPACStrippingMask_ARM64e + 1
          Align,             \* alignment that StackFrame::isAligned asks for
          FrameSize          \* sizeof(StackFrame)

ASSUME StackUnwindingAssumption ==
    /\ MaxThreads \in Nat \ {0} /\ PACMask \in Nat \ {0}
    /\ Align \in Nat \ {0} /\ FrameSize \in Nat \ {0}

----------------------------------------------------------------------------
(* Registers *)

\* An architecture: the names of its registers, the fields that registerValue
\* returns for the same numbers, and the fields with a meaning to the walk.  The
\* numbered registers of the two ARMs are left out but for the first and the last.
Arm64 ==
    [names  |-> <<"x0", "x1", "x28", "fp", "lr", "sp", "pc", "cpsr">>,
     fields |-> <<"x0", "x1", "x28", "fp", "lr", "sp", "pc", "cpsr">>,
     exceptionNames  |-> <<"exception", "esr", "far">>,
     exceptionFields |-> <<"exception", "esr", "far">>,
     fp |-> "fp", sp |-> "sp", pc |-> "pc", lr |-> "lr", fault |-> "far",
     mask |-> PACMask, detag |-> 4, call |-> 4]

Arm ==
    [names  |-> <<"r0", "r7", "r11", "ip", "sp", "lr", "pc", "cpsr">>,
     fields |-> <<"r0", "r7", "r11", "ip", "sp", "lr", "pc", "cpsr">>,
     exceptionNames  |-> <<"exception", "fsr", "far">>,
     exceptionFields |-> <<"exception", "fsr", "far">>,
     fp |-> "r7", sp |-> "sp", pc |-> "pc", lr |-> "lr", fault |-> "far",
     mask |-> 0, detag |-> 2, call |-> 3]

X86_64 ==
    [names  |-> <<"rax", "rbx", "rcx", "rdx", "rdi", "rsi", "rbp", "rsp", "r8", "r9", "r10", "r11",
                  "r12", "r13", "r14", "r15", "rip", "rflags", "cs", "fs", "gs">>,
     fields |-> <<"rax", "rbx", "rcx", "rdx", "rdi", "rsi", "rbp", "rsp", "r8", "r9", "r10", "r11",
                  "r12", "r13", "r14", "r15", "rip", "rflags", "cs", "fs", "gs">>,
     exceptionNames  |-> <<"trapno", "err", "faultvaddr">>,
     exceptionFields |-> <<"trapno", "err", "faultvaddr">>,
     fp |-> "rbp", sp |-> "rsp", pc |-> "rip", lr |-> "none", fault |-> "faultvaddr",
     mask |-> 0, detag |-> 1, call |-> 1]

X86 ==
    [names  |-> <<"eax", "ebx", "ecx", "edx", "edi", "esi", "ebp", "esp", "ss", "eflags", "eip",
                  "cs", "ds", "es", "fs", "gs">>,
     fields |-> <<"eax", "ebx", "ecx", "edx", "edi", "esi", "ebp", "esp", "ss", "eflags", "eip",
                  "cs", "ds", "es", "fs", "gs">>,
     exceptionNames  |-> <<"trapno", "err", "faultvaddr">>,
     exceptionFields |-> <<"trapno", "err", "faultvaddr">>,
     fp |-> "ebp", sp |-> "esp", pc |-> "eip", lr |-> "none", fault |-> "faultvaddr",
     mask |-> 0, detag |-> 1, call |-> 1]

\* The value of a field of the saved state: 0 where the architecture has no such
\* register, and everywhere when thread_get_state failed.
Field(ctx, field) == IF field \in DOMAIN ctx.state THEN ctx.state[field] ELSE 0

\* sentrycrashcpu_registerValue of the register with that number, from 1.
RegisterValue(ctx, n) == IF n <= Len(ctx.arch.fields) THEN Field(ctx, ctx.arch.fields[n]) ELSE 0

ExceptionRegisterValue(ctx, n) ==
    IF n <= Len(ctx.arch.exceptionFields) THEN Field(ctx, ctx.arch.exceptionFields[n]) ELSE 0

FramePointer(ctx) == Field(ctx, ctx.arch.fp)

StackPointer(ctx) == Field(ctx, ctx.arch.sp)

InstructionAddress(ctx) == Field(ctx, ctx.arch.pc)

LinkRegister(ctx) == Field(ctx, ctx.arch.lr)

FaultAddress(ctx) == Field(ctx, ctx.arch.fault)

\* sentrycrashcpu_normaliseInstructionPointer: the pointer authentication code
\* of arm64 is cut off.
NormaliseInstructionPointer(ctx, ip) == IF ctx.arch.mask > 0 THEN ip % ctx.arch.mask ELSE ip

----------------------------------------------------------------------------
(* Machine contexts *)

EmptyState == [f \in {} |-> 0]

CanHaveCPUState(ctx) == ~ctx.current \/ ctx.signal

HasValidExceptionRegisters(ctx) == CanHaveCPUState(ctx) /\ ctx.crashed

\* getThreadList: the threads that are kept, and the places of allThreads that
\* are read to give the ports back.
GetThreadList(threads) ==
    [kept |-> SubSeq(threads, 1, IF Len(threads) > MaxThreads THEN MaxThreads ELSE Len(threads)),
     read |-> 1 .. Len(threads)]

\* sentrycrashmc_indexOfThread, from 0.
IndexOfThread(list, thread) ==
    LET at == {i \in DOMAIN list : list[i] = thread}
    IN  IF at = {} THEN -1 ELSE (CHOOSE i \in at : \A j \in at : i <= j) - 1

----------------------------------------------------------------------------
(* The cursor over a machine context *)

\* MachineContextCursor after sentrycrashsc_initWithMachineContext.
InitWithMachineContext(max) ==
    [max |-> max, depth |-> 0, gaveUp |-> FALSE, ip |-> 0, lr |-> 0,
     previous |-> 0, past |-> FALSE, address |-> 0, more |-> TRUE]

Stops(c) == [c EXCEPT !.more = FALSE]

Gives(ctx, c, address) ==
    [c EXCEPT !.address = NormaliseInstructionPointer(ctx, address), !.depth = @ + 1]

\* The frame-pointer part of advanceCursor.  A frame that cannot be read ends
\* the walk, as does one without a caller.
NextFrame(mem, ctx, c) ==
    LET at == IF c.previous = 0 THEN FramePointer(ctx) ELSE c.previous
        d  == [c EXCEPT !.past = TRUE]
    IN  IF c.previous = 0 /\ c.past THEN Stops(c)
        ELSE IF at \notin DOMAIN mem THEN Stops(d)
        ELSE IF mem[at].previous = 0 \/ mem[at].return = 0
        THEN Stops([d EXCEPT !.previous = mem[at].previous])
        ELSE Gives(ctx, [d EXCEPT !.previous = mem[at].previous], mem[at].return)

\* advanceCursor of SentryCrashStackCursor_MachineContext.c: the instruction, the
\* link register, then the frames.
AdvanceMachineContext(mem, ctx, c) ==
    IF c.depth >= c.max THEN [Stops(c) EXCEPT !.gaveUp = TRUE]
    ELSE IF c.ip = 0
    THEN IF InstructionAddress(ctx) = 0 THEN Stops(c)
         ELSE Gives(ctx, [c EXCEPT !.ip = InstructionAddress(ctx)], InstructionAddress(ctx))
    ELSE IF c.lr = 0 /\ ~c.past /\ LinkRegister(ctx) # 0
    THEN Gives(ctx, [c EXCEPT !.lr = LinkRegister(ctx)], LinkRegister(ctx))
    ELSE NextFrame(mem, ctx, c)

RECURSIVE WalkMachineContext(_, _, _, _)

\* while (advanceCursor): the addresses, and whether the cursor gave up.
WalkMachineContext(mem, ctx, c, addresses) ==
    LET d == AdvanceMachineContext(mem, ctx, c)
    IN  IF d.more THEN WalkMachineContext(mem, ctx, d, Append(addresses, d.address))
        ELSE [addresses |-> addresses, gaveUp |-> d.gaveUp]

Walk(mem, ctx, max) == WalkMachineContext(mem, ctx, InitWithMachineContext(max), <<>>)

IsStackOverflow(mem, ctx, threshold) == Walk(mem, ctx, threshold).gaveUp

\* sentrycrashmc_getContextForThread and ForSignal: only a crashed context looks
\* at the stack and the other threads.
GetContext(mem, ctx, threads, threshold) ==
    [ctx EXCEPT !.state = IF CanHaveCPUState(ctx) THEN @ ELSE EmptyState,
                !.overflow = ctx.crashed /\ IsStackOverflow(mem, ctx, threshold),
                !.threads = IF ctx.crashed THEN GetThreadList(threads).kept ELSE <<>>]

\* sentrycrashsc_initWithBacktrace and its advanceCursor: the addresses of a
\* backtrace from the skipped ones on, until one that is no address.
WalkBacktrace(ctx, backtrace, skip) ==
    LET rest == SubSeq(backtrace, skip + 1, Len(backtrace))
        bad  == {i \in DOMAIN rest : rest[i] <= 1}
        n    == IF bad = {} THEN Len(rest) ELSE (CHOOSE i \in bad : \A j \in bad : i <= j) - 1
    IN  [i \in 1 .. n |-> NormaliseInstructionPointer(ctx, rest[i])]

\* getStackCursor of SentryCrashReport.c: the stack that came with the crash for
\* the thread that crashed, the machine context for the others.
StackOf(mem, ctx, crash, threshold) ==
    IF ctx.thread = crash.thread THEN crash.stack ELSE Walk(mem, ctx, threshold).addresses

----------------------------------------------------------------------------
(* The walk of the sampling profiler *)

\* StackBounds
Contains(bounds, a) == a > bounds.end /\ a < bounds.start - FrameSize

IsValid(bounds) == bounds.start # 0 /\ bounds.end # 0 /\ bounds.start > bounds.end

\* StackFrame::isAligned: on the 32-bit ARM in the middle between two boundaries.
IsAligned(ctx, a) == a % Align = IF ctx.arch.call = 3 THEN Align \div 2 ELSE 0

IsValidFrame(ctx, bounds, a) == Contains(bounds, a) /\ IsAligned(ctx, a)

\* getPreviousInstructionAddress
GetPreviousInstructionAddress(ctx, a) ==
    IF ctx.arch.call = 3 THEN 2 * ((a - 3) \div 2) ELSE a - ctx.arch.call

RECURSIVE WalkFrames(_, _, _, _, _, _)

\* mutant: towards any other frame
WalkFrames_AnyWay(mem, ctx, bounds, current, addresses, max) ==
    IF Len(addresses) >= max \/ current \notin DOMAIN mem
    THEN [addresses |-> addresses, end |-> FALSE]
    ELSE LET next == mem[current].previous
             more == Append(addresses, GetPreviousInstructionAddress(ctx, mem[current].return))
         IN  IF next # current /\ IsValidFrame(ctx, bounds, next)
             THEN WalkFrames(mem, ctx, bounds, next, more, max)
             ELSE [addresses |-> more, end |-> TRUE]

\* The loop of backtrace(): towards higher addresses only.
WalkFrames(mem, ctx, bounds, current, addresses, max) ==
    IF Len(addresses) >= max \/ current \notin DOMAIN mem
    THEN [addresses |-> addresses, end |-> FALSE]
    ELSE LET next == mem[current].previous
             more == Append(addresses, GetPreviousInstructionAddress(ctx, mem[current].return))
         IN  IF next > current /\ IsValidFrame(ctx, bounds, next)
             THEN WalkFrames(mem, ctx, bounds, next, more, max)
             ELSE [addresses |-> more, end |-> TRUE]

NoBacktrace == [addresses |-> <<>>, end |-> FALSE]

\* backtrace(): the link register counts only if it points into the stack.
Backtrace(mem, ctx, bounds, max) ==
    LET pc == <<GetPreviousInstructionAddress(ctx, InstructionAddress(ctx))>>
        lr == IF max > 1 /\ IsValidFrame(ctx, bounds, LinkRegister(ctx))
              THEN <<GetPreviousInstructionAddress(ctx, LinkRegister(ctx))>> ELSE <<>>
    IN  IF max = 0 \/ ~IsValid(bounds) \/ ~IsValidFrame(ctx, bounds, FramePointer(ctx)) THEN NoBacktrace
        ELSE WalkFrames(mem, ctx, bounds, FramePointer(ctx), pc \o lr, max)

----------------------------------------------------------------------------
(* Images and symbols *)

\* An image: magic of its header, slide, load commands in order.  A command is a
\* segment [cmd, name, vmaddr, size, fileoff], a symbol table [cmd, syms], an
\* LC_UUID or an LC_ID_DYLIB.
HasCommands(image) == image.magic # "corrupt"      \* firstCmdAfterHeader

Segments(image) == {i \in DOMAIN image.cmds : image.cmds[i].cmd = "segment"}

NoImage == 0

\* imageIndexContainingAddress: the first image with a segment around address.
ImageIndexContainingAddress(images, address) ==
    LET inside(image) ==
            HasCommands(image) /\ \E s \in Segments(image) :
                address - image.slide \in image.cmds[s].vmaddr .. image.cmds[s].vmaddr + image.cmds[s].size - 1
        found == {i \in DOMAIN images : inside(images[i])}
    IN  IF found = {} THEN NoImage ELSE CHOOSE i \in found : \A j \in found : i <= j

\* segmentBaseOfImageIndex: of the first __LINKEDIT segment.
SegmentBaseOfImageIndex(image) ==
    LET found == {s \in Segments(image) : image.cmds[s].name = "LINKEDIT"}
        first == CHOOSE s \in found : \A t \in found : s <= t
    IN  IF ~HasCommands(image) \/ found = {} THEN 0
        ELSE image.cmds[first].vmaddr - image.cmds[first].fileoff

\* sentrycrashdl_imageNamed, 0 when there is none.
ImageNamed(images, name) ==
    LET found == {i \in DOMAIN images : images[i].name = name}
    IN  IF found = {} THEN NoImage ELSE CHOOSE i \in found : \A j \in found : i <= j

\* sentrycrashdl_imageUUID: the first LC_UUID command.
ImageUUID(images, name) ==
    LET image == images[ImageNamed(images, name)]
    IN  /\ ImageNamed(images, name) # NoImage
        /\ HasCommands(image) /\ \E i \in DOMAIN image.cmds : image.cmds[i].cmd = "uuid"

NoSymbol == 0

\* The loop over one symbol table: of two symbols as close the later one wins.
BestMatch(syms, address) ==
    LET fits == {i \in DOMAIN syms : syms[i] # 0 /\ address >= syms[i]}
    IN  IF fits = {} THEN NoSymbol
        ELSE CHOOSE i \in fits : \A j \in fits : syms[i] > syms[j] \/ (syms[i] = syms[j] /\ i >= j)

Unknown == [found |-> FALSE, image |-> NoImage, symbol |-> 0]

\* sentrycrashdl_dladdr: the first symbol table with a match decides.
Dladdr(images, address) ==
    LET idx   == ImageIndexContainingAddress(images, address)
        image == images[idx]
        plain == address - image.slide
        hits  == {i \in DOMAIN image.cmds :
                    image.cmds[i].cmd = "symtab" /\ BestMatch(image.cmds[i].syms, plain) # NoSymbol}
        first == CHOOSE i \in hits : \A j \in hits : i <= j
        syms  == image.cmds[first].syms
    IN  IF idx = NoImage THEN Unknown
        ELSE IF SegmentBaseOfImageIndex(image) + image.slide = 0 THEN Unknown
        ELSE [found |-> TRUE, image |-> idx,
              symbol |-> IF hits = {} THEN 0 ELSE syms[BestMatch(syms, plain)] + image.slide]

\* symbolicate_internal: the call before the return address is looked up, so the
\* address is a little smaller.
Symbolicate(ctx, images, address) ==
    Dladdr(images, ctx.arch.detag * (address \div ctx.arch.detag) - 1)

\* isValidCrashInfoMessage over what maxReadableBytes found.
IsValidCrashInfoMessage(message) ==
    message.address # 0 /\ \E i \in 1 .. message.readable : i <= Len(message.bytes) /\ message.bytes[i] = 0

\* getCrashInfo: the messages of a binary that ends up in the report.
GetCrashInfo(info) ==
    IF info.present /\ info.large /\ info.readable /\ info.version \in {4, 5}
    THEN SelectSeq(info.messages, IsValidCrashInfoMessage)
    ELSE <<>>

\* sentrycrashdl_getBinaryImageForHeader
GetBinaryImageForHeader(image, isCrash) ==
    LET text == {s \in Segments(image) : image.cmds[s].name = "TEXT"}
        last == CHOOSE s \in text : \A t \in text : s >= t
    IN  IF ~HasCommands(image) THEN [ok |-> FALSE]
        ELSE [ok |-> TRUE,
              vmAddress |-> IF text = {} THEN 0 ELSE image.cmds[last].vmaddr,
              size |-> IF text = {} THEN 0 ELSE image.cmds[last].size,
              uuid |-> \E i \in DOMAIN image.cmds : image.cmds[i].cmd = "uuid",
              messages |-> IF isCrash THEN GetCrashInfo(image.info) ELSE <<>>]

=============================================================================
