------------------------------- MODULE CrashTools -------------------------------
(***************************************************************************)
(* The small tools under the crash handler: reading memory that may not be *)
(* there (SentryCrashMemory.c), recognising text in it                     *)
(* (SentryCrashString.c), buffered files (SentryCrashFileUtils.c), and the *)
(* tables of signals and mach exceptions (SentryCrashSignalInfo.c,         *)
(* SentryCrashMach.c, SentryCrashMonitor_MachException.c).  Loops are      *)
(* recursive operators; a byte is a number, a file a sequence of bytes.    *)
(***************************************************************************)
EXTENDS Integers, Sequences, FiniteSets

CONSTANTS TestBufferSize,    \* size of g_memoryTestBuffer
          HexBits,           \* bits of the uint64_t of sentrycrashstring_extractHexValue
          LineBufferSize,    \* size of buffer in addTextLinesFromFile
          ReadBufferSize     \* size of readBuffer in addTextLinesFromFile

ASSUME CrashToolsAssumption ==
    /\ TestBufferSize \in Nat \ {0} /\ HexBits \in Nat \ {0}
    /\ LineBufferSize \in Nat \ {0} /\ ReadBufferSize \in Nat /\ ReadBufferSize > 1

----------------------------------------------------------------------------
(* Memory: the set of addresses that can be read *)

\* copySafely: vm_read_overwrite copies everything or nothing.
CopySafely(mem, src, n) == IF src .. src + n - 1 \subseteq mem THEN n ELSE 0

RECURSIVE CopyHalving(_, _, _, _, _)

\* mutant: after a piece was copied the search goes on to the old end
CopyHalving_OldEnd(mem, src, max, end, copied) ==
    LET n == end - src
    IN  IF n <= 0 THEN copied
        ELSE IF CopySafely(mem, src, n) = n
        THEN CopyHalving(mem, end, max, end + (max - end) \div 4, copied + n)
        ELSE IF n <= 1 THEN copied
        ELSE CopyHalving(mem, src, end, src + n \div 2, copied)

\* The loop of copyMaxPossible: a piece that can be copied is kept and half of
\* what may be left is tried next, a piece that cannot is halved.
CopyHalving(mem, src, max, end, copied) ==
    LET n == end - src
    IN  IF n <= 0 THEN copied
        ELSE IF CopySafely(mem, src, n) = n
        THEN CopyHalving(mem, end, max, end + (max - end) \div 2, copied + n)
        ELSE IF n <= 1 THEN copied
        ELSE CopyHalving(mem, src, end, src + n \div 2, copied)

CopyMaxPossible(mem, src, n) ==
    IF CopySafely(mem, src, 1) # 1 THEN 0
    ELSE IF n <= 1 THEN n
    ELSE CopyHalving(mem, src, src + n, src + n, 0)

\* isMemoryReadable: every round tests the bytes at the same address.
IsMemoryReadable(mem, a, n) ==
    LET first == IF n > TestBufferSize THEN TestBufferSize ELSE n
        last  == n - TestBufferSize * ((n - 1) \div TestBufferSize)
    IN  n > 0 => CopySafely(mem, a, first) = first /\ CopySafely(mem, a, last) = last

RECURSIVE MaxReadable(_, _, _)

\* sentrycrashmem_maxReadableBytes: what is left over of n after the blocks.
MaxReadable(mem, a, left) ==
    IF left > TestBufferSize /\ IsMemoryReadable(mem, a, TestBufferSize)
    THEN MaxReadable(mem, a + TestBufferSize, left - TestBufferSize)
    ELSE left - CopyMaxPossible(mem, a, TestBufferSize)

MaxReadableBytes(mem, a, n) == n - MaxReadable(mem, a, n)

\* The number of bytes that can really be read from a on.
ReadableFrom(mem, a) ==
    CHOOSE n \in 0 .. Cardinality(mem) :
        a .. a + n - 1 \subseteq mem /\ a + n \notin mem

----------------------------------------------------------------------------
(* Text in memory *)

\* g_printableControlChars: tab, line feed and carriage return.
PrintableControlChars == {9, 10, 13}

\* g_continuationByteCount of a lead byte.
ContinuationByteCount(ch) ==
    CASE ch % 64 < 32 -> 1
      [] ch % 64 \in 32 .. 47 -> 2
      [] ch % 64 \in 48 .. 55 -> 3
      [] ch % 64 \in 56 .. 59 -> 4
      [] ch % 64 \in 60 .. 61 -> 5
      [] OTHER -> 0

RECURSIVE ScanUTF8(_, _, _)

\* sentrycrashstring_isNullTerminatedUTF8String over bytes, from position i.
ScanUTF8(bytes, i, minLength) ==
    LET ch == bytes[i]
        more == ContinuationByteCount(ch)
    IN  IF i > Len(bytes) THEN FALSE
        ELSE IF ch = 0 THEN i - 1 >= minLength
        ELSE IF ch >= 128
        THEN /\ ch >= 192 /\ more > 0 /\ i + more <= Len(bytes)
             /\ \A k \in 1 .. more : bytes[i + k] \in 128 .. 191
             /\ ScanUTF8(bytes, i + more + 1, minLength)
        ELSE (ch >= 32 \/ ch \in PrintableControlChars) /\ ScanUTF8(bytes, i + 1, minLength)

IsNullTerminatedUTF8String(bytes, minLength) == ScanUTF8(bytes, 1, minLength)

\* isValidString of SentryCrashReport.c: the whole buffer has to be readable.
IsValidString(mem, a, bytes, minLength) ==
    /\ a # 0
    /\ CopySafely(mem, a, Len(bytes)) > 0
    /\ IsNullTerminatedUTF8String(bytes, minLength)

LetterX == -2

NoDigit == -1

\* g_hexConversion: the value of a digit, -1 for every other character.
HexConversion(ch) == IF ch \in 0 .. 15 THEN ch ELSE NoDigit

\* "0x" with at least one digit after it; the string ends with a NUL.
IsHexStart(string, i) ==
    /\ i + 1 <= Len(string) /\ string[i] = 0 /\ string[i + 1] = LetterX
    /\ i + 2 <= Len(string) /\ HexConversion(string[i + 2]) >= 0

RECURSIVE HexDigits(_, _, _)

HexDigits(string, i, accum) ==
    IF i > Len(string) \/ HexConversion(string[i]) < 0 THEN accum
    ELSE HexDigits(string, i + 1, ((accum * 16) % (2 ^ HexBits)) + HexConversion(string[i]))

NotFound == -1

\* sentrycrashstring_extractHexValue: the first number of the string.
ExtractHexValue(string) ==
    LET starts == {i \in DOMAIN string : IsHexStart(string, i)}
    IN  IF starts = {} THEN NotFound
        ELSE HexDigits(string, (CHOOSE i \in starts : \A j \in starts : i <= j) + 2, 0)

----------------------------------------------------------------------------
(* Buffered files *)

\* sentrycrashfu_openBufferedWriter of a path that may exist already (O_EXCL).
\* room: the bytes the disk still takes; overflow: memcpy went past the buffer.
OpenBufferedWriter(exists, length, room) ==
    [open |-> ~exists, length |-> length, buffer |-> <<>>, file |-> <<>>,
     room |-> room, overflow |-> FALSE, ok |-> ~exists]

\* sentrycrashfu_writeBytesToFD: a write that fails may have written a part.
WriteBytesToFD(w, bytes) ==
    IF Len(bytes) <= w.room
    THEN [w EXCEPT !.file = @ \o bytes, !.room = @ - Len(bytes), !.ok = TRUE]
    ELSE [w EXCEPT !.file = @ \o SubSeq(bytes, 1, w.room), !.room = 0, !.ok = FALSE]

FlushBufferedWriter(w) ==
    IF ~w.open \/ w.buffer = <<>> THEN [w EXCEPT !.ok = TRUE]
    ELSE LET f == WriteBytesToFD(w, w.buffer)
         IN  IF f.ok THEN [f EXCEPT !.buffer = <<>>] ELSE f

\* sentrycrashfu_writeBufferedWriter; the result of the flush is not looked at.
WriteBufferedWriter(w, data) ==
    LET f == IF Len(data) > w.length - Len(w.buffer) THEN FlushBufferedWriter(w) ELSE w
    IN  IF Len(data) > w.length THEN WriteBytesToFD(f, data)
        ELSE [f EXCEPT !.buffer = @ \o data, !.ok = TRUE,
                       !.overflow = @ \/ Len(f.buffer) + Len(data) > w.length]

CloseBufferedWriter(w) == IF w.open THEN [FlushBufferedWriter(w) EXCEPT !.open = FALSE] ELSE w

\* A reader: the buffer with its valid part start .. end, and what of the file
\* read() has not returned yet; chunk is the most that one read() returns.
IsReadBufferEmpty(r) == r.start = r.end

\* fillReadBuffer; memmove is given the start position as its length, which is
\* right only when there is nothing to move.
FillReadBuffer(r) ==
    LET left   == r.end - r.start
        moved  == [i \in DOMAIN r.buffer |-> IF i <= r.start /\ i + r.start <= Len(r.buffer)
                                             THEN r.buffer[i + r.start] ELSE r.buffer[i]]
        space  == Len(r.buffer) - left
        wanted == IF space < r.chunk THEN space ELSE r.chunk
        n      == IF wanted < Len(r.file) THEN wanted ELSE Len(r.file)
    IN  [r EXCEPT !.buffer = [i \in DOMAIN moved |-> IF i \in left + 1 .. left + n
                                                     THEN r.file[i - left] ELSE moved[i]],
                  !.start = 0, !.end = left + n,
                  !.file = SubSeq(@, n + 1, Len(@))]

OpenBufferedReader(file, length, chunk) ==
    FillReadBuffer([buffer |-> [i \in 1 .. length - 1 |-> 0], start |-> 0, end |-> 0,
                    file |-> file, chunk |-> chunk])

Data(r) == SubSeq(r.buffer, r.start + 1, r.end)

RECURSIVE ReadBuffered(_, _, _)

\* sentrycrashfu_readBufferedReader: [r, out], out being what was copied.
ReadBuffered(r, out, remaining) ==
    LET f == IF IsReadBufferEmpty(r) THEN FillReadBuffer(r) ELSE r
        n == IF Len(Data(f)) <= remaining THEN Len(Data(f)) ELSE remaining
    IN  IF remaining <= 0 THEN [r |-> r, out |-> out]
        ELSE IF IsReadBufferEmpty(f) THEN [r |-> f, out |-> out]
        ELSE ReadBuffered([f EXCEPT !.start = @ + n], out \o SubSeq(Data(f), 1, n), remaining - n)

RECURSIVE ReadUntil(_, _, _, _)

\* sentrycrashfu_readBufferedReaderUntilChar: found also when the character lies
\* in the buffer behind what the caller has room for.
ReadUntil(r, ch, out, remaining) ==
    LET data  == Data(r)
        found == {i \in DOMAIN data : data[i] = ch}
        toCh  == IF found = {} THEN Len(data) ELSE CHOOSE i \in found : \A j \in found : i <= j
        room  == IF Len(data) <= remaining THEN Len(data) ELSE remaining
        n     == IF toCh < room THEN toCh ELSE room
        copied == [r |-> [r EXCEPT !.start = @ + n],
                   out |-> out \o SubSeq(data, 1, n), found |-> found # {}]
        filled == FillReadBuffer(copied.r)
    IN  IF found # {} \/ n = remaining THEN copied
        ELSE IF IsReadBufferEmpty(filled) THEN [copied EXCEPT !.r = filled]
        ELSE ReadUntil(filled, ch, copied.out, remaining - n)

NewLine == 10

RECURSIVE ReadLines(_, _)

\* The loop of addTextLinesFromFile: the last character of what was read is
\* overwritten, whatever it is.
ReadLines(r, lines) ==
    LET line == ReadUntil(r, NewLine, <<>>, LineBufferSize)
    IN  IF line.out = <<>> THEN lines
        ELSE ReadLines(line.r, Append(lines, SubSeq(line.out, 1, Len(line.out) - 1)))

AddTextLinesFromFile(file, chunk) ==
    ReadLines(OpenBufferedReader(file, ReadBufferSize, chunk), <<>>)

\* sentrycrashfu_readEntireFile: the last maxLength bytes, or all for 0.  A file
\* that shrinks to size after fstat is waited for in vain.
ReadEntireFile(file, maxLength, size) ==
    LET wanted == IF maxLength = 0 \/ maxLength >= Len(file) THEN Len(file) ELSE maxLength
    IN  IF size < Len(file) THEN [ends |-> FALSE, data |-> <<>>]
        ELSE [ends |-> TRUE, data |-> SubSeq(file, Len(file) - wanted + 1, Len(file))]

\* canDeletePath of the name of a directory entry.
CanDeletePath(name) == name \notin {".", ".."}

IsBelow(p, dir) == Len(p) > Len(dir) /\ SubSeq(p, 1, Len(dir)) = dir

\* deletePathContents: the paths left of fs, a set of sequences of names that
\* holds the entries . and .. of a directory too.
DeletePathContents(fs, path, topLevelAlso) ==
    IF path \notin fs THEN fs
    ELSE {p \in fs : /\ ~(IsBelow(p, path) /\ CanDeletePath(p[Len(path) + 1]))
                     /\ ~(topLevelAlso /\ p = path)}

\* sentrycrashfu_deleteContentsOfPath
DeleteContentsOfPath(fs, path) ==
    IF CanDeletePath(path[Len(path)]) THEN DeletePathContents(fs, path, FALSE) ELSE fs

\* sentrycrashfu_makePath: every directory on the way, until one cannot be made.
MakePath(fs, path, refused) ==
    LET prefixes == {SubSeq(path, 1, n) : n \in 1 .. Len(path)}
        made == {p \in prefixes : \A q \in prefixes : Len(q) <= Len(p) /\ q \notin fs => q \notin refused}
    IN  fs \cup made

----------------------------------------------------------------------------
(* Signals and mach exceptions *)

\* g_fatalSignalData and g_fatalSignals
FatalSignals == {"SIGABRT", "SIGBUS", "SIGFPE", "SIGILL", "SIGPIPE", "SIGSEGV",
                 "SIGSYS", "SIGTRAP", "SIGTERM"}

\* The codes of a signal that have a name.
SignalCodes(sig) ==
    CASE sig = "SIGBUS" -> {"ADRALN", "ADRERR", "OBJERR"}
      [] sig = "SIGFPE" -> {"FLTDIV", "FLTOVF", "FLTUND", "FLTRES", "FLTINV", "FLTSUB", "INTDIV", "INTOVF"}
      [] sig = "SIGILL" -> {"ILLOPC", "ILLTRP", "PRVOPC", "ILLOPN", "ILLADR", "PRVREG", "COPROC", "BADSTK"}
      [] sig = "SIGSEGV" -> {"MAPERR", "ACCERR"}
      [] sig = "SIGTRAP" -> {"0", "BRKPT", "TRACE"}
      [] OTHER -> {}

SignalName(sig) == IF sig \in FatalSignals THEN sig ELSE "none"

SignalCodeName(sig, code) == IF sig \in FatalSignals /\ code \in SignalCodes(sig) THEN code ELSE "none"

\* sentrycrashmach_exceptionName
MachExceptions == {"EXC_BAD_ACCESS", "EXC_BAD_INSTRUCTION", "EXC_ARITHMETIC", "EXC_EMULATION",
                   "EXC_SOFTWARE", "EXC_BREAKPOINT", "EXC_SYSCALL", "EXC_MACH_SYSCALL",
                   "EXC_RPC_ALERT", "EXC_CRASH"}

SignalForMachException(exception, code) ==
    CASE exception = "EXC_ARITHMETIC" -> "SIGFPE"
      [] exception = "EXC_BAD_ACCESS" -> IF code = "KERN_INVALID_ADDRESS" THEN "SIGSEGV" ELSE "SIGBUS"
      [] exception = "EXC_BAD_INSTRUCTION" -> "SIGILL"
      [] exception = "EXC_BREAKPOINT" -> "SIGTRAP"
      [] exception = "EXC_EMULATION" -> "SIGEMT"
      [] exception = "EXC_SOFTWARE" ->
             CASE code = "EXC_UNIX_BAD_SYSCALL" -> "SIGSYS"
               [] code = "EXC_UNIX_BAD_PIPE" -> "SIGPIPE"
               [] code = "EXC_UNIX_ABORT" -> "SIGABRT"
               [] code = "EXC_SOFT_SIGNAL" -> "SIGKILL"
               [] OTHER -> "none"
      [] OTHER -> "none"

\* machExceptionForSignal
MachExceptionForSignal(sig) ==
    CASE sig = "SIGFPE" -> "EXC_ARITHMETIC"
      [] sig \in {"SIGSEGV", "SIGBUS"} -> "EXC_BAD_ACCESS"
      [] sig = "SIGILL" -> "EXC_BAD_INSTRUCTION"
      [] sig = "SIGTRAP" -> "EXC_BREAKPOINT"
      [] sig = "SIGEMT" -> "EXC_EMULATION"
      [] sig = "SIGSYS" -> "EXC_UNIX_BAD_SYSCALL"
      [] sig = "SIGPIPE" -> "EXC_UNIX_BAD_PIPE"
      [] sig = "SIGABRT" -> "EXC_CRASH"
      [] sig = "SIGKILL" -> "EXC_SOFT_SIGNAL"
      [] OTHER -> "none"

----------------------------------------------------------------------------
(* Values of the system *)

\* sentrycrashsysctl_*: the value of a number, a time or a process, 0 on failure.
Sysctl(works, value) == IF works THEN value ELSE 0

\* The two calls for a value of unknown size (stringForName with and without a
\* buffer, the two sysctl of getMacAddress): the size may have grown in between.
SysctlSized(size, sizeThen) == IF size > 0 /\ sizeThen <= size THEN sizeThen ELSE 0

\* sentrycrashsysctl_timeval, currentProcessStartTime and getProcessInfo
SysctlTimeval(works, value) == Sysctl(works, value)

\* sentrycrashsysctl_getMacAddress: the interface has an index, and its data did
\* not grow while the buffer was allocated.
GetMacAddress(index, size, sizeThen) == index # 0 /\ SysctlSized(size, sizeThen) > 0

Dash == -1

\* sentrycrashdl_convertBinaryImageUUID and sentrycrashid_generate: two digits
\* for each byte, with dashes after the bytes 4, 6, 8 and 10.
ConvertBinaryImageUUID(bytes) ==
    LET digits(i) == <<bytes[i] \div 16, bytes[i] % 16>> \o (IF i \in {4, 6, 8, 10} THEN <<Dash>> ELSE <<>>)
        all[i \in 0 .. 16] == IF i = 0 THEN <<>> ELSE all[i - 1] \o digits(i)
    IN  all[16]

=============================================================================
