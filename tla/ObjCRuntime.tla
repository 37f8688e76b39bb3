------------------------------ MODULE ObjCRuntime ------------------------------
(***************************************************************************)
(* SentryCrashObjC.c: what the crash handler finds out about a word that   *)
(* may be a pointer to an Objective-C object, without asking the runtime.  *)
(* A pointer is a number of PointerBits bits.  The memory is a function    *)
(* from the readable addresses to a record that can be read as an object   *)
(* and as a class; a field names what the checks of the code tell apart.   *)
(***************************************************************************)
EXTENDS Integers, Sequences, FiniteSets

CONSTANTS PointerBits,       \* bits of uintptr_t
          MSBTagged,         \* SUPPORT_MSB_TAGGED_POINTERS
          MaxSuperclasses,   \* the bound of the loops over superclasses
          MaxIvars           \* length of ivars in writeUnknownObjectContents

ASSUME ObjCRuntimeAssumption ==
    /\ PointerBits \in Nat /\ PointerBits > 8
    /\ MSBTagged \in BOOLEAN
    /\ MaxSuperclasses \in Nat \ {0} /\ MaxIvars \in Nat

----------------------------------------------------------------------------
(* Tagged pointers *)

\* g_taggedClassData: the type of the class in each slot.
TaggedClassData == <<"unknown", "unknown", "string", "number", "unknown", "unknown", "date", "unknown">>

IsTaggedPointer(p) == IF MSBTagged THEN p >= 2 ^ (PointerBits - 1) ELSE p % 2 = 1

GetTaggedSlot(p) == (p \div (IF MSBTagged THEN 2 ^ (PointerBits - 4) ELSE 2)) % 8

GetTaggedPayload(p) == IF MSBTagged THEN p % 2 ^ (PointerBits - 4) ELSE p \div 16

IsValidTaggedPointer(p) ==
    /\ IsTaggedPointer(p)
    /\ GetTaggedSlot(p) <= Len(TaggedClassData)
    /\ TaggedClassData[GetTaggedSlot(p) + 1] # "unknown"

\* The payload as a signed number, without the four bits of its type.
ExtractTaggedNSNumber(p) ==
    LET bits == PointerBits - 4
        payload == GetTaggedPayload(p)
    IN  (IF payload >= 2 ^ (bits - 1) THEN payload - 2 ^ bits ELSE payload) \div 16

\* getTaggedNSStringLength
GetTaggedNSStringLength(p) == GetTaggedPayload(p) % 16

\* extractTaggedNSString: the places of the buffer that are written, from 0.
ExtractTaggedNSString(p, bufferLength) ==
    LET length == GetTaggedNSStringLength(p)
        copyLength == IF length + 1 > bufferLength THEN bufferLength - 1 ELSE length
    IN  (IF length <= 11 THEN 0 .. copyLength - 1 ELSE {0}) \cup {length}

----------------------------------------------------------------------------
(* Names *)

\* g_nameChars: what a character of a class or ivar name may be.
NameChars == [letter |-> {"name", "start", "type"}, digit |-> {"name", "type"},
              symbol |-> {"type"}, nul |-> {}, other |-> {}]

\* isValidName: chars are the readable ones of the first kMaxNameLength.
IsValidNameChars(chars) ==
    /\ chars # <<>> /\ "start" \in NameChars[chars[1]]
    /\ \E n \in 2 .. Len(chars) :
           chars[n] = "nul" /\ \A i \in 2 .. n - 1 : "name" \in NameChars[chars[i]]

\* isValidIvarType: a character that is no type character is passed over.
IsValidIvarTypeChars(chars) ==
    /\ chars # <<>> /\ "type" \in NameChars[chars[1]]
    /\ \E n \in DOMAIN chars : chars[n] = "nul"

\* The same of the name in a class record: what it spells, "junk" or "unreadable".
IsValidName(name) == name \notin {"junk", "unreadable"}

----------------------------------------------------------------------------
(* Classes and objects *)

Readable(mem, a) == a \in DOMAIN mem

GetIsaPointer(mem, a) == mem[a].isa

\* getClassRO: the record of the class, through class_rw_t.
GetClassRO(mem, c) == mem[c]

GetSuperClass(mem, c) == mem[c].super

IsMetaClass(mem, c) == GetClassRO(mem, c).meta

IsRootClass(mem, c) == GetClassRO(mem, c).root

GetClassName(mem, c) == GetClassRO(mem, c).name

\* containsValidExtData: only a class_rw_t that points to one is followed.
ContainsValidExtData(class) == class.rw # "badext"

\* containsValidROData: class_t, class_rw_t, class_rw_ext_t and class_ro_t.
ContainsValidROData(mem, c) ==
    /\ Readable(mem, c)
    /\ mem[c].rw # "bad"
    /\ ContainsValidExtData(mem[c])
    /\ mem[c].rw # "badro"

\* containsValidIvarData: the first ivar is not looked at.
ContainsValidIvarData(class) ==
    /\ class.ivarList # "bad"
    /\ \A i \in 2 .. Len(class.ivars) : class.ivars[i].valid

IsValidClass(mem, c) ==
    /\ ContainsValidROData(mem, c)
    /\ IsValidName(GetClassName(mem, c))
    /\ ContainsValidIvarData(mem[c])

\* isValidObject
IsValidObject(mem, a) ==
    IF IsTaggedPointer(a) THEN IsValidTaggedPointer(a)
    ELSE /\ Readable(mem, a) /\ Readable(mem, GetIsaPointer(mem, a))
         /\ IsValidClass(mem, GetIsaPointer(mem, a))

\* The superclasses of c as the loops meet them: c itself first, until one of
\* them has no readable data or the loop is at its end.
SuperClasses(mem, c) ==
    LET step[n \in 1 .. MaxSuperclasses] ==
            IF n = 1 THEN <<c>>
            ELSE LET s == step[n - 1]
                     next == GetSuperClass(mem, s[Len(s)])
                 IN  IF Len(s) = n - 1 /\ ContainsValidROData(mem, next) THEN Append(s, next) ELSE s
    IN  step[MaxSuperclasses]

NoClass == 0

\* sentrycrashobjc_baseClass: the class before the root class.
BaseClass(mem, c) ==
    LET s == SuperClasses(mem, c)
        roots == {i \in DOMAIN s : IsRootClass(mem, s[i])}
        first == CHOOSE i \in roots : \A j \in roots : i <= j
    IN  IF roots = {} THEN NoClass
        ELSE s[IF first = 1 THEN 1 ELSE first - 1]

\* isBlockClass; the name of the base class was never checked.
IsBlockClass(mem, c) == BaseClass(mem, c) # NoClass /\ GetClassName(mem, BaseClass(mem, c)) = "NSBlock"

\* sentrycrashobjc_objectType: an object has to look like a class as well.
ObjectType(mem, a) ==
    CASE a = 0 -> "unknown"
      [] a # 0 /\ IsTaggedPointer(a) -> "object"
      [] a # 0 /\ ~IsTaggedPointer(a) /\ ~(IsValidObject(mem, a) /\ IsValidClass(mem, a)) -> "unknown"
      [] OTHER -> IF IsBlockClass(mem, GetIsaPointer(mem, a)) THEN "block"
                  ELSE IF IsMetaClass(mem, GetIsaPointer(mem, a)) THEN "class" ELSE "object"

\* sentrycrashobjc_objectClassName
ObjectClassName(mem, a) ==
    IF ~IsTaggedPointer(a) THEN GetClassName(mem, GetIsaPointer(mem, a))
    ELSE IF IsValidTaggedPointer(a) THEN TaggedClassData[GetTaggedSlot(a) + 1]
    ELSE "null"

\* g_classData: the classes that are known by their names.
ClassData ==
    [NSCFString |-> "string", NSArrayI |-> "array", NSArrayM |-> "array", NSCFArray |-> "array",
     NSDate |-> "date", NSCFNumber |-> "number", NSURL |-> "url"]

\* getClassData; the class pointer it caches only saves the comparison of names.
GetClassData(name) == IF name \in DOMAIN ClassData THEN ClassData[name] ELSE "unknown"

\* sentrycrashobjc_objectClassType
ObjectClassType(mem, a) ==
    IF IsTaggedPointer(a) THEN TaggedClassData[GetTaggedSlot(a) + 1]
    ELSE GetClassData(GetClassName(mem, GetIsaPointer(mem, a)))

----------------------------------------------------------------------------
(* What is inside an object *)

\* sentrycrashobjc_ivarList: at most as many as the caller has room for.
IvarList(class) == SubSeq(class.ivars, 1, IF Len(class.ivars) < MaxIvars THEN Len(class.ivars) ELSE MaxIvars)

\* sentrycrashobjc_ivarValue of an ivar: a word of the object or, when it cannot
\* be read, of the caller's uninitialised variable; -1 is a value without address.
IvarValue(ivar) == ivar.to

\* nsarrayContents and cfarrayContents: how many of count entries are copied.
\* A mutable NSArray is not understood.
ArrayContents(array, count) ==
    LET n == IF array.count < count THEN array.count ELSE count
    IN  IF n <= 0 \/ array.kind = "mutable" \/ ~array.readable THEN 0 ELSE n

\* Variants of a CFString by the bits of its header.
HasExplicitLength(str) == str.mutable \/ ~str.lengthByte

\* The length that stringIsValid looks at.
ValidatedLength(str) == IF str.inline \/ HasExplicitLength(str) THEN str.length ELSE str.byte

\* stringIsValid: of the characters only the first has to be readable.
StringIsValid(str) ==
    /\ str.header
    /\ str.inline \/ HasExplicitLength(str) \/ str.readable > 0
    /\ ValidatedLength(str) >= 0
    /\ ValidatedLength(str) > 0 => str.readable > 0

\* sentrycrashobjc_stringLength
StringLength(str) == IF HasExplicitLength(str) THEN str.length ELSE str.byte

\* copy8BitString: how many characters are copied, all of them or none.
Copy8BitString(str, maxByteCount) ==
    LET count == IF StringLength(str) >= maxByteCount THEN maxByteCount - 1 ELSE StringLength(str)
    IN  IF maxByteCount = 0 \/ StringLength(str) = 0 \/ count > str.readable THEN 0 ELSE count

LeadSurrogate(unit) == unit \in 55296 .. 56319

TailSurrogate(unit) == unit \in 56320 .. 57343

\* The character of a surrogate pair.
SurrogatePair(lead, tail) == (lead - 55296) * 1024 + (tail - 56320) + 65536

Byte(first, ch, shift) == first + ((ch \div 2 ^ shift) % 64)

UTF8Bytes(ch) ==
    CASE ch <= 127 -> <<ch>>
      [] ch \in 128 .. 2047 -> <<192 + ch \div 64, Byte(128, ch, 0)>>
      [] ch \in 2048 .. 65535 -> <<224 + ch \div 4096, Byte(128, ch, 6), Byte(128, ch, 0)>>
      [] OTHER -> <<240 + ch \div 262144, Byte(128, ch, 12), Byte(128, ch, 6), Byte(128, ch, 0)>>

RECURSIVE ConvertUTF16(_, _, _, _, _)

\* The loop of copyAndConvertUTF16StringToUTF8, which reads the tail of a pair
\* without asking whether it is part of the string: src holds one unit more.
ConvertUTF16(src, i, charsLeft, room, out) ==
    LET pair  == LeadSurrogate(src[i])
        bad   == TailSurrogate(src[i]) \/ (pair /\ ~TailSurrogate(src[i + 1]))
        bytes == UTF8Bytes(IF pair THEN SurrogatePair(src[i], src[i + 1]) ELSE src[i])
        n     == IF pair THEN 2 ELSE 1
    IN  IF charsLeft <= 0 \/ Len(out) >= room THEN [out |-> out, read |-> i - 1]
        ELSE IF bad THEN [out |-> <<>>, read |-> i + n - 1]
        ELSE IF Len(out) + Len(bytes) > room THEN [out |-> out, read |-> i + n - 1]
        ELSE ConvertUTF16(src, i + n, charsLeft - n, room, out \o bytes)

CopyAndConvertUTF16StringToUTF8(src, charCount, maxByteCount) ==
    ConvertUTF16(src, 1, charCount, maxByteCount - 1, <<>>)

\* sentrycrashobjc_numberAsInteger: the payload of any valid tagged pointer, else
\* by the type CFNumber gives; a float is counted in tenths here.
NumberAsInteger(number) ==
    CASE IsValidTaggedPointer(number.pointer) -> ExtractTaggedNSNumber(number.pointer)
      [] ~IsValidTaggedPointer(number.pointer) /\ number.type = "float" -> number.value \div 10
      [] ~IsValidTaggedPointer(number.pointer) /\ number.type = "int" -> number.value
      [] OTHER -> 0

----------------------------------------------------------------------------
(* Descriptions: what is written where in a buffer of a given size *)

\* stringPrintf: what it returns, one too much when the text just fits without
\* its terminator.
StringPrintf(length, room) ==
    IF room = 0 THEN 0 ELSE IF length > room THEN room - 1 ELSE length

\* A part of a description: printed text, a string of 8 or 16 bits, or a tagged
\* string, with its length.
Part(k, n) == [k |-> k, n |-> n]

\* pos: pBuffer; last: the last place of the buffer that was written, from 0.
AddPart(d, part) ==
    LET room == d.size - d.pos
        most == IF room <= 0 THEN 0 ELSE room - 1
        fits == IF part.n < most THEN part.n ELSE most
        upTo(p) == IF p > d.last THEN p ELSE d.last
    IN  CASE part.k = "print" ->
                 [d EXCEPT !.pos = @ + StringPrintf(part.n, room),
                           !.last = IF room = 0 THEN @ ELSE upTo(d.pos + fits)]
          [] part.k = "8bit" ->
                 [d EXCEPT !.pos = @ + fits, !.last = IF room = 0 THEN @ ELSE upTo(d.pos + fits)]
          [] part.k = "16bit" -> [d EXCEPT !.pos = @ + fits, !.last = upTo(d.pos + fits)]
          [] part.k = "tagged" -> [d EXCEPT !.pos = @ + part.n, !.last = upTo(d.pos + part.n)]

Describe(parts, bufferLength) ==
    LET step[i \in 0 .. Len(parts)] ==
            IF i = 0 THEN [pos |-> 0, last |-> -1, size |-> bufferLength]
            ELSE AddPart(step[i - 1], parts[i])
    IN  step[Len(parts)]

\* objectDescription and taggedObjectDescription: the class and the address.
ObjectDescription == <<Part("print", 3)>>

StringDescription(contents) ==
    ObjectDescription \o <<Part("print", 2), contents, Part("print", 1)>>

\* taggedStringDescription
TaggedStringDescription(length) == <<Part("tagged", length)>>

\* urlDescription: the string of the URL, through copyURLContents.
URLDescription(contents) == StringDescription(contents)

\* dateDescription and its tagged form
DateDescription(length) == ObjectDescription \o <<Part("print", length)>>

\* numberDescription and its tagged form
NumberDescription(length) == ObjectDescription \o <<Part("print", length)>>

\* arrayDescription, with the description of the first element
ArrayDescription(first) == ObjectDescription \o <<Part("print", 2)>> \o first \o <<Part("print", 1)>>

----------------------------------------------------------------------------
(* What the inspection follows without a check *)

\* The classes whose names are compared when the type of a is looked for.
NamesRead(mem, a) ==
    IF a = 0 \/ IsTaggedPointer(a) \/ ~(IsValidObject(mem, a) /\ IsValidClass(mem, a)) THEN {}
    ELSE {GetIsaPointer(mem, a)} \cup ({BaseClass(mem, GetIsaPointer(mem, a))} \ {NoClass})

\* The ivars that are read when the contents of an object of an unknown class
\* are written.
IvarsRead(mem, a) ==
    IF ObjectType(mem, a) # "object" \/ IsTaggedPointer(a) THEN {}
    ELSE IF ObjectClassType(mem, a) # "unknown" THEN {}
    ELSE DOMAIN IvarList(mem[mem[a].isa])

=============================================================================
