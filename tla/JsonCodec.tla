------------------------------- MODULE JsonCodec -------------------------------
(***************************************************************************)
(* SentryCrashJSONCodec.c: the encoder that the crash report writer drives *)
(* one call at a time, the decoder with its callbacks, and the two         *)
(* functions that pass JSON of the scope or of an older report through     *)
(* both.  A text is a sequence of tokens; white space is left out.  Of a   *)
(* string inside a token only what the codec reacts to is kept: whether it *)
(* holds a control character that has no escape ("ctl") or is too long for *)
(* the buffers of a decoder ("mid", "long", "huge").                       *)
(***************************************************************************)
EXTENDS Integers, Sequences

CONSTANTS WorkBufferSize,   \* SentryCrashJSONCODEC_WorkBufferSize
          FileBufferSize,   \* fileBuffer of sentrycrashjson_addJSONFromFile
          IntBits           \* bits of int64_t and uint64_t

ASSUME JsonCodecAssumption ==
    /\ WorkBufferSize \in Nat /\ WorkBufferSize >= 2
    /\ FileBufferSize \in Nat \ {0}
    /\ IntBits \in Nat \ {0}

\* Left fold of op over s[from + 1 .. to].  Its values are singletons, which makes
\* TLC evaluate them in order.
FoldRange(op(_, _), base, s, from, to) ==
    LET f[i \in from .. to] == IF i = from THEN {base} ELSE {op(p, s[i]) : p \in f[i - 1]}
    IN  CHOOSE x \in f[to] : TRUE

\* Left fold over a sequence, in blocks so that the evaluation stays shallow.
Fold(op(_, _), base, s) ==
    LET block == 16
        last(k) == IF k * block < Len(s) THEN k * block ELSE Len(s)
        f[k \in 0 .. (Len(s) \div block) + 1] ==
            IF k = 0 THEN {base}
            ELSE {FoldRange(op, p, s, last(k - 1), last(k)) : p \in f[k - 1]}
    IN  CHOOSE x \in f[(Len(s) \div block) + 1] : TRUE

Top(s) == s[Len(s)]

Pop(s) == SubSeq(s, 1, Len(s) - 1)

----------------------------------------------------------------------------
(* Tokens and strings *)

Tok(t, s) == [t |-> t, s |-> s]

Punct(t) == Tok(t, "")

Str(s) == Tok("str", s)

Num(s) == Tok("num", s)     \* s: "int", "uint" or "fp"

Lit(s) == Tok("lit", s)     \* s: "true", "false" or "null"

NoName == "(null)"

HasControl(s) == s = "ctl"

\* The texts that are too long for the buffers of a decoder, as a name and as a
\* string.  Texts have 500 characters ("mid"), 5000 ("long") or more than the
\* buffers of sentrycrashjson_decode take ("huge"), or fit everywhere.
FileBuffers == [name |-> {"mid", "long", "huge"}, string |-> {"mid", "long", "huge"}]

ElementBuffers == [name |-> {"mid", "long", "huge"}, string |-> {"long", "huge"}]

DecodeBuffers == [name |-> {"huge"}, string |-> {"huge"}]

\* Buffers without bounds, for the properties.
NoBounds == [name |-> {}, string |-> {}]

----------------------------------------------------------------------------
(* The encoder *)

\* SentryCrashJSONEncodeContext: the open containers, whether the current one
\* is still empty, what was written, and whether the last call succeeded.
BeginEncode == [stack |-> <<>>, first |-> TRUE, out |-> <<>>, ok |-> TRUE]

Emit(c, tok) == [c EXCEPT !.out = Append(@, tok), !.ok = TRUE]

InObject(c) == c.stack # <<>> /\ Top(c.stack) = "{"

\* A portion with a bad character is dropped, the quotes are always written.
AddQuotedEscapedString(c, s) ==
    IF HasControl(s)
    THEN [Emit(c, Str("")) EXCEPT !.ok = FALSE]
    ELSE Emit(c, Str(s))

\* sentrycrashjson_beginElement: a comma unless it is the first, then the name.
BeginElement(c, name) ==
    LET b == IF c.first THEN [c EXCEPT !.first = FALSE, !.ok = TRUE]
                        ELSE Emit(c, Punct(","))
        n == AddQuotedEscapedString(b, name)
    IN  IF ~InObject(c) THEN b
        ELSE IF name = NoName THEN [b EXCEPT !.ok = FALSE]
        ELSE IF n.ok THEN Emit(n, Punct(":")) ELSE n

AddElement(c, name, v) ==
    LET b == BeginElement(c, name)
    IN  IF ~b.ok THEN b
        ELSE IF v.t = "str" THEN AddQuotedEscapedString(b, v.s)
        ELSE Emit(b, v)

BeginContainer(c, name, open) ==
    LET b == BeginElement(c, name)
    IN  IF ~b.ok THEN b
        ELSE [Emit(b, Punct(open)) EXCEPT !.stack = Append(@, open), !.first = TRUE]

BeginObject(c, name) == BeginContainer(c, name, "{")

BeginArray(c, name) == BeginContainer(c, name, "[")

Closing(open) == IF open = "{" THEN "}" ELSE "]"

\* mutant: the flag of the container that ends is kept for the one around it
EndContainer_FirstKept(c) ==
    IF c.stack = <<>> THEN [c EXCEPT !.ok = TRUE]
    ELSE [Emit(c, Punct(Closing(Top(c.stack)))) EXCEPT !.stack = Pop(@)]

\* sentrycrashjson_endContainer; outside every container it does nothing.
EndContainer(c) ==
    IF c.stack = <<>> THEN [c EXCEPT !.ok = TRUE]
    ELSE [Emit(c, Punct(Closing(Top(c.stack)))) EXCEPT !.stack = Pop(@), !.first = FALSE]

\* Ends containers until only n are open.
EndDownTo(c, n) == Fold(LAMBDA d, i : EndContainer(d), c, [i \in 1 .. Len(c.stack) - n |-> i])

EndEncode(c) == EndDownTo(c, 0)

----------------------------------------------------------------------------
(* The decoder *)

\* A callback of the decoder: k is "obj", "arr", "val" or "end".
Event(k, name, v) == [k |-> k, name |-> name, v |-> v]

None == Punct("")

\* The decoder before the element called name.  mode is what it expects next:
\* a value, an element of an array or its end, a member of an object or its end,
\* or the colon after a name; comma says that one comma may be skipped.
DecodeStart(name, buffers) ==
    [evs |-> <<>>, stack |-> <<>>, mode |-> "value", name |-> name,
     comma |-> FALSE, ok |-> TRUE, done |-> FALSE, tooLong |-> buffers]

\* After an element the decoder goes on in the container around it.
AfterElement(d, ev) ==
    [d EXCEPT !.evs = Append(@, ev), !.comma = TRUE,
              !.done = d.stack = <<>>,
              !.mode = IF d.stack = <<>> THEN "value"
                       ELSE IF Top(d.stack) = "{" THEN "member" ELSE "element"]

Fails(d) == [d EXCEPT !.ok = FALSE]

DecodeValue(d, tok) ==
    LET name == IF d.mode = "value" THEN d.name ELSE NoName
    IN  CASE tok.t = "{" -> [d EXCEPT !.evs = Append(@, Event("obj", name, None)),
                                      !.stack = Append(@, "{"), !.mode = "member", !.comma = FALSE]
          [] tok.t = "[" -> [d EXCEPT !.evs = Append(@, Event("arr", name, None)),
                                      !.stack = Append(@, "["), !.mode = "element", !.comma = FALSE]
          [] tok.t = "str" -> IF tok.s \in d.tooLong.string THEN Fails(d)
                              ELSE AfterElement(d, Event("val", name, tok))
          [] tok.t \in {"num", "lit"} -> AfterElement(d, Event("val", name, tok))
          [] OTHER -> Fails(d)

EndsContainer(d, tok) ==
    \/ d.mode = "member" /\ tok.t = "}"
    \/ d.mode = "element" /\ tok.t = "]"

\* decodeElement, one token at a time.
DecodeToken(d, tok) ==
    CASE ~d.ok \/ d.done -> d
      [] d.comma /\ tok.t = "," -> [d EXCEPT !.comma = FALSE]
      [] EndsContainer(d, tok) ->
             AfterElement([d EXCEPT !.stack = Pop(@)], Event("end", NoName, None))
      [] d.mode = "member" /\ tok.t # "}" ->
             IF tok.t = "str" /\ tok.s \notin d.tooLong.name
             THEN [d EXCEPT !.name = tok.s, !.mode = "colon", !.comma = FALSE]
             ELSE Fails(d)
      [] d.mode = "colon" -> IF tok.t = ":" THEN [d EXCEPT !.mode = "value"] ELSE Fails(d)
      [] OTHER -> DecodeValue([d EXCEPT !.comma = FALSE], tok)

\* decodeElement on a whole text: the callbacks that are called, and whether it
\* was decoded to its end.
Decode(toks, name, buffers) ==
    LET d == Fold(DecodeToken, DecodeStart(name, buffers), toks)
    IN  [evs |-> d.evs, ok |-> d.ok /\ d.done]

----------------------------------------------------------------------------
(* Passing JSON through *)

Encode(c, ev) ==
    CASE ev.k = "obj" -> BeginObject(c, ev.name)
      [] ev.k = "arr" -> BeginArray(c, ev.name)
      [] ev.k = "val" -> AddElement(c, ev.name, ev.v)
      [] ev.k = "end" -> EndContainer(c)

\* The addJSONFromFile callbacks: a container of the outermost two levels stays
\* open unless the caller wants it closed.
PassOn(c, ev, close) ==
    IF ~c.ok THEN c
    ELSE IF ev.k # "end" \/ close \/ Len(c.stack) > 2 THEN Encode(c, ev)
    ELSE c

\* What sentrycrashjson_addJSONElement and sentrycrashjson_addJSONFromFile do
\* alike: ok says whether all of it was passed on.
PassJSON(c, name, toks, close, buffers) ==
    LET d    == Decode(toks, name, buffers)
        p    == Fold(LAMBDA x, ev : PassOn(x, ev, close), [c EXCEPT !.ok = TRUE], d.evs)
        okay == d.ok /\ p.ok
    IN  [ (IF close THEN EndDownTo(p, Len(c.stack)) ELSE p) EXCEPT !.ok = okay ]

AddJSONElement(c, name, toks, close) == PassJSON(c, name, toks, close, ElementBuffers)

AddJSONElementFromFile(c, name, toks, close) == PassJSON(c, name, toks, close, FileBuffers)

\* updateDecoder_readFile, after every callback.  left: the bytes from the
\* decoder's position to the end of the buffer.
Refill(r) == IF r.left < FileBufferSize \div 2 THEN [r EXCEPT !.left = FileBufferSize] ELSE r

ReadElement(r, length) ==
    IF r.ok /\ length <= r.left
    THEN Refill([r EXCEPT !.left = @ - length, !.read = @ + 1])
    ELSE [r EXCEPT !.ok = FALSE]

\* sentrycrashjson_addJSONFromFile: how many of the elements of a file, given by
\* their lengths, are decoded before one does not lie in the buffer as a whole.
AddJSONFromFile(lengths) ==
    Fold(ReadElement, Refill([left |-> 0, read |-> 0, ok |-> TRUE]), lengths).read

----------------------------------------------------------------------------
(* Strings, character by character, and numbers *)

\* mutant: a quote is escaped, a backslash is not
EscapeChar_QuoteOnly(ch) ==
    CASE ch = "\"" -> <<"\\", ch>>
      [] ch = "NL" -> <<"\\", "n">>
      [] OTHER -> <<ch>>

\* appendEscapedString of a portion; control characters without an escape fail.
EscapeChar(ch) ==
    CASE ch \in {"\\", "\""} -> <<"\\", ch>>
      [] ch = "NL" -> <<"\\", "n">>
      [] OTHER -> <<ch>>

AppendEscapedString(r, portion) ==
    IF ~r.ok THEN r
    ELSE IF \E i \in DOMAIN portion : portion[i] = "CTL" THEN [r EXCEPT !.ok = FALSE]
    ELSE [r EXCEPT !.out = @ \o Fold(LAMBDA o, ch : o \o EscapeChar(ch), <<>>, portion)]

\* addEscapedString: portions of half the work buffer.
AddEscapedString(s) ==
    LET half == WorkBufferSize \div 2
        portions == (Len(s) + half - 1) \div half
        portion(i) == SubSeq(s, (i - 1) * half + 1, IF i * half < Len(s) THEN i * half ELSE Len(s))
    IN  Fold(LAMBDA r, i : AppendEscapedString(r, portion(i)),
             [out |-> <<>>, ok |-> TRUE], [i \in 1 .. portions |-> i])

\* decodeString finds the end of the string first: the first quote that does not
\* come after a backslash ...
ClosingQuote(text) ==
    LET scan == Fold(LAMBDA z, ch :
                        IF z.found THEN z
                        ELSE IF z.skip THEN [z EXCEPT !.skip = FALSE, !.len = @ + 1]
                        ELSE IF ch = "\"" THEN [z EXCEPT !.found = TRUE]
                        ELSE [z EXCEPT !.skip = ch = "\\", !.len = @ + 1],
                     [found |-> FALSE, skip |-> FALSE, len |-> 0], text)
    IN  IF scan.found THEN scan.len ELSE -1

UnescapeChar(ch) == IF ch = "n" THEN "NL" ELSE ch

\* ... and then takes the escapes away.  text begins after the opening quote.
DecodeString(text) ==
    LET n == ClosingQuote(text)
        u == Fold(LAMBDA z, ch :
                     IF z.skip THEN [z EXCEPT !.skip = FALSE, !.out = Append(@, UnescapeChar(ch)),
                                              !.ok = @ /\ ch \in {"\"", "\\", "n"}]
                     ELSE IF ch = "\\" THEN [z EXCEPT !.skip = TRUE]
                     ELSE [z EXCEPT !.out = Append(@, ch)],
                  [skip |-> FALSE, out |-> <<>>, ok |-> TRUE], SubSeq(text, 1, n))
    IN  IF n < 0 THEN [ok |-> FALSE, out |-> <<>>] ELSE [ok |-> u.ok, out |-> u.out]

ULLONG_MAX == 2 ^ IntBits - 1

LLONG_MAX == 2 ^ (IntBits - 1) - 1

AccumulateDigit(a, digit) ==
    IF a.overflow \/ a.value > ULLONG_MAX \div 10 THEN [a EXCEPT !.overflow = TRUE]
    ELSE IF a.value * 10 > ULLONG_MAX - digit THEN [a EXCEPT !.overflow = TRUE]
    ELSE [a EXCEPT !.value = @ * 10 + digit]

\* The number branch of decodeElement: which callback gets the digits.
DecodeNumber(negative, digits) ==
    LET a == Fold(AccumulateDigit, [value |-> 0, overflow |-> FALSE], digits)
    IN  IF a.overflow THEN [kind |-> "fp", value |-> 0]
        ELSE IF (negative /\ a.value <= LLONG_MAX + 1) \/ a.value <= LLONG_MAX
        THEN [kind |-> "int", value |-> IF negative THEN -a.value ELSE a.value]
        ELSE IF ~negative THEN [kind |-> "uint", value |-> a.value]
        ELSE [kind |-> "fp", value |-> 0]

\* writeUTF8: the bytes of a character.
Continuation(ch, shift) == 128 + ((ch \div 2 ^ shift) % 64)

WriteUTF8(ch) ==
    CASE ch <= 127 -> <<ch>>
      [] ch > 127 /\ ch <= 2047 -> <<192 + (ch \div 64), Continuation(ch, 0)>>
      [] ch > 2047 /\ ch <= 65535 ->
             <<224 + (ch \div 4096), Continuation(ch, 6), Continuation(ch, 0)>>
      [] OTHER -> <<240 + (ch \div 262144), Continuation(ch, 12),
                    Continuation(ch, 6), Continuation(ch, 0)>>

INV == 69905     \* 0x11111

\* g_hexConversion: a digit or INV.
HexNybble(ch) == IF ch \in 0 .. 15 THEN ch ELSE INV

\* The four characters after \u: more than 0xffff if one of them is no digit.
FourNybbles(chs) ==
    IF \E i \in 1 .. 4 : HexNybble(chs[i]) = INV THEN INV
    ELSE 4096 * chs[1] + 256 * chs[2] + 16 * chs[3] + chs[4]

IsLead(unit) == unit \in 55296 .. 56319

IsTrail(unit) == unit \in 56320 .. 57343

\* One \u escape of a string that consists of them: u.lead is a lead surrogate
\* that waits for its trail.  The plane of a pair is not added.
DecodeUnicodeEscape(u, chs) ==
    LET accum == FourNybbles(chs)
    IN  IF ~u.ok \/ accum > 65535 \/ IsTrail(accum) # (u.lead > 0) THEN [u EXCEPT !.ok = FALSE]
        ELSE IF IsLead(accum) THEN [u EXCEPT !.lead = accum]
        ELSE IF u.lead = 0 THEN [u EXCEPT !.out = @ \o WriteUTF8(accum)]
        ELSE [u EXCEPT !.out = @ \o WriteUTF8((u.lead - 55296) * 1024 + accum - 56320), !.lead = 0]

DecodeUnicode(escapes) ==
    LET u == Fold(DecodeUnicodeEscape, [ok |-> TRUE, lead |-> 0, out |-> <<>>], escapes)
    IN  [ok |-> u.ok /\ u.lead = 0, out |-> u.out]

----------------------------------------------------------------------------
(* What JSON is, for the properties *)

\* A strict reading of a text: [ok, done] of one value and nothing after it.
StrictToken(z, tok) ==
    LET after == [z EXCEPT !.mode = IF z.stack = <<>> THEN "end" ELSE "next"]
        opens == [z EXCEPT !.stack = Append(@, tok.t), !.mode = "first"]
        close == [z EXCEPT !.stack = Pop(@),
                           !.mode = IF Len(z.stack) = 1 THEN "end" ELSE "next"]
        inObject == z.stack # <<>> /\ Top(z.stack) = "{"
        closes == z.stack # <<>> /\ tok.t = Closing(Top(z.stack))
        value == CASE tok.t \in {"{", "["} -> opens
                   [] tok.t \in {"str", "num", "lit"} -> after
                   [] OTHER -> [z EXCEPT !.mode = "bad"]
        item == IF inObject
                THEN [z EXCEPT !.mode = IF tok.t = "str" THEN "colon" ELSE "bad"]
                ELSE value
    IN  CASE z.mode = "first" -> IF closes THEN close ELSE item
          [] z.mode = "next" -> IF closes THEN close
                                ELSE [z EXCEPT !.mode = IF tok.t = "," THEN "item" ELSE "bad"]
          [] z.mode = "item" -> item
          [] z.mode = "colon" -> [z EXCEPT !.mode = IF tok.t = ":" THEN "value" ELSE "bad"]
          [] z.mode = "value" -> value
          [] OTHER -> [z EXCEPT !.mode = "bad"]

IsJSON(toks) == Fold(StrictToken, [stack |-> <<>>, mode |-> "value"], toks).mode = "end"

\* The paths from the root to every element of a text that decodes.
Paths(toks) ==
    LET step(z, ev) ==
            IF ev.k = "end" THEN [z EXCEPT !.path = Pop(@)]
            ELSE LET p == Append(z.path, ev.name)
                 IN  [z EXCEPT !.all = @ \cup {<<p, ev.v>>},
                               !.path = IF ev.k = "val" THEN @ ELSE p]
    IN  Fold(step, [all |-> {}, path |-> <<>>], Decode(toks, "", NoBounds).evs).all

=============================================================================
