------------------------------ MODULE Bencode ------------------------------
(***************************************************************************)
(* The codec of package bencode, and Load and Write of metainfo.MetaInfo   *)
(* on top of it.  A Decoder reads a stream that arrives in pieces, and     *)
(* waits for more until it returns.                                        *)
(*                                                                         *)
(* A value is decoded into an interface{} ("any"), a RawMessage ("raw"), a *)
(* string field ("string") or the struct MetaInfo ("struct"), which has    *)
(* the field InfoBytes, a RawMessage, and of its optional fields Comment.  *)
(* The keys of the two are one byte long here.                             *)
(*                                                                         *)
(* A decoded value is a pair of its kind and its content; the outcome of   *)
(* decoding is the position n behind it, the error and the value.          *)
(***************************************************************************)
EXTENDS Integers, Sequences, SequencesExt, FiniteSetsExt, TLC

CONSTANTS
    Chunk,      \* the strings of bytes that may arrive at once
    InfoKey,    \* "info"
    CommentKey, \* "comment"
    MaxChunks   \* Bound: chunks of a stream

VARIABLE chunks  \* the chunks that have arrived

input == FlattenSeq(chunks)

Ok(n, value) == [n |-> n, err |-> "none", value |-> value]
Fails(err) == [n |-> 0, err |-> err, value |-> <<"nil">>]

-----------------------------------------------------------------------------
(* Numbers and strings.                                                    *)

Digit == <<"0", "1", "2", "3", "4", "5", "6", "7", "8", "9">>

\* strconv.ParseInt in base 10; a number is too short here to be out of range.
IsNumber(s) ==
    LET digits == IF s # <<>> /\ s[1] = "-" THEN Tail(s) ELSE s
    IN  digits # <<>> /\ \A i \in DOMAIN digits : Contains(Digit, digits[i])

ParseInt(s) ==
    LET Append10(n, c) == 10 * n + (CHOOSE d \in 0..9 : Digit[d + 1] = c)
    IN  IF s[1] = "-" THEN -FoldLeft(Append10, 0, Tail(s)) ELSE FoldLeft(Append10, 0, s)

\* %d of fmt.
RECURSIVE Itoa(_)
Itoa(n) ==
    IF n < 0 THEN <<"-">> \o Itoa(-n)
    ELSE IF n < 10 THEN <<Digit[n + 1]>> ELSE Append(Itoa(n \div 10), Digit[(n % 10) + 1])

\* The order of strings in Go: by the first byte in which they differ.
Ascii(c) == CHOOSE i \in 1..16 : (<<"-">> \o Digit \o <<":", "d", "e", "i", "l">>)[i] = c

Less(s, t) ==
    \/ IsStrictPrefix(s, t)
    \/ \E i \in DOMAIN s \cap DOMAIN t :
        Ascii(s[i]) < Ascii(t[i]) /\ \A j \in 1..(i - 1) : s[j] = t[j]

-----------------------------------------------------------------------------
(* The decoder.                                                            *)

\* readBytes: the position of the delimiter, or 0 at the end of the stream.
ReadBytes(s, p, delim) ==
    LET at == {i \in p..Len(s) : s[i] = delim} IN IF at = {} THEN 0 ELSE Min(at)

\* decodeInt.  In raw mode the digits are not looked at.
DecodeInt(s, p, into) ==
    LET e == ReadBytes(s, p + 1, "e")
        digits == SubSeq(s, p + 1, e - 1)
    IN  IF e = 0 THEN Fails("eof")
        ELSE IF into = "raw" THEN Ok(e + 1, <<"raw", SubSeq(s, p, e)>>)
        ELSE IF into = "any" /\ IsNumber(digits) THEN Ok(e + 1, <<"int", ParseInt(digits)>>)
        ELSE Fails("invalid")

\* Mutant: the buffer of raw mode gets the string without its length.
DecodeStringRawBody(s, p, into) ==
    LET colon == ReadBytes(s, p, ":")
        digits == SubSeq(s, p, colon - 1)
    IN  IF colon = 0 THEN Fails("eof")
        ELSE IF ~IsNumber(digits) \/ ParseInt(digits) < 0 THEN Fails("invalid")
        ELSE LET n == colon + ParseInt(digits) + 1 IN
             IF n - 1 > Len(s) THEN Fails("eof")
             ELSE IF into = "raw" THEN Ok(n, <<"raw", SubSeq(s, colon + 1, n - 1)>>)
             ELSE IF into = "struct" THEN Fails("invalid")
             ELSE Ok(n, <<"str", SubSeq(s, colon + 1, n - 1)>>)

\* decodeString: the length, a colon and as many bytes.
DecodeString(s, p, into) ==
    LET colon == ReadBytes(s, p, ":")
        digits == SubSeq(s, p, colon - 1)
    IN  IF colon = 0 THEN Fails("eof")
        ELSE IF ~IsNumber(digits) \/ ParseInt(digits) < 0 THEN Fails("invalid")
        ELSE LET n == colon + ParseInt(digits) + 1 IN
             IF n - 1 > Len(s) THEN Fails("eof")
             ELSE IF into = "raw" THEN Ok(n, <<"raw", SubSeq(s, p, n - 1)>>)
             ELSE IF into = "struct" THEN Fails("invalid")
             ELSE Ok(n, <<"str", SubSeq(s, colon + 1, n - 1)>>)

\* What the value of a key is decoded into; that of a key that is not a field
\* is decoded and dropped.
FieldKind(into, key) ==
    IF into # "struct" THEN into
    ELSE IF key = InfoKey THEN "raw" ELSE IF key = CommentKey THEN "string" ELSE "any"

RECURSIVE DecodeInto(_, _, _, _)

\* The loop of decodeList; the value so far is a list or, in raw mode, bytes.
RECURSIVE DecodeItems(_, _, _, _, _)
DecodeItems(s, p, into, strict, sofar) ==
    IF p > Len(s) THEN Fails("eof")
    ELSE IF s[p] = "e"
    THEN Ok(p + 1, IF into = "raw" THEN <<"raw", Append(sofar, "e")>> ELSE <<"list", sofar>>)
    ELSE LET item == DecodeInto(s, p, into, strict) IN
         IF item.err # "none" THEN item
         ELSE DecodeItems(s, item.n, into, strict,
                  IF into = "raw" THEN sofar \o item.value[2] ELSE Append(sofar, item.value))

\* The loop of decodeDict.  A key that comes again replaces the value.
RECURSIVE DecodeEntries(_, _, _, _, _, _)
DecodeEntries(s, p, into, strict, lastKey, sofar) ==
    IF p > Len(s) THEN Fails("eof")
    ELSE IF s[p] = "e"
    THEN Ok(p + 1, IF into = "raw" THEN <<"raw", Append(sofar, "e")>> ELSE <<"dict", sofar>>)
    ELSE LET key == DecodeString(s, p, IF into = "raw" THEN "raw" ELSE "string") IN
         IF key.err # "none" THEN key
         ELSE IF into # "raw" /\ strict /\ Less(key.value[2], lastKey) THEN Fails("invalid")
         ELSE LET entry == DecodeInto(s, key.n, FieldKind(into, key.value[2]), strict) IN
              IF entry.err # "none" THEN entry
              ELSE DecodeEntries(s, entry.n, into, strict, key.value[2],
                  IF into = "raw" THEN sofar \o key.value[2] \o entry.value[2]
                  ELSE IF into = "struct" /\ key.value[2] \notin {InfoKey, CommentKey} THEN sofar
                  ELSE (key.value[2] :> entry.value) @@ sofar)

\* decodeInto: the first byte tells the kind of the value.  A list is stored
\* in an interface{} only, a dictionary in an interface{} or the struct.
DecodeInto(s, p, into, strict) ==
    IF p > Len(s) THEN Fails("eof")
    ELSE CASE s[p] = "i" -> DecodeInt(s, p, into)
           [] Contains(Digit, s[p]) -> DecodeString(s, p, into)
           [] s[p] = "l" /\ into \in {"raw", "any"} ->
                DecodeItems(s, p + 1, into, strict, IF into = "raw" THEN <<"l">> ELSE <<>>)
           [] s[p] = "d" /\ into # "string" ->
                DecodeEntries(s, p + 1, into, strict, <<>>, IF into = "raw" THEN <<"d">> ELSE <<>>)
           [] OTHER -> Fails("invalid")

\* Decode, with or without SetFailOnUnorderedKeys.
Decode(s, into, strict) == DecodeInto(s, 1, into, strict)

-----------------------------------------------------------------------------
(* The encoder.                                                            *)

EncodeString(s) == Itoa(Len(s)) \o <<":">> \o s

\* Mutant: a key that is the beginning of another one comes after it.
SortKeysByLength(keys) ==
    SetToSortSeq(keys, LAMBDA s, t : Len(s) > Len(t) \/ (Len(s) = Len(t) /\ Less(s, t)))

\* sort.Sort of the keys of a map or of a struct.
SortKeys(keys) == SetToSortSeq(keys, Less)

\* encodeValue.
RECURSIVE EncodeValue(_)
EncodeValue(v) ==
    CASE v[1] = "int" -> <<"i">> \o Itoa(v[2]) \o <<"e">>
      [] v[1] = "str" -> EncodeString(v[2])
      [] v[1] = "raw" -> v[2]
      [] v[1] = "list" ->
            <<"l">> \o FlattenSeq([i \in DOMAIN v[2] |-> EncodeValue(v[2][i])]) \o <<"e">>
      [] v[1] = "dict" ->
            LET keys == SortKeys(DOMAIN v[2])
                Entry(i) == EncodeString(keys[i]) \o EncodeValue(v[2][keys[i]])
            IN  <<"d">> \o FlattenSeq([i \in DOMAIN keys |-> Entry(i)]) \o <<"e">>

-----------------------------------------------------------------------------
(* MetaInfo.                                                               *)

\* Load.
Load(s) == Decode(s, "struct", FALSE)

\* readStruct of a MetaInfo: InfoBytes is always written, a field with
\* omitempty only if it is not empty.
ReadStruct(mi) ==
    LET info == IF InfoKey \in DOMAIN mi THEN mi[InfoKey] ELSE <<"raw", <<>>>>
        comment == IF CommentKey \in DOMAIN mi THEN mi[CommentKey] ELSE <<"str", <<>>>>
    IN  IF comment[2] = <<>> THEN InfoKey :> info ELSE (InfoKey :> info) @@ (CommentKey :> comment)

\* MetaInfo.Write.
Write(mi) == EncodeValue(<<"dict", ReadStruct(mi)>>)

-----------------------------------------------------------------------------

BInit == chunks = <<>>

\* More bytes arrive, for a decoder that waits for them.
Arrive ==
    /\ "eof" \in {Decode(input, into, FALSE).err : into \in {"any", "struct"}}
    /\ Len(chunks) < MaxChunks
    /\ \E c \in Chunk : chunks' = Append(chunks, c)

-----------------------------------------------------------------------------

\* What Decode accepts is encoded again as the same value, whatever the order
\* and the spelling in which it came: Decode of it gives the value back, reads
\* it to the end, and does so too if it is to fail on unordered keys.
DecodedValuesSurvive ==
    LET r == Decode(input, "any", FALSE)
        again == EncodeValue(r.value)
    IN  r.err = "none" => Decode(again, "any", TRUE) = Ok(Len(again) + 1, r.value)

\* What Load makes of a file, what a decoder makes of the whole file, and what
\* Load makes of the file that is written have the same InfoBytes.
SameInfo(mi, file, again) ==
    LET info == mi.value[2][InfoKey][2] IN
    mi.err = "none" /\ InfoKey \in DOMAIN mi.value[2] =>
        /\ \E i \in 1..Len(input) : IsPrefix(info, SubSeq(input, i, Len(input)))
        /\ file.err = "none" =>
            /\ file.n = mi.n
            /\ Decode(info, "any", FALSE) = Ok(Len(info) + 1, file.value[2][InfoKey])
        /\ again.err = "none" /\ ReadStruct(again.value[2]) = ReadStruct(mi.value[2])

\* The infohash of a torrent survives Load and Write: InfoBytes are bytes of the
\* file, also when they are not spelt as the encoder would; they are the value
\* of the key, as a decoder of the whole file sees it; and the file that Write
\* makes of them is loaded with the same bytes.
InfoBytesSurvive ==
    LET mi == Load(input)
    IN  SameInfo(mi, Decode(input, "any", FALSE), Load(Write(mi.value[2])))

=============================================================================
