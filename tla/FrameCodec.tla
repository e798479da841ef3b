------------------------------ MODULE FrameCodec ------------------------------
(***************************************************************************)
(* The frame package: the header list, the encoding of header entries,     *)
(* Writer.Write and Reader.Read, and the SEND frames that createSendFrame  *)
(* builds with the options of send_options.go.  One station writes frames  *)
(* and heart-beats, the bytes arrive one by one, and the other station     *)
(* reads; the connection may break after any byte.                         *)
(*                                                                         *)
(* A text is a sequence of symbols.  The bytes that have a meaning for the *)
(* format are symbols of their own; a command, the name of a header and a  *)
(* decimal number are single symbols.                                      *)
(***************************************************************************)
EXTENDS Naturals, Sequences, SequencesExt

CONSTANTS
    Sends           \* bound: for the first, second... write, the messages it can be,
                    \* each a content type, a body and a list of options of Send

VARIABLES
    written,        \* what Write was called with, nil frames as Beat
    flight,         \* bytes written that have not arrived
    input,          \* bytes that have arrived and are not read
    received,       \* what Read has returned
    failed,         \* Read has returned an error, and the reader stops
    broken          \* the connection is broken

vars == <<written, flight, input, received, failed, broken>>

LF == "LF"
CR == "CR"
Colon == ":"
Backslash == "backslash"
Null == "NUL"

Numbers == <<"0", "1", "2", "3", "4">>
Number(n) == <<Numbers[n + 1]>>

-----------------------------------------------------------------------------
(* header.go: a list of entries, of which the first with a key counts *)

Entry(key, value) == [key |-> key, value |-> value]

Add(h, key, value) == Append(h, Entry(key, value))

HeaderContains(h, key) == \E i \in DOMAIN h : h[i].key = key
Index(h, key) == CHOOSE i \in DOMAIN h : h[i].key = key /\ \A j \in 1..(i - 1) : h[j].key /= key
Get(h, key) == h[Index(h, key)].value

Set(h, key, value) ==
    IF HeaderContains(h, key) THEN [h EXCEPT ![Index(h, key)].value = value]
    ELSE Add(h, key, value)

Del(h, key) == SelectSeq(h, LAMBDA e : e.key /= key)

ContentLength == <<"content-length">>
Destination == <<"destination">>
Receipt == <<"receipt">>
ContentType == <<"content-type">>

-----------------------------------------------------------------------------
(* createSendFrame and its options *)

NoContentLength == [option |-> "NoContentLength", key |-> <<>>, value |-> <<>>]
ReceiptOption(id) == [option |-> "Receipt", key |-> Receipt, value |-> id]
HeaderOption(key, value) == [option |-> "Header", key |-> key, value |-> value]
NilOption == [option |-> "nil", key |-> <<>>, value |-> <<>>]

Apply(h, o) ==
    CASE o.option = "NoContentLength" -> Del(h, ContentLength)
      [] o.option = "Receipt" -> Set(h, o.key, o.value)
      [] o.option = "Header" -> Add(h, o.key, o.value)
      [] o.option = "nil" -> h

\* These options do not fail for SEND; one that does stops the call before anything
\* is written.
CreateSendFrame(destination, contentType, body, opts) ==
    LET start == Set(<<Entry(ContentLength, Number(Len(body)))>>, Destination, destination)
        h == IF contentType = <<>> THEN start ELSE Set(start, ContentType, contentType)
    IN [command |-> "SEND", header |-> FoldLeft(Apply, h, opts), body |-> body]

Beat == [command |-> "none", header |-> <<>>, body |-> <<>>]

-----------------------------------------------------------------------------
(* encode.go: one pass over the text, in both directions *)

Escape(x) ==
    CASE x = Backslash -> <<Backslash, Backslash>>
      [] x = CR -> <<Backslash, "r">>
      [] x = LF -> <<Backslash, "n">>
      [] x = Colon -> <<Backslash, "c">>
      [] OTHER -> <<x>>

EncodeLinesOnly(text) ==                                        \* faulty variant
    FlattenSeq([i \in DOMAIN text |-> IF text[i] = Backslash THEN <<Backslash>>
                                      ELSE Escape(text[i])])
Encode(text) == FlattenSeq([i \in DOMAIN text |-> Escape(text[i])])

Escaped == [r |-> CR, n |-> LF, c |-> Colon, backslash |-> Backslash]

\* A backslash before anything else stays as it is.
UnencodeValue(text) ==
    LET from[i \in 1..(Len(text) + 2)] ==
          IF i > Len(text) THEN <<>>
          ELSE IF text[i] = Backslash /\ i < Len(text) /\ text[i + 1] \in DOMAIN Escaped
          THEN <<Escaped[text[i + 1]]>> \o from[i + 2]
          ELSE <<text[i]>> \o from[i + 1]
    IN from[1]

-----------------------------------------------------------------------------
(* Writer.Write *)

HeaderLine(e) == Encode(e.key) \o <<Colon>> \o Encode(e.value) \o <<LF>>

Bytes(f) ==
    IF f = Beat THEN <<LF>>
    ELSE <<f.command, LF>> \o FlattenSeq([i \in DOMAIN f.header |-> HeaderLine(f.header[i])])
         \o <<LF>> \o f.body \o <<Null>>

-----------------------------------------------------------------------------
(* Reader.Read: a frame or heart-beat and the bytes after it, an error, or   *)
(* nothing as long as bytes are missing                                      *)

Result(kind, f, rest) == [kind |-> kind, frame |-> f, rest |-> rest]
Wait == Result("wait", Beat, <<>>)
Invalid == Result("error", Beat, <<>>)

First(bytes, x) == CHOOSE i \in DOMAIN bytes : bytes[i] = x /\ \A j \in 1..(i - 1) : bytes[j] /= x
Has(bytes, x) == \E i \in DOMAIN bytes : bytes[i] = x
After(bytes, i) == SubSeq(bytes, i + 1, Len(bytes))

\* readLine: up to LF or CR LF.
Line(bytes) ==
    LET line == SubSeq(bytes, 1, First(bytes, LF) - 1)
    IN IF line /= <<>> /\ line[Len(line)] = CR THEN Front(line) ELSE line

\* Header.ContentLength
IsNumber(text) == \E n \in DOMAIN Numbers : text = <<Numbers[n]>>
LengthOf(text) == (CHOOSE n \in DOMAIN Numbers : text = <<Numbers[n]>>) - 1

\* How many bytes have to be there: the body and the null byte after it.
NeededMore(n) == n + 2                                          \* faulty variant
Needed(n) == n + 1

\* The byte after a body of n bytes.
TerminatorEarly(bytes, n) == IF n = 0 THEN bytes[1] ELSE bytes[n]   \* faulty variant
Terminator(bytes, n) == bytes[n + 1]

ReadBody(command, h, bytes) ==
    LET frame(n) == [command |-> command, header |-> h, body |-> SubSeq(bytes, 1, n)]
    IN CASE HeaderContains(h, ContentLength) /\ ~IsNumber(Get(h, ContentLength)) -> Invalid
         [] HeaderContains(h, ContentLength) /\ IsNumber(Get(h, ContentLength)) ->
              LET n == LengthOf(Get(h, ContentLength)) IN
                IF Len(bytes) < Needed(n) THEN Wait
                ELSE IF Terminator(bytes, n) /= Null THEN Invalid
                ELSE Result("frame", frame(n), After(bytes, n + 1))
         [] OTHER ->
              IF ~Has(bytes, Null) THEN Wait
              ELSE Result("frame", frame(First(bytes, Null) - 1), After(bytes, First(bytes, Null)))

RECURSIVE ReadHeader(_, _, _)
ReadHeader(command, h, bytes) ==
    IF ~Has(bytes, LF) THEN Wait
    ELSE LET line == Line(bytes)
             rest == After(bytes, First(bytes, LF))
         IN IF line = <<>> THEN ReadBody(command, h, rest)
            ELSE IF ~Has(line, Colon) \/ line[1] = Colon THEN Invalid
            ELSE LET i == First(line, Colon) IN
                   ReadHeader(command,
                              Add(h, UnencodeValue(SubSeq(line, 1, i - 1)),
                                     UnencodeValue(After(line, i))),
                              rest)

Read(bytes) ==
    IF ~Has(bytes, LF) THEN Wait
    ELSE LET line == Line(bytes)
             rest == After(bytes, First(bytes, LF))
         IN CASE line = <<>> -> Result("frame", Beat, rest)
              [] line = <<"SEND">> -> ReadHeader("SEND", <<>>, rest)
              [] OTHER -> Invalid

-----------------------------------------------------------------------------

Init ==
    /\ written = <<>> /\ flight = <<>> /\ input = <<>>
    /\ received = <<>> /\ failed = FALSE /\ broken = FALSE

Write(f) ==
    /\ ~broken
    /\ Len(written) < Len(Sends)
    /\ written' = Append(written, f)
    /\ flight' = flight \o Bytes(f)
    /\ UNCHANGED <<input, received, failed, broken>>

\* The program sends.
Send ==
    /\ Len(written) < Len(Sends)
    /\ \E m \in Sends[Len(written) + 1] :
         Write(CreateSendFrame(<<"q">>, m.type, m.body, m.opts))

Arrive ==
    /\ flight /= <<>>
    /\ input' = Append(input, Head(flight))
    /\ flight' = Tail(flight)
    /\ UNCHANGED <<written, received, failed, broken>>

ReadFrame ==
    /\ ~failed
    /\ LET result == Read(input) IN
         /\ result.kind = "frame"
         /\ received' = Append(received, result.frame)
         /\ input' = result.rest
    /\ UNCHANGED <<written, flight, failed, broken>>

ReadFails ==
    /\ ~failed
    /\ Read(input).kind \in {"error"} \cup (IF broken THEN {"wait"} ELSE {})
    /\ failed' = TRUE
    /\ UNCHANGED <<written, flight, input, received, broken>>

Break ==
    /\ ~broken
    /\ broken' = TRUE
    /\ flight' = <<>>
    /\ UNCHANGED <<written, input, received, failed>>

Next ==
    \/ Send \/ Write(Beat) \/ Arrive \/ ReadFrame \/ ReadFails \/ Break

Spec == Init /\ [][Next]_vars

-----------------------------------------------------------------------------
(* Properties *)

\* The end of the frame can be told from its header: the content-length, of which the
\* first entry counts, is that of the body, or there is none and no null byte in the
\* body.  A program that uses NoContentLength can break this, with a null byte in the
\* body or with a content-length of its own.
Delimited(f) ==
    IF HeaderContains(f.header, ContentLength)
    THEN Get(f.header, ContentLength) = Number(Len(f.body))
    ELSE ~Has(f.body, Null)

\* An entry that the reader refuses: its name is empty.
Refusable(f) == \E i \in DOMAIN f.header : f.header[i].key = <<>>

\* The frames up to the i-th are delimited.
DelimitedTo(i) == \A j \in 1..i : j \in DOMAIN written => Delimited(written[j])

\* What is read is what was written, frame by frame and heart-beat by heart-beat,
\* whatever the texts of the header entries and the bodies contain, and however
\* the bytes arrive: no frame is taken apart, joined to another or made up from
\* a part, also when the connection breaks in the middle of one.  This holds up to the
\* first frame that is not delimited; header entries that repeat content-length or
\* destination do not make a frame one of these.
RoundTrip ==
    \A i \in DOMAIN received :
        DelimitedTo(i) => i \in DOMAIN written /\ received[i] = written[i]

\* When all bytes have arrived and the reader waits for more, it has returned
\* everything that was written.
NothingHeldBack ==
    /\ flight = <<>> /\ ~broken /\ ~failed /\ Read(input).kind = "wait"
    /\ DelimitedTo(Len(written))
    => received = written

\* The reader gives up only a broken connection, a frame with an entry that has no
\* name, or one that is not delimited, and not before it gets to that frame.  The
\* size of the header section is never a reason.
FailsOnlyIfBroken ==
    failed => \/ broken
              \/ \E i \in DOMAIN written :
                    /\ i <= Len(received) + 1
                    /\ Refusable(written[i]) \/ ~Delimited(written[i])

=============================================================================
