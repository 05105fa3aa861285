----------------------------- MODULE Formatters -----------------------------
(***************************************************************************)
(* The formatters of package format that keep no state.  A formatter is a  *)
(* record with its type, its parameters and, but for Forward and Clear,    *)
(* the formatter it is based on; a message is a record [Data, StreamID,    *)
(* PrevStreamID, Timestamp, Sequence].  Data is a pair of a type and a     *)
(* content as in MarshalMap: text, or "map" for text that is the JSON of   *)
(* the given object.                                                       *)
(***************************************************************************)
EXTENDS ProcessJSON, Configuration

TSV == INSTANCE ProcessTSV

TextOf(data) == IF TypeOf(data) = "string" THEN Content(data) ELSE <<"{", "}">>
Formatted(data, stream) == [data |-> data, stream |-> stream]

NewMessage(data, sequence) ==
  [Data |-> data, StreamID |-> WildcardStream, PrevStreamID |-> WildcardStream,
   Timestamp |-> <<"t">>, Sequence |-> sequence]

Digit == <<"0", "1", "2", "3", "4", "5", "6", "7", "8", "9">>
RECURSIVE Itoa(_)
Itoa(n) == IF n < 10 THEN <<Digit[n + 1]>> ELSE Itoa(n \div 10) \o <<Digit[(n % 10) + 1]>>

\* External: the encodings, of which only that they can be undone matters.
EncodeBase64(dictionary, data) == StringValue(<<"b64", dictionary>> \o TextOf(data))
IsBase64(dictionary, data)     == IsPrefix(<<"b64", dictionary>>, TextOf(data))
DecodeBase64(data)             == StringValue(Drop(TextOf(data), 2))
IsJSON(chars)      == chars \in {<<"0">>, <<"1">>}

\* Message.Serialize and DeserializeMessage: everything but the source of the message.
Serialize(msg) == <<"serialized", msg>>
DeserializeMessage(data) == Content(data)

-----------------------------------------------------------------------------
(* What a formatter makes of the data its base has returned (b), and of the message *)

Forward(msg) == Formatted(msg.Data, msg.StreamID)
Clear(msg)   == Formatted(StringValue(<<>>), msg.StreamID)
StreamRevert(b, msg) == Formatted(b.data, msg.PrevStreamID)
SerializeMessage(f, b, msg) ==
  LET data == Serialize([msg EXCEPT !.Data = b.data, !.StreamID = b.stream])
  IN IF f.encode THEN <<"base64", data>> ELSE data

\* Prefixes: Envelope adds a postfix as well.
Envelope(f, b)  == StringValue(f.prefix \o TextOf(b.data) \o f.postfix)
Runlength(f, b) == StringValue(Itoa(Len(TextOf(b.data))) \o f.separator \o TextOf(b.data))
Sequence(f, b, msg)  == StringValue(Itoa(msg.Sequence) \o f.separator \o TextOf(b.data))
Timestamp(f, b, msg) == StringValue(msg.Timestamp \o f.separator \o TextOf(b.data))
\* os.Hostname may fail: the name and the separator are left out.
Hostname(f, b) == StringValue((IF f.knownHost THEN <<"h">> \o f.separator ELSE <<>>) \o TextOf(b.data))

\* Mutant: the name of the stream the message came from is written, not of the one it goes to.
StreamName_Previous(f, b, msg) == StringValue(msg.PrevStreamID \o f.separator \o TextOf(b.data))

StreamName(f, b, msg) ==
  LET name == CASE ~f.usePrevious -> b.stream
                [] f.usePrevious /\ b.stream # msg.StreamID -> msg.StreamID
                [] OTHER -> msg.PrevStreamID
  IN StringValue(name \o f.separator \o TextOf(b.data))

\* Data that is not encoded is passed on.
Base64Encode(f, b) == EncodeBase64(f.dictionary, b.data)
Base64Decode(f, b) == IF IsBase64(f.dictionary, b.data) THEN DecodeBase64(b.data) ELSE b.data

Identifier(f, b, msg) ==
  StringValue(CASE f.hash = "hash" -> <<"fnv">> \o TextOf(b.data)
                [] f.hash = "seq" -> Itoa(msg.Sequence)
                [] f.hash = "seqhex" -> <<"0x">> \o Itoa(msg.Sequence)
                [] OTHER -> msg.Timestamp \o Itoa(msg.Sequence % 10000000))

\* A part that does not exist is empty.
SplitPick(f, b) ==
  LET parts == Split(TextOf(b.data), f.delimiter)
  IN StringValue(IF f.index < Len(parts) THEN parts[f.index + 1] ELSE <<>>)

\* Two or more components make an object.  The key of a single one is not quoted, so it is
\* not JSON; of two keys that are the same the last one counts when it is decoded.
SplitToJSON(f, b) ==
  LET components == Split(TextOf(b.data), f.token)
      maxIdx     == Min({Len(f.keys), Len(components)})
      value(i)   == IF f.keepJSON /\ IsJSON(components[i]) THEN NumberValue(components[i])
                                                           ELSE StringValue(components[i])
  IN CASE maxIdx = 0 -> StringValue(<<>>)
       [] maxIdx = 1 -> StringValue(<<"{">> \o f.keys[1] \o <<":", Quote>> \o components[1] \o <<Quote, "}">>)
       [] OTHER -> MapValue([k \in Range(Take(f.keys, maxIdx)) |->
                               value(Max({i \in 1 .. maxIdx : f.keys[i] = k}))])

\* A value as it is printed.
Printed(value) == IF TypeOf(value) \in {"string", "float64"} THEN Content(value) ELSE <<"%v">>

\* Text that is no object is passed on; a field that does not exist is empty.
ExtractJSON(f, b) ==
  IF TypeOf(b.data) # "map" THEN b.data
  ELSE StringValue(IF f.field \in DOMAIN Content(b.data) THEN Printed(Content(b.data)[f.field]) ELSE <<>>)

\* External: a template that prints one field.
TemplateJSON(f, b) ==
  IF TypeOf(b.data) # "map" THEN b.data
  ELSE StringValue(IF f.template \in DOMAIN Content(b.data)
                     THEN Printed(Content(b.data)[f.template]) ELSE <<"no value">>)

ProcessTSV(f, b) ==
  LET text == TSV!FormatProcessTSV(TextOf(b.data), f.directives, f.delimiter, f.quotedValues)
  IN IF text = <<"panic">> THEN Panic ELSE StringValue(text)

ProcessJSON(f, b) ==
  IF TypeOf(b.data) # "map" THEN b.data
  ELSE LET values == FormatProcessJSON(Content(b.data), f.directives, f.trimValues, f.hasGeoDB)
       IN IF values = PanickedMap THEN Panic ELSE MapValue(values)

-----------------------------------------------------------------------------
(* Format *)

\* StreamRoute changes the message before its base formats it: the stream name is what is
\* before the delimiter, unless there is a space in it.
RouteMessage(f, msg, name) ==
  LET data      == TextOf(msg.Data)
      prefixEnd == Index(data, f.delimiter)
      space     == Index(data, <<" ">>)
  IN CASE prefixEnd = -1 -> msg
       [] prefixEnd = 0  -> [msg EXCEPT !.Data = StringValue(Tail(data))]
       [] OTHER -> IF space < 0 \/ space >= prefixEnd
                     THEN [msg EXCEPT !.Data = StringValue(Drop(data, prefixEnd + 1)), !.StreamID = name]
                     ELSE msg
RoutePrefix(f, msg) == Take(TextOf(msg.Data), Max({0, Index(TextOf(msg.Data), f.delimiter)}))

RECURSIVE Format(_, _)
Format(f, msg) ==
  LET b  == Format(f.base, msg)
      name == IF f.formatBoth
                THEN TextOf(Format(f.streamFormat, NewMessage(StringValue(RoutePrefix(f, msg)), 0)).data)
                ELSE RoutePrefix(f, msg)
      With(data) == Formatted(data, b.stream)
  IN CASE f.type = "Forward"      -> Forward(msg)
       [] f.type = "Clear"        -> Clear(msg)
       [] f.type = "StreamRoute"  -> Format(f.base, RouteMessage(f, msg, name))
       [] f.type = "StreamRevert" -> StreamRevert(b, msg)
       [] f.type = "Serialize"    -> With(SerializeMessage(f, b, msg))
       [] f.type = "Envelope"     -> With(Envelope(f, b))
       [] f.type = "Runlength"    -> With(Runlength(f, b))
       [] f.type = "Sequence"     -> With(Sequence(f, b, msg))
       [] f.type = "Timestamp"    -> With(Timestamp(f, b, msg))
       [] f.type = "Hostname"     -> With(Hostname(f, b))
       [] f.type = "StreamName"   -> With(StreamName(f, b, msg))
       [] f.type = "Base64Encode" -> With(Base64Encode(f, b))
       [] f.type = "Base64Decode" -> With(Base64Decode(f, b))
       [] f.type = "Identifier"   -> With(Identifier(f, b, msg))
       [] f.type = "SplitPick"    -> With(SplitPick(f, b))
       [] f.type = "SplitToJSON"  -> With(SplitToJSON(f, b))
       [] f.type = "ExtractJSON"  -> With(ExtractJSON(f, b))
       [] f.type = "TemplateJSON" -> With(TemplateJSON(f, b))
       [] f.type = "ProcessTSV"   -> With(ProcessTSV(f, b))
       [] f.type = "ProcessJSON"  -> With(ProcessJSON(f, b))
=============================================================================
