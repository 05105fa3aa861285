----------------------------- MODULE Formatting -----------------------------
(***************************************************************************)
(* Messages on their way through the formatters of a configuration: a      *)
(* consumer passes a message to a stream, the formatter of the stream may  *)
(* send it to another one, a producer formats it again before it writes    *)
(* it, and a second process may read what was written.  The JSON formatter *)
(* keeps state between messages, and the trie is built token by token.     *)
(***************************************************************************)
EXTENDS JSONFormatter, FormatterConfig

CONSTANTS
  Confs,          \* names of configurations
  Inputs,         \* [Confs -> sets of data a consumer may read]
  Settings,       \* [Confs -> settings as they are in the configuration file]
  StreamType,     \* [Confs -> [stream names -> types of formatters]]
  ProducerType,   \* [Confs -> types of formatters]
  ReceiverType,   \* [Confs -> types of formatters] of the process that reads what was written
  Directives,     \* directives of the JSON formatter
  Documents,      \* complete JSON documents
  Truncated,      \* JSON documents without their end
  Tokens,         \* tokens for the trie
  MaxMessages, MaxTokens

VARIABLES
  conf,           \* the configuration
  phase, msg,     \* where the message is, and the message
  original,       \* what the consumer has read
  written,        \* what the producer has written
  json, document, \* the JSON formatter and the document it got last
  formatted,      \* number of messages it has formatted
  clean,          \* history: all of them were complete
  root, tokens    \* the trie, and the tokens in it in the order they were added

messageVars == <<phase, msg, original, written>>
jsonVars == <<json, document, formatted, clean>>
trieVars == <<root, tokens>>
vars == <<conf, messageVars, jsonVars, trieVars>>

\* The formatters the plugins of a configuration get.
Conf(c) == Read(NewPluginConfig("plugin"), Settings[c])
StreamFormat   == [c \in Confs |-> [s \in DOMAIN StreamType[c] |-> NewFormatter(StreamType[c][s], Conf(c))]]
ProducerFormat == [c \in Confs |-> NewFormatter(ProducerType[c], Conf(c))]
ReceiverFormat == [c \in Confs |-> NewFormatter(ReceiverType[c], Conf(c))]

FirstStream == <<"s">>
Nothing == StringValue(<<>>)

Init ==
  /\ conf \in Confs
  /\ phase = "idle" /\ msg = NewMessage(Nothing, 0) /\ original = Nothing /\ written = Nothing
  /\ json = ConfigureJSON(Directives, "") /\ document = <<>> /\ formatted = 0 /\ clean = TRUE
  /\ root = NilTrie /\ tokens = <<>>

\* The message as a consumer passes it to its stream.
Enqueued(data, sequence) ==
  [NewMessage(data, sequence) EXCEPT !.StreamID = FirstStream, !.PrevStreamID = FirstStream]

EnqueueMessage(data) ==
  /\ phase = "idle" /\ data \in Inputs[conf]
  /\ msg' = Enqueued(data, 1) /\ original' = data /\ phase' = "stream"
  /\ UNCHANGED <<conf, written, jsonVars, trieVars>>

\* Enqueue and Route of a stream: the message goes to another stream, or to the producers.
InStream ==
  /\ phase = "stream"
  /\ \E f \in {Format(StreamFormat[conf][msg.StreamID], msg)} :
     /\ msg' = IF f.stream = msg.StreamID THEN [msg EXCEPT !.Data = f.data]
               ELSE [msg EXCEPT !.Data = f.data, !.PrevStreamID = msg.StreamID, !.StreamID = f.stream]
     /\ phase' = CASE f.data = Panic -> "panicked"
                   [] f.data # Panic /\ f.stream # msg.StreamID -> "stream"
                   [] OTHER -> "producer"
  /\ UNCHANGED <<conf, original, written, jsonVars, trieVars>>

InProducer ==
  /\ phase = "producer"
  /\ written' = Format(ProducerFormat[conf], msg).data
  /\ phase' = "written"
  /\ UNCHANGED <<conf, msg, original, jsonVars, trieVars>>

\* Another process reads the message and passes it to a stream of its own.
Receive ==
  /\ phase = "written" /\ phase' = "received"
  /\ \E f \in {Format(ReceiverFormat[conf], Enqueued(written, 2))} :
       msg' = [msg EXCEPT !.Data = f.data, !.StreamID = f.stream]
  /\ UNCHANGED <<conf, original, written, jsonVars, trieVars>>

FormatDocument(data) ==
  /\ conf = "json" /\ formatted < MaxMessages /\ data \in Documents \cup Truncated
  /\ json' = FormatJSON(json, data).formatter
  /\ document' = data /\ formatted' = formatted + 1
  /\ clean' = (clean /\ document \notin Truncated)
  /\ UNCHANGED <<conf, messageVars, trieVars>>

\* As AddTransition of the parser does it; the payload is the number of the token.
AddToken(token) ==
  /\ conf = "trie" /\ Len(tokens) < MaxTokens /\ token \in Tokens
  /\ tokens' = Append(tokens, token)
  /\ root' = IF IsNil(root) THEN NewTrie(token, Len(tokens) + 1) ELSE Add(root, token, Len(tokens) + 1)
  /\ UNCHANGED <<conf, messageVars, jsonVars>>

Next ==
  \/ \E data \in Inputs[conf] : EnqueueMessage(data)
  \/ InStream \/ InProducer \/ Receive
  \/ \E data \in Documents \cup Truncated : FormatDocument(data)
  \/ \E token \in Tokens : AddToken(token)

Spec == Init /\ [][Next]_vars

-----------------------------------------------------------------------------
(* Properties *)

\* Where streams that route by prefix send data: each prefix names the next stream, up to
\* one that is empty or names the stream the message is in already.
Destination(data) ==
  LET parts  == Split(Content(data), <<":">>)
      from(i) == IF i = 1 THEN FirstStream ELSE parts[i - 1]
      last   == Min({i \in DOMAIN parts : i = Len(parts) \/ parts[i] = <<>> \/ parts[i] = from(i)})
      rest   == SubSeq(parts, IF last = Len(parts) THEN last ELSE last + 1, Len(parts))
  IN [stream |-> from(last), data |-> StringValue(Join(rest, <<":">>))]

\* What a producer writes with the name of the stream in front, a process that routes by
\* prefix puts back into that stream, with the same payload, however many streams the
\* message has been through; the same holds for an encoding and its decoder, and for a
\* serialized message, of which the formatter below has changed the stream.  A stream that
\* reverts never keeps a message, and a run length counts all prefixes that are behind it.
\* (StreamName, StreamRoute, StreamRevert, Base64, Serialize, Runlength and its bases.)
RoundTrip ==
  phase = "received" =>
    /\ conf = "names"  => msg.Data = Destination(original).data /\ msg.StreamID = Destination(original).stream
    /\ conf = "base64" => msg.Data = Destination(original).data
    /\ conf = "revert" => msg.StreamID = FirstStream
    /\ conf = "serialize" =>
         LET sent == DeserializeMessage(written)
             cut  == Split2(Content(original), <<":">>)
         IN Len(cut) = 2 => /\ sent.Data = StringValue(cut[2])
                            /\ sent.StreamID = IF cut[1] = <<>> THEN FirstStream ELSE cut[1]
    /\ conf = "prefixes" =>
         LET text == Content(written)
             rest == Drop(text, Index(text, <<":">>) + 1)
         IN Take(text, Index(text, <<":">>)) = Itoa(Len(rest)) /\ IsSuffix(Content(original) \o <<"\n">>, rest)

\* SplitToJSON with ExtractJSON or a template picks the field SplitPick picks, whichever of
\* them is asked for: components and keys belong together, also if there are more of the
\* one than of the other.  (One component makes text that is no JSON.)
PartsKeepTheirKeys ==
  phase = "received" /\ conf \in {"pick0", "pick1", "pick2", "split1", "template"} =>
    LET parts == Split(Content(original), <<",">>)
        n     == CASE conf = "pick0" -> 1 [] conf = "pick2" -> 3 [] OTHER -> 2
        none  == IF conf = "template" THEN <<"no value">> ELSE <<>>
    IN Len(parts) > 1 => msg.Data = StringValue(IF n > Len(parts) THEN none ELSE parts[n])

\* The formatters that are used in pairs fit each other.
FormattersFit == RoundTrip /\ PartsKeepTheirKeys

\* A directive of ProcessTSV changes its field and nothing else of the line: delimiters
\* inside of quotes do not count, and quotes are kept.  A line ends the process only if it
\* is empty or ends with nothing where a value has to be.
EndsInNothing(line) == line = <<>> \/ line = <<Quote>> \/ IsSuffix(<<Quote, ",">>, line)
\* Where the fields of a line end: at the delimiters with an even number of quotes before.
Bounds(line) ==
  LET even(i) == Cardinality({j \in 1 .. i : line[j] = Quote}) % 2 = 0
  IN <<0>> \o SetToSortSeq({i \in DOMAIN line : line[i] = "," /\ even(i)}, <) \o <<Len(line) + 1>>
\* Quotes enclose whole fields.
IsLine(line) ==
  /\ Cardinality({i \in DOMAIN line : line[i] = Quote}) % 2 = 0
  /\ \A i \in DOMAIN line : line[i] = Quote =>
       IF Cardinality({j \in 1 .. i : line[j] = Quote}) % 2 = 1
         THEN i = 1 \/ line[i - 1] = "," ELSE i = Len(line) \/ line[i + 1] = ","
FieldsStayApart ==
  /\ conf = "tsv" /\ phase = "panicked" => EndsInNothing(Content(original)) \/ ~IsLine(Content(original))
  /\ conf = "tsv" /\ phase = "producer" /\ IsLine(Content(original)) =>
       LET line   == Content(original)
           bounds == Bounds(line)
           quoted == Len(bounds) > 2 /\ bounds[3] > bounds[2] + 1 /\ line[bounds[2] + 1] = Quote
           from   == IF quoted THEN bounds[2] + 1 ELSE bounds[2]
       IN msg.Data = IF Len(bounds) = 2 THEN original
                     ELSE StringValue(SubSeq(line, 1, from) \o <<"+">> \o SubSeq(line, from + 1, Len(line)))

\* A directive of ProcessJSON changes the fields it names and those it makes, and keeps the
\* values of all others, whatever the types of the fields are.
Touched(d, values) ==
  LET Below(prefix) == {k \in DOMAIN values \cup DOMAIN Content(msg.Data) : IsPrefix(prefix, k)}
  IN CASE d.operation = "rename" -> {d.key} \cup Range(d.parameters)
       [] d.operation = "split"  -> Range(Tail(d.parameters))
       [] d.operation = "pick"   -> {d.parameters[2]}
       [] d.operation = "flatten" -> {d.key} \cup Below(d.key \o <<".">>)
       [] d.operation \in {"agent", "geoip"} -> Below(d.key \o <<"_">>)
       [] OTHER -> {d.key}
OnlyNamedFieldsChange ==
  phase = "producer" /\ TypeOf(original) = "map" =>
    LET values == Content(original)
        result == Content(msg.Data)
        f      == StreamFormat[conf][FirstStream]
        names  == UNION {Touched(f.directives[i], values) : i \in DOMAIN f.directives}
    IN /\ DOMAIN values \ names = DOMAIN result \ names
       /\ \A k \in DOMAIN values \ names : values[k] = result[k]

\* A complete document is formatted to itself, and leaves nothing open behind, as long as
\* all documents before it were complete.
DocumentsSurvive ==
  formatted > 0 /\ clean /\ document \in Documents =>
    json.message = document /\ json.stack = <<>> /\ json.parser.stack = <<>>

\* The trie finds the longest token that data starts with, and the token that is data, with
\* the payload that was added last.
Finds(data) ==
  LET starts  == {i \in DOMAIN tokens : IsPrefix(tokens[i], data)}
      longest == {i \in starts : \A j \in starts : Len(tokens[j]) <= Len(tokens[i])}
      whole   == {i \in DOMAIN tokens : tokens[i] = data}
  IN /\ MatchStart(root, data) = IF starts = {} THEN NoMatch
             ELSE [PathLen |-> Len(tokens[Max(longest)]), Payload |-> Max(longest)]
     /\ Match(root, data) = IF whole = {} THEN NoMatch
             ELSE [PathLen |-> Len(data), Payload |-> Max(whole)]

\* The comments of Add, Match and MatchStart: every token that was added can be matched, in
\* whatever order tokens were added.
TokensAreFound == tokens # <<>> => \A data \in Tokens : Finds(data)

\* What is true of the code: splitting nodes and sorting children loses no token, if none is
\* the beginning of another one and none is added twice.
DistinctTokensAreFound ==
  (\A i, j \in DOMAIN tokens : i # j => ~IsPrefix(tokens[j], tokens[i])) => TokensAreFound
=============================================================================
