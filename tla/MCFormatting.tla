---------------------------- MODULE MCFormatting ----------------------------
(* Configurations of formatters, and the data that is sent through them. *)
EXTENDS Formatting

Text == {StringValue(t) : t \in {<<>>, <<"x">>, <<":">>, <<"s", ":", "x">>, <<"u", ":", "x">>,
           <<"u", ":", "v", ":", "x">>, <<"u", ":", "s", ":", "x", "x">>, <<":", "u", ":", "x">>,
           <<"v", ":", "u", ":", "v", ":">>}}
Lists == {StringValue(Join(t, <<",">>)) : t \in SeqOf({<<>>, <<"0">>, <<"a">>, <<"a", "b">>}, 4) \ {<<>>}}
Lines == {StringValue(t) : t \in SeqOf({"a", ",", Quote}, 6)}

Values == {StringValue(<<" ", "a">>), StringValue(<<"a", ",", "b", ",", "1">>), NumberValue(2),
           ArrayValue(<<StringValue(<<"1">>), StringValue(<<"a">>)>>),
           MapValue([k \in {<<"a">>, <<"b">>} |-> StringValue(k)])}
Keys == {<<"a">>, <<"b">>, <<"a", ".", "b">>}
Objects == {MapValue(o) : o \in UNION {[d -> Values] : d \in SUBSET Keys}}

\* Lists of directives for the fields of such objects.
DirectivesTried ==
  LET D(text) == StringValue(Join(text, <<":">>))
      a == <<"a">>  b == <<"b">>  ab == <<"a", ".", "b">>
  IN << <<D(<<a, <<"split">>, <<",">>, b, a>>), D(<<a, <<"rename">>, ab>>)>>,
        <<D(<<a, <<"flatten">>>>), D(<<ab, <<"replace">>, b, <<"\\", ":">>>>)>>,
        <<D(<<a, <<"pick">>, <<"1">>, b>>), D(<<b, <<"flatten">>, <<".">>>>), D(<<b>>)>>,
        <<D(<<a, <<"remove">>, a>>), D(<<a, <<"pick">>, <<"0">>, <<"c">>>>)>>,
        <<D(<<a, <<"agent">>, <<"os">>>>), D(<<a, <<"ip">>>>), D(<<b, <<"trim">>, <<" ", "a">>>>)>>,
        <<D(<<a, <<"geoip">>>>), D(<<b, <<"unixtimestamp">>, <<"s">>, <<"r">>>>), D(<<a, <<"remove">>>>)>> >>
ProcessConfs == {"p1", "p2", "p3", "p4", "p5", "p6"}
ProcessOf(c) == DirectivesTried[CHOOSE i \in 1 .. 6 : c = <<"p1", "p2", "p3", "p4", "p5", "p6">>[i]]

MCConfs == {"names", "revert", "base64", "pick0", "pick1", "pick2", "split1", "template",
           "prefixes", "serialize", "tsv", "json", "trie"} \cup ProcessConfs

MCInputs == [c \in MCConfs |->
  CASE c \in {"names", "revert", "base64", "prefixes", "serialize"} -> Text
    [] c \in {"pick0", "pick1", "pick2", "split1", "template"} -> Lists
    [] c = "tsv" -> Lines
    [] c \in ProcessConfs -> Objects
    [] OTHER -> {}]

FieldKey(c) == CASE c = "pick0" -> <<"k">> [] c \in {"pick1", "template"} -> <<"l">> [] OTHER -> <<"m">>
MCSettings == [c \in MCConfs |->
  CASE c \in {"names", "base64"} -> "StreamNameSeparator" :> StringValue(<<":">>)
    [] c = "revert" -> "StreamNameSeparator" :> StringValue(<<":">>)
                         @@ "StreamRevertFormatter" :> StringValue("StreamRoute")
    [] c \in {"pick0", "pick1", "pick2", "template"} ->
         "SplitToJSONToken" :> StringValue(<<",">>)
           @@ "SplitToJSONKeys" :> ArrayValue(<<StringValue(<<"k">>), StringValue(<<"l">>), StringValue(<<"m">>)>>)
           @@ "ExtractJSONField" :> StringValue(FieldKey(c))
           @@ "TemplateJSONTemplate" :> StringValue(FieldKey(c))
    [] c = "split1" -> "SplitPickDelimiter" :> StringValue(<<",">>) @@ "SplitPickIndex" :> <<"int", 1>>
    [] c = "prefixes" -> "RunlengthFormatter" :> StringValue("Sequence")
           @@ "SequenceFormatter" :> StringValue("Timestamp") @@ "TimestampFormatter" :> StringValue("Hostname")
           @@ "HostnameFormatter" :> StringValue("Envelope")
    [] c = "serialize" -> "SerializeFormatter" :> StringValue("StreamRoute")
           @@ "SerializeStringEncode" :> BoolValue(FALSE)
    [] c = "tsv" -> "ProcessTSVDelimiter" :> StringValue(<<",">>) @@ "ProcessTSVQuotedValues" :> BoolValue(TRUE)
           @@ "ProcessTSVDirectives" :> StringValue(<<"1", ":", "prefix", ":", "+">>)
    [] c \in ProcessConfs -> "ProcessJSONDirectives" :> ArrayValue(ProcessOf(c))
           @@ "ProcessJSONTrimValues" :> BoolValue(FALSE) @@ "ProcessJSONGeoIPFile" :> StringValue(<<"f">>)
    [] OTHER -> <<>>]

Streams == {<<"s">>, <<"u">>, <<"v">>}
MCStreamType == [c \in MCConfs |-> [s \in Streams |->
  CASE c \in {"names", "base64"} -> "StreamRoute"
    [] c = "revert" -> IF s = <<"s">> THEN "StreamRoute" ELSE "StreamRevert"
    [] c = "tsv" -> "ProcessTSV"
    [] c \in ProcessConfs -> "ProcessJSON"
    [] OTHER -> "Forward"]]
MCProducerType == [c \in MCConfs |->
  CASE c \in {"names", "revert"} -> "StreamName"
    [] c = "base64" -> "Base64Encode"
    [] c \in {"pick0", "pick1", "pick2", "template"} -> "SplitToJSON"
    [] c = "split1" -> "SplitPick"
    [] c = "prefixes" -> "Runlength"
    [] c = "serialize" -> "Serialize"
    [] OTHER -> "Forward"]
MCReceiverType == [c \in MCConfs |->
  CASE c \in {"names", "revert"} -> "StreamRoute"
    [] c = "base64" -> "Base64Decode"
    [] c \in {"pick0", "pick1", "pick2"} -> "ExtractJSON"
    [] c = "template" -> "TemplateJSON"
    [] OTHER -> "Forward"]

\* The directives of format/json_test.go, without the escapes in strings.
MCDirectives == <<
  <<"findKey",   <<Quote>>, "key",       {},       "">>,
  <<"findKey",   <<"}">>,   "",          {"pop"},  "end">>,
  <<"key",       <<Quote>>, "findVal",   {},       "key">>,
  <<"findVal",   <<":">>,   "value",     {},       "">>,
  <<"value",     <<Quote>>, "string",    {},       "">>,
  <<"value",     <<"[">>,   "array",     {"push"}, "arr">>,
  <<"value",     <<"{">>,   "findKey",   {"push"}, "obj">>,
  <<"value",     <<",">>,   "findKey",   {},       "val">>,
  <<"value",     <<"}">>,   "",          {"pop"},  "val+end">>,
  <<"string",    <<Quote>>, "findKey",   {},       "esc">>,
  <<"array",     <<"[">>,   "array",     {"push"}, "arr">>,
  <<"array",     <<"{">>,   "findKey",   {"push"}, "obj">>,
  <<"array",     <<"]">>,   "",          {"pop"},  "val+end">>,
  <<"array",     <<",">>,   "array",     {},       "val">>,
  <<"array",     <<Quote>>, "arrString", {},       "">>,
  <<"arrString", <<Quote>>, "array",     {},       "esc">> >>

Brackets(open, items, close) == <<open>> \o Join(items, <<",">>) \o <<close>>
Member(key, value) == <<Quote, key, Quote, ":">> \o value
Atoms == {<<"1">>, <<Quote, "s", Quote>>}
Arrays(items) == {Brackets("[", a, "]") : a \in SeqOf(items, 2) \ {<<>>}}
ObjectsOf(items) == {Brackets("{", <<Member("a", v)>>, "}") : v \in items}
Level1 == Atoms \cup Arrays(Atoms) \cup ObjectsOf(Atoms)
Level2 == Atoms \cup {Brackets("[", <<v, w>>, "]") : v \in Level1, w \in {<<"1">>, <<"[", "1", "]">>}}
            \cup {Brackets("[", <<v>>, "]") : v \in Level1} \cup ObjectsOf(Level1)
MCDocuments == ObjectsOf(Level2)
   \cup {Brackets("{", <<Member("a", v), Member("b", w)>>, "}") : v \in Level1, w \in Level1}
MCTruncated == {Take(d, Len(d) - 1) : d \in ObjectsOf(ObjectsOf(Atoms))}

MCTokens == {<<"a">>, <<"b">>, <<"a", "a">>, <<"a", "b">>, <<"a", "a", "b">>, <<"a", "a", "a">>}
=============================================================================
