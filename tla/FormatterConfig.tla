-------------------------- MODULE FormatterConfig --------------------------
(***************************************************************************)
(* The Configure functions of the formatters: what a formatter is made of, *)
(* given the settings of the plugin it belongs to.  All formatters of a    *)
(* chain read the same settings.  Names of types are TLA+ strings, and the *)
(* operation of a directive is one character.                              *)
(***************************************************************************)
EXTENDS Formatters

\* shared.Unescape
Unescape(text) ==
  Replace(Replace(Replace(text, <<"\\", "n">>, <<"\n">>), <<"\\", "r">>, <<"\r">>), <<"\\", "t">>, <<"\t">>)

\* A directive is split at the colons that are not escaped; one without a key and an
\* operation is left out.
Parts(text) ==
  LET parts == Split(Replace(text, <<"\\", ":">>, <<"\r">>), <<":">>)
  IN [i \in DOMAIN parts |-> Replace(parts[i], <<"\r">>, <<":">>)]
Parameters(parts) == [i \in 1 .. Len(parts) - 2 |-> Unescape(parts[i + 2])]
Operation(parts)  == IF parts[2] = <<>> THEN "" ELSE Head(parts[2])
Complete(texts)   == SelectSeq([i \in DOMAIN texts |-> Parts(texts[i])], LAMBDA p : Len(p) >= 2)

\* Dictionaries must have 64 characters; the empty one stands for the standard encoding.
IsDictionary(dictionary) == dictionary \in {<<>>, "64 characters"}
Failed == [type |-> "Failed"]

ConfigureEnvelope(conf, base) ==
  [type |-> "Envelope", base |-> base, prefix |-> Unescape(GetString(conf, "EnvelopePrefix", <<>>)),
   postfix |-> Unescape(GetString(conf, "EnvelopePostfix", <<"\n">>))]
ConfigureRunlength(conf, base) ==
  [type |-> "Runlength", base |-> base, separator |-> GetString(conf, "RunlengthSeparator", <<":">>)]
ConfigureSequence(conf, base) ==
  [type |-> "Sequence", base |-> base, separator |-> GetString(conf, "SequenceSeparator", <<":">>)]
\* The layout of the timestamp ends with the separator.
ConfigureTimestamp(conf, base) ==
  [type |-> "Timestamp", base |-> base, separator |-> GetString(conf, "Timestamp", <<" ", "|", " ">>)]
\* Whether the name of the host is known is found out with every message; here it is.
ConfigureHostname(conf, base) ==
  [type |-> "Hostname", base |-> base, separator |-> GetString(conf, "HostnameSeparator", <<" ">>),
   knownHost |-> TRUE]
ConfigureStreamName(conf, base) ==
  [type |-> "StreamName", base |-> base, separator |-> GetString(conf, "StreamNameSeparator", <<" ">>),
   usePrevious |-> GetBool(conf, "StreamNameHistory", FALSE)]
ConfigureStreamRevert(conf, base) == [type |-> "StreamRevert", base |-> base]
ConfigureStreamRoute(conf, base, streamFormat) ==
  [type |-> "StreamRoute", base |-> base, streamFormat |-> streamFormat,
   delimiter |-> GetString(conf, "StreamRouteDelimiter", <<":">>),
   formatBoth |-> GetBool(conf, "StreamRouteFormatStream", FALSE)]
ConfigureSerialize(conf, base) ==
  [type |-> "Serialize", base |-> base, encode |-> GetBool(conf, "SerializeStringEncode", TRUE)]
\* The setting that is named for the base formatter is read as the dictionary.
ConfigureBase64Encode(conf, base) ==
  LET dictionary == GetString(conf, "Base64Formatter", <<>>)
  IN IF IsDictionary(dictionary) THEN [type |-> "Base64Encode", base |-> base, dictionary |-> dictionary]
                                 ELSE Failed
ConfigureBase64Decode(conf, base) ==
  LET dictionary == GetString(conf, "Base64Dictionary", <<>>)
  IN IF IsDictionary(dictionary) THEN [type |-> "Base64Decode", base |-> base, dictionary |-> dictionary]
                                 ELSE Failed
ConfigureIdentifier(conf, base) ==
  LET type == GetString(conf, "IdentifierType", "time")
  IN [type |-> "Identifier", base |-> base, hash |-> IF type \in {"hash", "seq", "seqhex"} THEN type ELSE "time"]
ConfigureSplitPick(conf, base) ==
  [type |-> "SplitPick", base |-> base, index |-> GetInt(conf, "SplitPickIndex", 0),
   delimiter |-> GetString(conf, "SplitPickDelimiter", <<":">>)]
ConfigureSplitToJSON(conf, base) ==
  [type |-> "SplitToJSON", base |-> base, token |-> GetString(conf, "SplitToJSONToken", <<"|">>),
   keys |-> GetStringArray(conf, "SplitToJSONKeys", <<>>), keepJSON |-> GetBool(conf, "SplitToJSONKeepJSON", TRUE)]
ConfigureExtractJSON(conf, base) ==
  [type |-> "ExtractJSON", base |-> base, field |-> GetString(conf, "ExtractJSONField", <<>>)]
ConfigureTemplateJSON(conf, base) ==
  [type |-> "TemplateJSON", base |-> base, template |-> GetString(conf, "TemplateJSONTemplate", <<>>)]

\* An index that is no number is an error, wherever it is.
ConfigureProcessTSV(conf, base) ==
  LET parts == Complete(GetStringArray(conf, "ProcessTSVDirectives", <<>>))
      read(p) == [index |-> Atoi(p[1]), operation |-> Operation(p), parameters |-> Parameters(p)]
  IN IF \E i \in DOMAIN parts : Atoi(parts[i][1]) = NoNumber THEN Failed
     ELSE [type |-> "ProcessTSV", base |-> base, directives |-> [i \in DOMAIN parts |-> read(parts[i])],
           delimiter |-> GetString(conf, "ProcessTSVDelimiter", <<"\t">>),
           quotedValues |-> GetBool(conf, "ProcessTSVQuotedValues", FALSE)]

ConfigureProcessJSON(conf, base) ==
  LET parts == Complete(GetStringArray(conf, "ProcessJSONDirectives", <<>>))
      read(p) == [key |-> p[1], operation |-> Operation(p), parameters |-> Parameters(p)]
  IN [type |-> "ProcessJSON", base |-> base, directives |-> [i \in DOMAIN parts |-> read(parts[i])],
      trimValues |-> GetBool(conf, "ProcessJSONTrimValues", TRUE),
      hasGeoDB |-> GetString(conf, "ProcessJSONGeoIPFile", <<>>) # <<>>]

\* The settings that name the formatter a formatter is based on.
BaseSetting(type) ==
  CASE type \in {"Identifier", "SplitToJSON", "ProcessTSV", "ProcessJSON"} -> type \o "DataFormatter"
    [] type = "ExtractJSON"  -> "ExtractJSONdataFormatter"
    [] type = "Base64Encode" -> "Base64DataFormatter"
    [] type = "Base64Decode" -> "Base64Formatter"
    [] OTHER -> type \o "Formatter"

\* NewPluginWithType: the type is created and configured.  A type that is its own base, at
\* any distance, is created over and over again, so such a configuration must not be used.
RECURSIVE NewFormatter(_, _)
NewFormatter(type, conf) ==
  LET baseType == GetString(conf, BaseSetting(type), "Forward")
      base     == NewFormatter(baseType, conf)
  IN IF type \in {"Forward", "Clear"} THEN [type |-> type]
     ELSE IF base = Failed THEN Failed
     ELSE CASE type = "Envelope"     -> ConfigureEnvelope(conf, base)
            [] type = "Runlength"    -> ConfigureRunlength(conf, base)
            [] type = "Sequence"     -> ConfigureSequence(conf, base)
            [] type = "Timestamp"    -> ConfigureTimestamp(conf, base)
            [] type = "Hostname"     -> ConfigureHostname(conf, base)
            [] type = "StreamName"   -> ConfigureStreamName(conf, base)
            [] type = "StreamRevert" -> ConfigureStreamRevert(conf, base)
            [] type = "StreamRoute"  -> ConfigureStreamRoute(conf, base,
                 NewFormatter(GetString(conf, "StreamRouteStreamFormatter", baseType), conf))
            [] type = "Serialize"    -> ConfigureSerialize(conf, base)
            [] type = "Base64Encode" -> ConfigureBase64Encode(conf, base)
            [] type = "Base64Decode" -> ConfigureBase64Decode(conf, base)
            [] type = "Identifier"   -> ConfigureIdentifier(conf, base)
            [] type = "SplitPick"    -> ConfigureSplitPick(conf, base)
            [] type = "SplitToJSON"  -> ConfigureSplitToJSON(conf, base)
            [] type = "ExtractJSON"  -> ConfigureExtractJSON(conf, base)
            [] type = "TemplateJSON" -> ConfigureTemplateJSON(conf, base)
            [] type = "ProcessTSV"   -> ConfigureProcessTSV(conf, base)
            [] type = "ProcessJSON"  -> ConfigureProcessJSON(conf, base)
            [] OTHER -> Failed
=============================================================================
