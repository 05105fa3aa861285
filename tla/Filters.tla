------------------------------ MODULE Filters ------------------------------
(***************************************************************************)
(* The filters of package filter that keep no state.  A filter is a record *)
(* with its type and what Configure reads from the settings; a message is  *)
(* a record [data, stream], with data as in MarshalMap: a "map" is text    *)
(* that is the JSON of that object.  A regular expression is modelled by   *)
(* the set of the texts it matches.                                        *)
(***************************************************************************)
EXTENDS Configuration

\* External: compiling an expression, which may fail, and matching it.
NoExpression == {<<"invalid">>}
Compile(exp) == IF exp = <<"invalid">> THEN NoExpression ELSE {t \in {exp, <<"a">> \o exp, exp \o <<"a">>} : exp # <<>>}
MatchString(exp, text) == text \in exp

ConfigureStream(conf) ==
  [type |-> "Stream", blacklist |-> GetStreamArray(conf, "FilterBlockStreams", <<>>),
   whitelist |-> GetStreamArray(conf, "FilterOnlyStreams", <<>>)]

\* An expression that is not set matches nothing that counts: {} stands for nil.
ConfigureRegExp(conf) ==
  LET Expression(key) == LET e == GetString(conf, key, <<>>) IN IF e = <<>> THEN {} ELSE Compile(e)
  IN [type |-> IF NoExpression \in {Expression("FilterExpression"), Expression("FilterExpressionNot")}
                 THEN "Failed" ELSE "RegExp",
      exp |-> Expression("FilterExpression"), expNot |-> Expression("FilterExpressionNot")]

ConfigureJSON(conf) ==
  LET Compiled(key) == LET m == GetStringMap(conf, key, <<>>) IN [k \in DOMAIN m |-> Compile(m[k])]
      all == Range(Compiled("FilterReject")) \cup Range(Compiled("FilterAccept"))
  IN [type |-> IF NoExpression \in all THEN "Failed" ELSE "JSON",
      rejectValues |-> Compiled("FilterReject"), acceptValues |-> Compiled("FilterAccept")]

\* Any: the nested filters read the same settings; the first that fails ends Configure.
RECURSIVE NewFilter(_, _)
NewFilter(type, conf) ==
  LET names  == GetStringArray(conf, "AnyFilter", <<>>)
      nested == [i \in DOMAIN names |-> NewFilter(names[i], conf)]
  IN CASE type = "Stream" -> ConfigureStream(conf)
       [] type = "RegExp" -> ConfigureRegExp(conf)
       [] type = "JSON"   -> ConfigureJSON(conf)
       [] type = "Any"    -> [type |-> IF \E i \in DOMAIN nested : nested[i].type = "Failed"
                                        THEN "Failed" ELSE "Any",
                              filters |-> nested]
       [] type \in {"All", "None"} -> [type |-> type]
       [] OTHER -> [type |-> "Failed"]

\* Blocked streams first; no list of allowed streams allows all.
AcceptsStream(filter, msg) ==
  /\ msg.stream \notin Range(filter.blacklist)
  /\ filter.whitelist = <<>> \/ msg.stream \in Range(filter.whitelist)

\* All that is known of the text of an object is that it is no other text.
TextOf(data) == IF TypeOf(data) = "map" THEN <<"{...}">> ELSE Content(data)
AcceptsRegExp(filter, msg) ==
  /\ filter.expNot # {} => ~MatchString(filter.expNot, TextOf(msg.data))
  /\ filter.exp # {} => MatchString(filter.exp, TextOf(msg.data))

\* The text of a value that is no array and no object; of anything else there is none.
FormatBool(b) == IF b THEN <<"true">> ELSE <<"false">>
HasValueAt(key, values) ==
  TypeOf(Path(values, key)) \in {"string", "bool", "float64"}
getValue(key, values) ==
  LET value == Path(values, key)
  IN IF TypeOf(value) = "bool" THEN FormatBool(Content(value)) ELSE Content(value)

\* A field that does not exist is neither rejected nor asked for.
AcceptsJSON(filter, msg) ==
  LET values == Content(msg.data)
  IN /\ TypeOf(msg.data) = "map"
     /\ \A k \in DOMAIN filter.rejectValues :
          HasValueAt(k, values) => ~MatchString(filter.rejectValues[k], getValue(k, values))
     /\ \A k \in DOMAIN filter.acceptValues :
          HasValueAt(k, values) => MatchString(filter.acceptValues[k], getValue(k, values))

RECURSIVE Accepts(_, _)
Accepts(filter, msg) ==
  CASE filter.type = "All"    -> TRUE
    [] filter.type = "None"   -> FALSE
    [] filter.type = "Stream" -> AcceptsStream(filter, msg)
    [] filter.type = "RegExp" -> AcceptsRegExp(filter, msg)
    [] filter.type = "JSON"   -> AcceptsJSON(filter, msg)
    [] filter.type = "Any"    -> \E i \in DOMAIN filter.filters : Accepts(filter.filters[i], msg)
=============================================================================
