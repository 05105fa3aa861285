----------------------------- MODULE ProcessJSON ----------------------------
(***************************************************************************)
(* format.ProcessJSON: directives that change the fields of a JSON object  *)
(* one after the other.  A directive is a record [key, operation,          *)
(* parameters] whose parameters have been unescaped.  An operation returns *)
(* the new fields, or PanickedMap where the code runs out of a bound.      *)
(***************************************************************************)
EXTENDS MarshalMap

PanickedMap == [k \in {<<"panic">>} |-> Panic]

\* External: dates, user agents, IPs and the GeoIP database.
Dates == {<<"2">>}
IsDate(chars, layout) == chars \in Dates /\ layout = <<"r">>
FormatDate(chars, layout) == layout \o chars
AgentFields == {"os", "browser"}
UserAgent(agent, field) == StringValue(agent \o <<field>>)
IsIP(value) == TypeOf(value) # "string" \/ Content(value) = <<"1">>
GeoFields(ip) == [f \in {<<"c">>} |-> StringValue(ip)]

rename(values, d) ==
  IF Len(d.parameters) # 1 THEN values
  ELSE Delete(Set(values, d.parameters[1], values[d.key]), d.key)

\* The value is cut to the length of the layout before it is parsed.
time(values, d) ==
  CASE ~HasString(values, d.key) \/ Len(d.parameters) # 2 -> values
    [] HasString(values, d.key) /\ Len(d.parameters) = 2 /\ Len(Get(values, d.key)) < Len(d.parameters[1])
         -> PanickedMap
    [] OTHER -> LET date == Take(Get(values, d.key), Len(d.parameters[1]))
                IN IF IsDate(date, d.parameters[1])
                     THEN Set(values, d.key, StringValue(FormatDate(date, d.parameters[2]))) ELSE values

unixtimestamp(values, d) ==
  IF ~HasFloat64(values, d.key) \/ Len(d.parameters) # 2 THEN values
  ELSE IF d.parameters[1] \notin {<<"s">>, <<"ms">>, <<"ns">>} THEN values
  ELSE Set(values, d.key, StringValue(FormatDate(<<"2">>, d.parameters[2])))

\* Mutant: all elements are stored, also those no field is named for.
split_NoLimit(values, d) ==
  IF ~HasString(values, d.key) \/ Len(d.parameters) <= 1 THEN values
  ELSE LET elements == Split(Get(values, d.key), d.parameters[1])
           fields   == Tail(d.parameters)
       IN FoldLeft(LAMBDA v, i : Set(v, IF i <= Len(fields) THEN fields[i] ELSE <<"x">>,
                                     StringValue(elements[i])),
                   values, [i \in DOMAIN elements |-> i])

split(values, d) ==
  IF ~HasString(values, d.key) \/ Len(d.parameters) <= 1 THEN values
  ELSE LET elements == Split(Get(values, d.key), d.parameters[1])
           fields   == Tail(d.parameters)
           maxItems == Min({Len(elements), Len(fields)})
       IN IF Len(elements) = 1 THEN values
          ELSE FoldLeft(LAMBDA v, i : Set(v, fields[i], StringValue(elements[i])),
                        values, [i \in 1 .. maxItems |-> i])

\* A negative index is subtracted from the length, so it is always out of bounds.  Both
\* parameters are used before anything is checked.
pick(values, d) ==
  IF Len(d.parameters) < 2 THEN PanickedMap
  ELSE LET index == Atoi(d.parameters[1])
           array == IF HasArray(values, d.key) THEN Get(values, d.key) ELSE <<>>
           n     == CASE index = NoNumber -> 0
                      [] index < 0 -> Len(array) - index
                      [] OTHER -> index
       IN IF n < 0 \/ n >= Len(array) THEN values ELSE Set(values, d.parameters[2], array[n + 1])

\* With parameters the field becomes an array, whatever it was.
remove(values, d) ==
  LET array   == IF HasArray(values, d.key) THEN Get(values, d.key) ELSE <<>>
      Kept(v) == TypeOf(v) # "string" \/ \A i \in DOMAIN d.parameters : d.parameters[i] # Content(v)
  IN IF d.parameters = <<>> THEN Delete(values, d.key)
     ELSE Set(values, d.key, ArrayValue(SelectSeq(array, Kept)))

replace(values, d) ==
  IF ~HasString(values, d.key) \/ Len(d.parameters) # 2 THEN values
  ELSE Set(values, d.key, StringValue(Replace(Get(values, d.key), d.parameters[1], d.parameters[2])))

trim(values, d) ==
  IF ~HasString(values, d.key) \/ Len(d.parameters) > 1 THEN values
  ELSE LET cutset == IF d.parameters = <<>> THEN {" ", "\t"} ELSE Range(d.parameters[1])
       IN Set(values, d.key, StringValue(Trim(Get(values, d.key), cutset)))

\* The fields of a map or an array become fields of their own.  The order in which the
\* entries of a map are copied does not matter: their names are different.
flatten(values, d) ==
  LET prefix == d.key \o (IF Len(d.parameters) = 1 THEN d.parameters[1] ELSE <<".">>)
      Itoa(i) == <<CASE i = 0 -> "0" [] i = 1 -> "1" [] OTHER -> "2">>
      nested == CASE HasMap(values, d.key) -> Get(values, d.key)
                  [] HasArray(values, d.key) ->
                       LET array == Get(values, d.key)
                       IN [k \in {Itoa(i - 1) : i \in DOMAIN array} |->
                             array[CHOOSE i \in DOMAIN array : Itoa(i - 1) = k]]
                  [] OTHER -> <<>>
      added  == {prefix \o k : k \in DOMAIN nested}
  IN IF ~HasMap(values, d.key) /\ ~HasArray(values, d.key) THEN values
     ELSE Delete([k \in DOMAIN values \cup added |->
                    IF k \in added THEN nested[Drop(k, Len(prefix))] ELSE values[k]], d.key)

\* Fields derived from the value, stored beside it: agent and geoip.
Derived(values, d, fields) ==
  [k \in DOMAIN values \cup {d.key \o <<"_">> \o f : f \in DOMAIN fields} |->
     IF \E f \in DOMAIN fields : k = d.key \o <<"_">> \o f
       THEN fields[Drop(k, Len(d.key) + 1)] ELSE values[k]]

agent(values, d) ==
  IF ~HasString(values, d.key) THEN values
  ELSE LET asked == IF d.parameters = <<>> THEN {<<f>> : f \in AgentFields}
                    ELSE Range(d.parameters) \cap {<<f>> : f \in AgentFields}
       IN Derived(values, d, [f \in asked |-> UserAgent(Get(values, d.key), f[1])])

\* Without a database (hasGeoDB) nothing happens.
geoip(values, d, hasGeoDB) ==
  IF ~hasGeoDB \/ ~HasString(values, d.key) THEN values
  ELSE LET all   == GeoFields(Get(values, d.key))
           asked == IF d.parameters = <<>> THEN DOMAIN all ELSE Range(d.parameters) \cap DOMAIN all
       IN IF ~IsIP(values[d.key]) THEN values ELSE Derived(values, d, [f \in asked |-> all[f]])

\* Values that are no strings are kept.
ip(values, d) ==
  IF ~HasArray(values, d.key) THEN values
  ELSE Set(values, d.key, ArrayValue(SelectSeq(Get(values, d.key), IsIP)))

\* A directive is skipped if its key does not exist.
processDirective(values, d, hasGeoDB) ==
  IF d.key \notin DOMAIN values \/ values = PanickedMap THEN values
  ELSE CASE d.operation = "rename"  -> rename(values, d)
         [] d.operation = "time"    -> time(values, d)
         [] d.operation = "unixtimestamp" -> unixtimestamp(values, d)
         [] d.operation = "split"   -> split(values, d)
         [] d.operation = "pick"    -> pick(values, d)
         [] d.operation = "remove"  -> remove(values, d)
         [] d.operation = "replace" -> replace(values, d)
         [] d.operation = "trim"    -> trim(values, d)
         [] d.operation = "flatten" -> flatten(values, d)
         [] d.operation = "agent"   -> agent(values, d)
         [] d.operation = "ip"      -> ip(values, d)
         [] d.operation = "geoip"   -> geoip(values, d, hasGeoDB)
         [] OTHER -> values

\* The end of Format: spaces are cut off all strings that are left.
trimValues(values) ==
  [k \in DOMAIN values |-> IF HasString(values, k) THEN StringValue(Trim(Get(values, k), {" "}))
                                                   ELSE values[k]]

\* Format of an object that could be decoded.
FormatProcessJSON(values, directives, trimmed, hasGeoDB) ==
  LET done == FoldLeft(LAMBDA v, d : processDirective(v, d, hasGeoDB), values, directives)
  IN CASE directives = <<>> -> values
       [] directives # <<>> /\ done = PanickedMap -> done
       [] OTHER -> IF trimmed THEN trimValues(done) ELSE done
=============================================================================
