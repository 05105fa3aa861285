----------------------------- MODULE ProcessTSV -----------------------------
(***************************************************************************)
(* format.ProcessTSV: directives that change the fields of a line of       *)
(* separated values.  A value is a record [quoted, value]; a directive is  *)
(* a record [index, operation, parameters], with an index that counts      *)
(* from 0.  Indexing out of bounds panics: the values are Panicked then.   *)
(***************************************************************************)
EXTENDS Text

Panicked == <<[quoted |-> FALSE, value |-> <<"panic">>]>>

\* External: parsing and formatting of dates, and of user agents.
DateFields == {<<"2">>}
FormatDate(chars, layout) == layout \o chars
AgentFields == <<"os", "browser">>
UserAgent(agent, field) == agent \o <<field>>

stringsToTSVValues(strings) == [i \in DOMAIN strings |-> [quoted |-> FALSE, value |-> strings[i]]]

\* Mutant: the quote that ends a value is kept in it.
quotedValue_KeepsQuote(chars) == [quoted |-> TRUE, value |-> chars \o <<Quote>>]
quotedValue(chars) == [quoted |-> TRUE, value |-> chars]

\* What is left when a quoted value has ended at a delimiter, or at the end of the data:
\* a value without its last quote makes the message unmatched.
Unmatched == <<[quoted |-> FALSE, value |-> <<"unmatched">>]>>
lastQuoted(values, rest) ==
  CASE rest = <<>> -> Panicked
    [] rest # <<>> /\ Last(rest) # Quote -> Unmatched
    [] OTHER -> Append(values, quotedValue(Front(rest)))

\* The loop over quoted values; remainder[:1] panics if nothing is left.
RECURSIVE splitQuoted(_, _, _)
splitQuoted(values, remainder, delimiter) ==
  LET unquoted == remainder # <<>> /\ Head(remainder) # Quote
      parts    == Split2(remainder, delimiter \o <<Quote>>)
      before   == IF unquoted THEN values \o stringsToTSVValues(Split(parts[1], delimiter)) ELSE values
      quoted   == IF unquoted THEN parts[Len(parts)] ELSE Tail(remainder)
      ends     == Split2(quoted, <<Quote>> \o delimiter)
  IN CASE remainder = <<>> -> Panicked
       [] unquoted /\ Len(parts) = 1 -> before
       [] OTHER -> IF Len(ends) = 2
                     THEN splitQuoted(Append(before, quotedValue(ends[1])), ends[2], delimiter)
                     ELSE lastQuoted(before, quoted)

\* The value of a field after a directive that changes nothing but it.
processValue(d, value) ==
  LET n == Len(d.parameters)
      date == Take(value, Len(d.parameters[1]))
  IN CASE d.operation = "time" /\ n = 2 ->
            IF date \in DateFields THEN FormatDate(date, d.parameters[2]) ELSE value
       [] d.operation = "replace" /\ n = 2 -> Replace(value, d.parameters[1], d.parameters[2])
       [] d.operation = "prefix" /\ n = 1  -> d.parameters[1] \o value
       [] d.operation = "postfix" /\ n = 1 -> value \o d.parameters[1]
       [] d.operation = "trim" /\ n = 0 -> Trim(value, {" "})
       [] d.operation = "trim" /\ n = 1 -> Trim(value, Range(d.parameters[1]))
       [] OTHER -> value

\* A time field that is shorter than the layout cannot be cut to its length.
TooShort(d, value) ==
  d.operation = "time" /\ Len(d.parameters) = 2 /\ Len(value) < Len(d.parameters[1])

\* agent inserts the fields behind the value; the fields asked for in their order.
agentValues(d, value) ==
  LET asked == IF d.parameters = <<>> THEN [i \in DOMAIN AgentFields |-> <<AgentFields[i]>>]
               ELSE SelectSeq(d.parameters, LAMBDA f : f \in {<<a>> : a \in Range(AgentFields)})
  IN stringsToTSVValues([i \in DOMAIN asked |-> UserAgent(value, asked[i][1])])

\* Only the upper bound of the index is checked.
processTSVDirective(d, values) ==
  LET i == d.index + 1
  IN CASE values = Panicked \/ Len(values) <= d.index -> values
       [] values # Panicked /\ d.index < 0 -> Panicked
       [] OTHER ->
            CASE TooShort(d, values[i].value) -> Panicked
              [] d.operation = "quote"  -> [values EXCEPT ![i].quoted = TRUE]
              [] d.operation = "remove" -> RemoveAt(values, i)
              [] d.operation = "agent"  -> Take(values, i) \o agentValues(d, values[i].value) \o Drop(values, i)
              [] OTHER -> [values EXCEPT ![i].value = processValue(d, @)]

\* Format: an unmatched quote leaves the message as it is.
FormatProcessTSV(data, directives, delimiter, quotedValues) ==
  LET split == IF quotedValues THEN splitQuoted(<<>>, data, delimiter)
                               ELSE stringsToTSVValues(Split(data, delimiter))
      done  == FoldLeft(LAMBDA v, d : processTSVDirective(d, v), split, directives)
      text  == [i \in DOMAIN done |-> IF done[i].quoted THEN <<Quote>> \o done[i].value \o <<Quote>>
                                                        ELSE done[i].value]
  IN CASE directives = <<>> \/ split = Unmatched -> data
       [] directives # <<>> /\ done = Panicked -> <<"panic">>
       [] OTHER -> Join(text, delimiter)
=============================================================================
