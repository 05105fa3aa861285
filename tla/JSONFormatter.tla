--------------------------- MODULE JSONFormatter ----------------------------
(***************************************************************************)
(* format.JSON: builds a JSON object from the values a TransitionParser    *)
(* finds in a message.  A formatter is a record [parser, state, stack,     *)
(* message, initState]; the functions its directives name are operators on *)
(* it.  Format holds parseLock from start to end, so it is one operator,   *)
(* and what it leaves in the formatter is what the next call starts from.  *)
(***************************************************************************)
EXTENDS TransitionParser

ParserFunctions == {"key", "val", "esc", "dat", "arr", "obj", "end", "arr+val", "arr+esc",
                    "val+end", "esc+end", "dat+end"}

\* The reader states are numbers in the code: null is written for those above Key.
ReadsArray(format) == format.state \in {"Array", "ArrayAppend"}
AboveKey == {"Value", "Array", "ArrayAppend"}

Write(format, chars) == [format EXCEPT !.message = @ \o chars]
Goto(format, state) == [format EXCEPT !.state = state]

\* Mutant: the array an array was closed in has no first entry yet.
readEnd_FirstEntryForgotten(format) ==
  LET size   == Len(format.stack)
      closed == IF size = 0 THEN format ELSE Write(format, IF ReadsArray(format) THEN <<"]">> ELSE <<"}">>)
  IN IF size > 1 THEN [closed EXCEPT !.stack = Front(@), !.state = Last(format.stack)]
                 ELSE [closed EXCEPT !.stack = <<>>, !.state = "Key"]

\* The bracket is written if anything is open; the last level always ends in Key.
readEnd(format) ==
  LET size   == Len(format.stack)
      outer  == Last(format.stack)
      closed == IF size = 0 THEN format ELSE Write(format, IF ReadsArray(format) THEN <<"]">> ELSE <<"}">>)
  IN IF size > 1
       THEN [closed EXCEPT !.stack = Front(@), !.state = IF outer = "Array" THEN "ArrayAppend" ELSE outer]
       ELSE [closed EXCEPT !.stack = <<>>, !.state = "Key"]

\* Loops that close levels as long as the formatter is in one of the given states.
RECURSIVE EndWhile(_, _)
EndWhile(format, states) ==
  IF format.state \in states THEN EndWhile(readEnd(format), states) ELSE format

\* A key closes all arrays, writes null for a value that is missing and then a comma,
\* unless an object has just been started.
writeKey(format, key) ==
  LET f    == EndWhile(format, {"Array", "ArrayAppend"})
      null == IF f.state \in AboveKey THEN <<"null">> ELSE <<>>
      sep  == IF f.state # "Object" THEN <<",">> ELSE <<>>
  IN Write(f, null \o sep \o <<Quote>> \o key \o <<Quote, ":">>)

readKey(format, data) == Goto(writeKey(format, data), "Value")

\* A value without a key gets the name of the parser state as its key.
WithKey(format, name) ==
  IF ReadsArray(format) \/ format.state = "Value" THEN format ELSE writeKey(format, name)

\* What readValue and readEscaped have in common: data is what has been read, encoded is
\* what is written for it.
WriteValue(format, data, encoded, name) ==
  CASE TrimSpace(data) = <<>> -> IF ReadsArray(format) THEN format ELSE Goto(format, "Key")
    [] TrimSpace(data) # <<>> /\ format.state = "Array" -> Goto(Write(format, encoded), "ArrayAppend")
    [] TrimSpace(data) # <<>> /\ format.state = "ArrayAppend" -> Write(format, <<",">> \o encoded)
    [] OTHER -> Goto(Write(WithKey(format, name), encoded), "Key")

readValue(format, data, name)   == WriteValue(format, data, TrimSpace(data), name)
readEscaped(format, data, name) == WriteValue(format, data, QuoteJSON(TrimSpace(data)), name)

\* timeParse and Format of a date: what cannot be parsed is the zero time.
DateOf(data) == IF data = <<"2">> THEN <<"d">> ELSE <<"0">>
readDate(format, data, name) == readEscaped(format, DateOf(TrimSpace(data)), name)

\* The value is written, but the state is the one from before when the level is closed.
ThenEnd(before, after) == readEnd(Goto(after, before.state))

\* Arrays and objects start in the same way.
Open(format, bracket, inside, name) ==
  LET f == IF format.state = "Key" THEN writeKey(format, name) ELSE format
  IN [Write(f, IF format.state = "ArrayAppend" THEN <<",", bracket>> ELSE <<bracket>>)
        EXCEPT !.stack = Append(@, format.state), !.state = inside]
readArray(format, name)  == Open(format, "[", "Array", name)
readObject(format, name) == Open(format, "{", "Object", name)

\* The function a directive names, called with a match and the parser state.
Call(format, callback, data, name) ==
  CASE callback = "key" -> readKey(format, data)
    [] callback = "val" -> readValue(format, data, name)
    [] callback = "esc" -> readEscaped(format, data, name)
    [] callback = "dat" -> readDate(format, data, name)
    [] callback = "arr" -> readArray(format, name)
    [] callback = "obj" -> readObject(format, name)
    [] callback = "end" -> readEnd(format)
    [] callback = "arr+val" -> readValue(readArray(format, name), data, name)
    [] callback = "arr+esc" -> readEscaped(readArray(format, name), data, name)
    [] callback = "val+end" -> ThenEnd(format, readValue(format, data, name))
    [] callback = "esc+end" -> ThenEnd(format, readEscaped(format, data, name))
    [] callback = "dat+end" -> ThenEnd(format, readDate(format, data, name))

\* Configure: the directives build the parser; the first state is the initial one unless
\* the configuration names another, which must have directives.
ConfigureJSON(directives, startState) ==
  LET parsed == [i \in DOMAIN directives |-> ParseTransitionDirective(directives[i], ParserFunctions)]
      init   == IF startState = "" /\ parsed # <<>> THEN parsed[1].state ELSE startState
  IN [parser |-> FoldLeft(AddDirective, NewTransitionParser, parsed),
      state |-> "Object", stack |-> <<>>, message |-> <<>>, initState |-> init,
      ok |-> /\ \A i \in DOMAIN directives : Len(directives[i]) = 5
             /\ directives = <<>> \/ \E i \in DOMAIN parsed : parsed[i].state = init]

\* Format: stack and parser.stack are not reset before a message.
FormatJSON(format, data) ==
  LET parse  == Parse(format.parser, data, format.initState)
      start  == [format EXCEPT !.message = <<"{">>, !.state = "Object", !.parser = parse.parser]
      called == FoldLeft(LAMBDA f, c : Call(f, c.callback, c.data, <<GetStateName(f.parser, c.state)>>),
                         start, parse.calls)
      rested == IF parse.remains = <<>> THEN called
                ELSE readEscaped(called, parse.remains, <<GetStateName(called.parser, parse.state)>>)
      ended  == IF Len(rested.message) > 1 THEN EndWhile(rested, {"Array", "ArrayAppend", "Object"})
                                           ELSE rested
  IN [formatter |-> Write(ended, <<"}">>), panicked |-> parse.panicked]
=============================================================================
