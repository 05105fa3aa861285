-------------------------- MODULE TransitionParser --------------------------
(***************************************************************************)
(* shared.TransitionParser: a state machine over tokens, with a stack of   *)
(* states.  A parser is a record [lookup, tokens, stack]; a state is an    *)
(* index into lookup and tokens.  The callbacks do not touch the parser,   *)
(* so Parse returns the calls it makes, in order, for the caller to apply. *)
(***************************************************************************)
EXTENDS Trie

ParserStateStop == 0
ParserFlags == {"continue", "append", "include", "push", "pop"}

\* A state that is only named as a next state has no tokens.
NilTrie == [suffix |-> <<>>, children |-> <<>>, longestPath |-> 0, PathLen |-> 0, Payload |-> "nil"]

IsNil(trie) == trie.suffix = <<>> /\ trie.children = <<>>

NewTransitionParser == [lookup |-> <<>>, tokens |-> <<>>, stack |-> <<>>]
NewTransition(nextState, flags, callback) ==
  [nextState |-> nextState, flags |-> flags, callback |-> callback]

\* The fields of a directive, split at the colons: a directive without five of them is
\* an error; a flag or a function nobody knows is ignored.
NoDirective == [state |-> "", token |-> <<>>, next |-> "", flags |-> {}, callback |-> "nil"]
ParseTransitionDirective(fields, callbacks) ==
  IF Len(fields) # 5 THEN NoDirective
  ELSE [state |-> fields[1], token |-> fields[2], next |-> fields[3],
        flags |-> fields[4] \cap ParserFlags,
        callback |-> IF fields[5] \in callbacks THEN fields[5] ELSE "nil"]

\* GetStateID adds a name it does not know: WithState is the parser after the call.
WithState(parser, name) ==
  IF name = "" \/ Contains(parser.lookup, name) THEN parser
  ELSE [parser EXCEPT !.lookup = Append(@, name), !.tokens = Append(@, NilTrie)]
GetStateID(parser, name) ==
  IF name = "" THEN ParserStateStop ELSE Min({i \in DOMAIN parser.lookup : parser.lookup[i] = name})
GetStateName(parser, id) == IF id \in DOMAIN parser.lookup THEN parser.lookup[id] ELSE ""

AddTransition(parser, state, transition, token) ==
  LET p  == WithState(parser, state)
      id == GetStateID(p, state)
  IN [p EXCEPT !.tokens[id] = IF IsNil(@) THEN NewTrie(token, transition)
                                             ELSE Add(@, token, transition)]

\* Add: the next state is looked up first.
AddDirective(parser, d) ==
  LET p == WithState(parser, d.next)
  IN AddTransition(p, d.state, NewTransition(GetStateID(p, d.next), d.flags, d.callback), d.token)

\* Where a transition goes and what it leaves on the stack: pop before push.
NextState(t, stack) ==
  IF "pop" \in t.flags /\ stack # <<>> THEN Last(stack) ELSE t.nextState
NextStack(t, stack, current) ==
  LET popped == IF "pop" \in t.flags /\ stack # <<>> THEN Front(stack) ELSE stack
  IN IF "push" \in t.flags THEN Append(popped, current) ELSE popped

\* One match: the call of the callback, the position the parser goes on at, the start of
\* the next value, and the next state.  run is [pos, start, state, stack, calls].
Transition(data, run, node) ==
  LET t    == node.Payload
      stop == IF "include" \in t.flags THEN run.pos + node.PathLen ELSE run.pos
      pos  == IF "continue" \in t.flags THEN run.pos ELSE run.pos + node.PathLen
  IN [pos   |-> pos,
      start |-> IF "append" \in t.flags THEN run.start ELSE pos,
      state |-> NextState(t, run.stack),
      stack |-> NextStack(t, run.stack, run.state),
      calls |-> IF t.callback = "nil" THEN run.calls
                ELSE Append(run.calls, [callback |-> t.callback, state |-> run.state,
                                        data |-> SubSeq(data, run.start + 1, stop)])]

\* The loop of Parse.  A state without tokens is a nil pointer to look for a match in.
RECURSIVE ParseFrom(_, _, _)
ParseFrom(parser, data, run) ==
  IF run.pos >= Len(data) \/ run.state = ParserStateStop THEN run
  ELSE IF IsNil(parser.tokens[run.state]) THEN [run EXCEPT !.state = -1]
  ELSE LET node == MatchStart(parser.tokens[run.state], Drop(data, run.pos))
       IN ParseFrom(parser, data, IF node.PathLen = 0 THEN [run EXCEPT !.pos = @ + 1]
                                                    ELSE Transition(data, run, node))

\* Parse returns the rest that was not matched and the last state; the stack of the parser
\* is what is left of it.  Nothing is parsed from the stop state.
Parse(parser, data, state) ==
  LET p   == WithState(parser, state)
      run == ParseFrom(p, data, [pos |-> 0, start |-> 0, state |-> GetStateID(p, state),
                                 stack |-> p.stack, calls |-> <<>>])
  IN [parser |-> [p EXCEPT !.stack = run.stack], calls |-> run.calls,
      remains |-> IF state = "" THEN <<>> ELSE Drop(data, run.start),
      state |-> run.state, panicked |-> run.state = -1]
=============================================================================
