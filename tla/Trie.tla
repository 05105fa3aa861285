-------------------------------- MODULE Trie --------------------------------
(***************************************************************************)
(* shared.TrieNode: the prefix tree the parser keeps the tokens of a state *)
(* in.  A node is a value; Add returns the new root, as in the code, and   *)
(* the replacement of a child in its parent is an update of the parent.    *)
(***************************************************************************)
EXTENDS Text

NewTrie(data, payload) ==
  [suffix |-> data, children |-> <<>>, longestPath |-> Len(data), PathLen |-> Len(data),
   Payload |-> payload]

\* Children are kept in the order of their longest paths; a new one is put in front of
\* those that are not longer.
addNewChild(node, data, payload, pathLen) ==
  LET longer == {i \in DOMAIN node.children : node.children[i].longestPath > pathLen}
      child  == [suffix |-> data, children |-> <<>>, longestPath |-> pathLen,
                 PathLen |-> pathLen, Payload |-> payload]
  IN [node EXCEPT
        !.longestPath = IF @ < pathLen THEN pathLen ELSE @,
        !.children    = InsertAt(@, IF longer = {} THEN 1 ELSE Max(longer) + 1, child)]

\* The length of what data and the suffix of the node have in common.
splitIdx(node, data) ==
  Max({n \in 0 .. Len(data) : n <= Len(node.suffix) /\ SubSeq(data, 1, n) = SubSeq(node.suffix, 1, n)})

\* Mutant: the part of the data the new parent stands for is kept in its new child.
splitNode_KeepsData(node, data, payload, pathLen) ==
  LET n     == splitIdx(node, data)
      below == [node EXCEPT !.suffix = Drop(@, n)]
      above == [suffix |-> SubSeq(data, 1, n), children |-> <<below>>,
                longestPath |-> node.longestPath, PathLen |-> 0, Payload |-> "nil"]
  IN IF n = Len(data) THEN [above EXCEPT !.PathLen = pathLen, !.Payload = payload]
                      ELSE addNewChild(above, data, payload, pathLen)

\* The two splits: the node becomes a child of a new parent that ends where data does, or
\* that is empty and has data as its second child.
splitNode(node, data, payload, pathLen) ==
  LET n     == splitIdx(node, data)
      below == [node EXCEPT !.suffix = Drop(@, n)]
      above == [suffix |-> SubSeq(data, 1, n), children |-> <<below>>,
                longestPath |-> node.longestPath, PathLen |-> 0, Payload |-> "nil"]
  IN IF n = Len(data) THEN [above EXCEPT !.PathLen = pathLen, !.Payload = payload]
                      ELSE addNewChild(above, Drop(data, n), payload, pathLen)

\* A root without a suffix does not look for a child to continue with.
RECURSIVE addPath(_, _, _, _)
addPath(node, data, payload, pathLen) ==
  LET n       == splitIdx(node, data)
      rest    == Drop(data, n)
      onPath  == {i \in DOMAIN node.children : Len(node.suffix) > 0
                                                /\ node.children[i].suffix[1] = rest[1]}
  IN CASE n < Len(node.suffix) -> splitNode(node, data, payload, pathLen)
       [] n = Len(node.suffix) /\ n = Len(data) -> [node EXCEPT !.Payload = payload]
       [] OTHER -> IF onPath = {} THEN addNewChild(node, rest, payload, pathLen)
                   ELSE [node EXCEPT !.children[Min(onPath)] = addPath(@, rest, payload, pathLen)]

Add(node, data, payload) == addPath(node, data, payload, Len(data))

\* What a match returns to its caller; nil if there is none.
NoMatch == [PathLen |-> 0, Payload |-> "nil"]
Found(node) == [PathLen |-> node.PathLen, Payload |-> node.Payload]

\* The first child, in order, that matches the rest.
FirstMatch(matches) ==
  LET found == {i \in DOMAIN matches : matches[i].PathLen > 0}
  IN IF found = {} THEN NoMatch ELSE matches[Min(found)]

RECURSIVE Match(_, _)
Match(node, data) ==
  IF ~IsPrefix(node.suffix, data) THEN NoMatch
  ELSE IF Len(data) = Len(node.suffix)
         THEN IF node.PathLen > 0 THEN Found(node) ELSE NoMatch
         ELSE FirstMatch([i \in DOMAIN node.children |->
                            Match(node.children[i], Drop(data, Len(node.suffix)))])

RECURSIVE MatchStart(_, _)
MatchStart(node, data) ==
  IF ~IsPrefix(node.suffix, data) THEN NoMatch
  ELSE LET below == FirstMatch([i \in DOMAIN node.children |->
                                  MatchStart(node.children[i], Drop(data, Len(node.suffix)))])
       IN IF below.PathLen = 0 /\ node.PathLen > 0 THEN Found(node) ELSE below
=============================================================================
