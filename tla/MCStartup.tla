----------------------------- MODULE MCStartup -----------------------------
EXTENDS Startup

Entry(path, base) ==
  [path |-> path, base |-> base, dir |-> FALSE, below |-> 0, err |-> FALSE,
   size |-> 0, readable |-> TRUE]

\* A directory that is passed over, a log of two slices and a rest, a log that cannot be
\* opened, a file of another kind and an entry that cannot be read.
MCEntries ==
  << [Entry("/", "root") EXCEPT !.dir = TRUE, !.below = 6],
     [Entry("/old", "old") EXCEPT !.dir = TRUE, !.below = 1],
     [Entry("/old/a", "log") EXCEPT !.size = 999],
     [Entry("/a", "log") EXCEPT !.size = 12000],
     [Entry("/a.gz", "gz") EXCEPT !.size = 10],
     [Entry("/no", "no") EXCEPT !.err = TRUE],
     [Entry("/c", "log") EXCEPT !.size = 5000, !.readable = FALSE] >>

MCConsumers == <<"log", "files">>
MCProducers == <<"producer">>
MCMatches(pattern, name) == pattern = name
MCNames == {<<"messages">>, <<"bytes">>} \cup {<<"size", t>> : t \in 0..3}
=============================================================================
