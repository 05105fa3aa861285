-------------------------------- MODULE Text --------------------------------
(* Operations of Go's strings and bytes packages on sequences of characters. *)
EXTENDS Integers, SequencesExt

Quote == "q"                   \* the character "

\* d[n:] and d[:n]
Drop(data, n) == SubSeq(data, n + 1, Len(data))
Take(data, n) == SubSeq(data, 1, n)

\* strings.Index: -1 if sep does not occur in data
Index(data, sep) ==
  LET at == {n \in 0 .. Len(data) - Len(sep) : SubSeq(data, n + 1, n + Len(sep)) = sep}
  IN IF at = {} THEN -1 ELSE Min(at)

\* strings.Split; SplitN(data, sep, 2) is Split2.
RECURSIVE Split(_, _)
Split(data, sep) ==
  LET n == Index(data, sep)
  IN IF n = -1 THEN <<data>> ELSE <<Take(data, n)>> \o Split(Drop(data, n + Len(sep)), sep)
Split2(data, sep) ==
  LET n == Index(data, sep)
  IN IF n = -1 THEN <<data>> ELSE <<Take(data, n), Drop(data, n + Len(sep))>>

\* strings.Join
Join(parts, sep) ==
  FlattenSeq([i \in DOMAIN parts |-> IF i = 1 THEN parts[i] ELSE sep \o parts[i]])
\* strings.Replace(data, old, new, -1)
Replace(data, old, new) == Join(Split(data, old), new)

\* strings.Trim and bytes.TrimSpace
Trim(data, cutset) ==
  LET kept == {i \in DOMAIN data : data[i] \notin cutset}
  IN IF kept = {} THEN <<>> ELSE SubSeq(data, Min(kept), Max(kept))
TrimSpace(data) == Trim(data, {" ", "\t", "\n"})

\* A JSON string: quotes and backslashes are escaped.
EscapeJSON(data) ==
  FlattenSeq([i \in DOMAIN data |-> IF data[i] \in {Quote, "\\"} THEN <<"\\", data[i]>> ELSE <<data[i]>>])
QuoteJSON(data) == <<Quote>> \o EscapeJSON(data) \o <<Quote>>
=============================================================================
