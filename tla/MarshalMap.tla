----------------------------- MODULE MarshalMap -----------------------------
(***************************************************************************)
(* shared.MarshalMap: values of any type by name.  A value is a pair of    *)
(* its type and its content; a name is a sequence of characters.           *)
(***************************************************************************)
EXTENDS Text

StringValue(chars) == <<"string", chars>>
ArrayValue(items)  == <<"array", items>>
MapValue(entries)  == <<"map", entries>>
NumberValue(n)     == <<"float64", n>>
BoolValue(b)       == <<"bool", b>>
TypeOf(value)  == value[1]
Content(value) == value[2]

\* Bool, Int, Uint64, Int64, Float64, String, Array and Map: an error unless the key is
\* set to a value of that type.
HasBool(mmap, key)    == key \in DOMAIN mmap /\ TypeOf(mmap[key]) = "bool"
HasInt(mmap, key)     == key \in DOMAIN mmap /\ TypeOf(mmap[key]) = "int"
HasFloat64(mmap, key) == key \in DOMAIN mmap /\ TypeOf(mmap[key]) = "float64"
HasString(mmap, key)  == key \in DOMAIN mmap /\ TypeOf(mmap[key]) = "string"
HasArray(mmap, key)   == key \in DOMAIN mmap /\ TypeOf(mmap[key]) = "array"
\* MarshalMap: nested maps of decoded JSON have string keys, so all of them are converted.
HasMap(mmap, key)     == key \in DOMAIN mmap /\ TypeOf(mmap[key]) = "map"

Get(mmap, key) == Content(mmap[key])
Set(mmap, key, value) == [k \in DOMAIN mmap \cup {key} |-> IF k = key THEN value ELSE mmap[k]]
Delete(mmap, key) == [k \in DOMAIN mmap \ {key} |-> mmap[k]]

\* castToStringArray: a single string is an array of one, an array must hold strings only.
IsStringArray(value) ==
  \/ TypeOf(value) = "string"
  \/ TypeOf(value) = "array" /\ \A i \in DOMAIN Content(value) : TypeOf(Content(value)[i]) = "string"
castToStringArray(value) ==
  IF TypeOf(value) = "string" THEN <<Content(value)>>
  ELSE [i \in DOMAIN Content(value) |-> Content(Content(value)[i])]
HasStringArray(mmap, key) == key \in DOMAIN mmap /\ IsStringArray(mmap[key])

\* StringMap and StringArrayMap: every value must be a string, or what castToStringArray
\* takes for an array of strings.
HasStringMap(mmap, key) ==
  HasMap(mmap, key) /\ \A k \in DOMAIN Get(mmap, key) : TypeOf(Get(mmap, key)[k]) = "string"
HasStringArrayMap(mmap, key) ==
  HasMap(mmap, key) /\ \A k \in DOMAIN Get(mmap, key) : IsStringArray(Get(mmap, key)[k])

\* Where the first name of a path ends and where the next one starts: a slash is skipped,
\* a bracket is not, because arrays may be nested.
resolvePathKey(key) ==
  LET slash   == Index(key, <<"/">>)
      bracket == Index(key, <<"[">>)
  IN CASE bracket > -1 /\ (slash = -1 \/ bracket < slash) -> [keyEnd |-> bracket, next |-> bracket]
       [] slash > -1 /\ (bracket = -1 \/ slash < bracket) -> [keyEnd |-> slash, next |-> slash + 1]
       [] OTHER -> [keyEnd |-> Len(key), next |-> Len(key)]

\* strconv.Atoi of what is between two brackets; NoNumber is an error.
NoNumber == 1000
Atoi(chars) == CASE chars = <<"0">> -> 0 [] chars = <<"1">> -> 1 [] chars = <<"-", "1">> -> -1
                 [] OTHER -> NoNumber

NotFound == <<"nil", 0>>
Panic    == <<"panic", 0>>

\* The value at a path.  Only the upper bound of an array index is checked.
RECURSIVE resolvePath(_, _)
resolvePath(key, value) ==
  CASE key = <<>> -> value
    [] key # <<>> /\ TypeOf(value) = "array" ->
         LET endIdx == Index(key, <<"]">>)
             index  == Atoi(SubSeq(key, 2, endIdx))
         IN CASE key[1] # "[" \/ endIdx <= 1 \/ index >= Len(Content(value)) -> NotFound
              [] index < 0 /\ key[1] = "[" /\ endIdx > 1 -> Panic
              [] OTHER -> resolvePath(Drop(key, endIdx + 1), Content(value)[index + 1])
    [] key # <<>> /\ TypeOf(value) = "map" ->
         LET split == resolvePathKey(key)
             name  == Take(key, split.keyEnd)
         IN IF name \in DOMAIN Content(value)
              THEN resolvePath(Drop(key, split.next), Content(value)[name]) ELSE NotFound
    [] OTHER -> NotFound

Path(mmap, key) == resolvePath(key, MapValue(mmap))
=============================================================================
