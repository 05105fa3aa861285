--------------------------- MODULE Configuration ---------------------------
(***************************************************************************)
(* core.PluginConfig: the settings of a plugin as the getters return them. *)
(* A setting of a type the getter does not want ends the process: Fatal is *)
(* returned.  Keys of settings are TLA+ strings, their values those of     *)
(* MarshalMap.  A stream is identified by its name.  (validKeys is left    *)
(* out: it decides about warnings only.)                                   *)
(***************************************************************************)
EXTENDS MarshalMap

Fatal == <<"fatal">>
WildcardStream == <<"*">>

NewPluginConfig(typename) ==
  [ID |-> <<>>, Typename |-> typename, Enable |-> TRUE, Instances |-> 1, Stream |-> <<>>,
   Settings |-> <<>>]

\* A predefined key has a field of its own; the rest are settings.  No instances disable a
\* plugin, and no stream is the wildcard stream.
Read(conf, values) ==
  LET Field(key, ok, old) == IF key \notin DOMAIN values THEN old ELSE IF ok THEN Get(values, key) ELSE Fatal
      instances == Field("Instances", HasInt(values, "Instances"), conf.Instances)
      enable    == Field("Enable", HasBool(values, "Enable"), conf.Enable)
      stream    == IF HasStringArray(values, "Stream") THEN castToStringArray(values["Stream"])
                   ELSE Field("Stream", FALSE, conf.Stream)
  IN [conf EXCEPT
        !.ID        = Field("ID", HasString(values, "ID"), @),
        !.Instances = instances,
        !.Enable    = IF instances = 0 THEN FALSE ELSE enable,
        !.Stream    = IF stream = <<>> THEN <<WildcardStream>> ELSE stream,
        !.Settings  = [k \in DOMAIN values \ {"ID", "Enable", "Instances", "Stream"} |-> values[k]]]

HasValue(conf, key) == key \in DOMAIN conf.Settings
Override(conf, key, value) == [conf EXCEPT !.Settings = Set(@, key, value)]

\* What all getters do: a setting that is missing has a default.
Getting(conf, key, ok, value, defaultValue) ==
  IF ~HasValue(conf, key) THEN defaultValue ELSE IF ok THEN value ELSE Fatal

GetString(conf, key, defaultValue) ==
  IF HasString(conf.Settings, key) THEN Get(conf.Settings, key)
  ELSE Getting(conf, key, FALSE, Fatal, defaultValue)
GetInt(conf, key, defaultValue) ==
  IF HasInt(conf.Settings, key) THEN Get(conf.Settings, key)
  ELSE Getting(conf, key, FALSE, Fatal, defaultValue)
GetBool(conf, key, defaultValue) ==
  IF HasBool(conf.Settings, key) THEN Get(conf.Settings, key)
  ELSE Getting(conf, key, FALSE, Fatal, defaultValue)
GetValue(conf, key, defaultValue) ==
  IF HasValue(conf, key) THEN conf.Settings[key] ELSE defaultValue
GetStringArray(conf, key, defaultValue) ==
  IF HasStringArray(conf.Settings, key) THEN castToStringArray(conf.Settings[key])
  ELSE Getting(conf, key, FALSE, Fatal, defaultValue)
GetStringMap(conf, key, defaultValue) ==
  IF HasStringMap(conf.Settings, key)
    THEN [k \in DOMAIN Get(conf.Settings, key) |-> Content(Get(conf.Settings, key)[k])]
    ELSE Getting(conf, key, FALSE, Fatal, defaultValue)

GetStreamArray(conf, key, defaultValue) == GetStringArray(conf, key, defaultValue)
=============================================================================
