----------------------------- MODULE MCDelivery -----------------------------
(***************************************************************************)
(* Combinations of filters and streams.  What a filter without state       *)
(* rejects is computed: of four messages m1 has a field the JSON filter    *)
(* rejects, m2 comes from a stream nobody asked for, m3 does not have the  *)
(* field, and the text of m4 is what the regular expression looks for.     *)
(***************************************************************************)
EXTENDS Delivery, TLC
F == INSTANCE Filters

CONSTANTS t1, t2, m1, m2, m3, m4, m5, p1, p2, r1, r2, r3

MCStreamOf == m1 :> "s" @@ m2 :> "u" @@ m3 :> "s" @@ m4 :> "s" @@ m5 :> "s"
MCRoutes == <<r1, r2, r3>>

Fields(f) == <<"map", f>>
MCMessage ==
  m1 :> [data |-> Fields(<<"k">> :> <<"string", <<"v">>>>), stream |-> "s"]
  @@ m2 :> [data |-> Fields(<<"k">> :> <<"string", <<"w">>>>), stream |-> "u"]
  @@ m3 :> [data |-> Fields(<<"j">> :> <<"string", <<"v">>>>), stream |-> "s"]
  @@ m4 :> [data |-> <<"string", <<"v">>>>, stream |-> "s"]
  @@ m5 :> [data |-> Fields(<<"k">> :> <<"bool", TRUE>>), stream |-> "s"]

\* Any of the nested filters reads the same settings, and one of them is enough.
MCFilter == F!NewFilter("Any", [F!NewPluginConfig("Any") EXCEPT !.Settings =
  [AnyFilter |-> F!ArrayValue(<<F!StringValue("JSON"), F!StringValue("RegExp"), F!StringValue("Stream")>>),
   FilterReject |-> Fields(<<"k">> :> F!StringValue(<<"v">>)),
   FilterExpression |-> F!StringValue(<<"v">>),
   FilterOnlyStreams |-> F!StringValue(<<"x">>)]])
MCRejected == {m \in Messages : ~F!Accepts(MCFilter, MCMessage[m])}

Conf(filter, stream, threads, producers, bound, max) ==
  [filter |-> filter, stream |-> stream, threads |-> threads, producers |-> producers,
   bound |-> bound, max |-> max]
MCConfs ==
  {Conf(f, "Broadcast", Threads, <<p1, p2>>, {}, 0) : f \in {"static", "Rate", "Sample"}}
  \cup {Conf("static", "Random", Threads, producers, {}, 0) : producers \in {<<>>, <<p1, p2>>}}
  \cup {Conf("static", "RoundRobin", Threads, <<p1, p2>>, {}, max) : max \in {1, 7}}
  \cup {Conf("static", "Route", Threads, <<>>, bound, 0) : bound \in {{r1}, {r1, r2, r3}}}
  \cup {Conf("static", "Route", {t1}, <<>>, {r1}, 0)}
=============================================================================
