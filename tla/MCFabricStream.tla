--------------------------- MODULE MCFabricStream ---------------------------
(***************************************************************************)
(* Seven small compositions: a stream read by a best-effort reader and one *)
(* that has failed, a stream with one reader, best-effort and reliable,    *)
(* two publishers merged into one reader, the timed QoS plane, the         *)
(* restartable robot plane, and a retaining publisher nobody matches.      *)
(***************************************************************************)
EXTENDS FabricStream

Fan == [kind |-> "stream", pubs |-> <<"p1">>, subs |-> <<"s1", "s2">>,
        route |-> {"p1"} \X {"s1", "s2"}, matched |-> {"p1"} \X {"s1", "s2"},
        reliable |-> {"s2"}, retained |-> {}, mortal |-> {}, absent |-> {"s2"},
        loop |-> [s1 |-> "telemetry", s2 |-> "diagnostics"],
        samples |-> 4, big |-> {}]
Stream == [kind |-> "stream", pubs |-> <<"p1">>, subs |-> <<"s1">>,
           route |-> {<<"p1", "s1">>}, matched |-> {<<"p1", "s1">>},
           reliable |-> {}, retained |-> {}, mortal |-> {"p1"}, absent |-> {},
           loop |-> [s1 |-> "telemetry"], samples |-> 3, big |-> {}]
Diagnostics == [Stream EXCEPT !.reliable = {"s1"}, !.loop = [s1 |-> "diagnostics"]]
Merge == [kind |-> "stream", pubs |-> <<"p1", "p2">>, subs |-> <<"s1">>,
          route |-> {"p1", "p2"} \X {"s1"}, matched |-> {"p1", "p2"} \X {"s1"},
          reliable |-> {}, retained |-> {}, mortal |-> {"p2"}, absent |-> {},
          loop |-> [s1 |-> "keepup"], samples |-> 2, big |-> {1}]
Timed == [kind |-> "qos", pubs |-> <<"p1">>, subs |-> <<"s1">>,
          route |-> {<<"p1", "s1">>}, matched |-> {<<"p1", "s1">>},
          reliable |-> {"s1"}, retained |-> {"p1"}, mortal |-> {}, absent |-> {},
          loop |-> [s1 |-> "withhold"], samples |-> 3, big |-> {}]
Robot == [kind |-> "robot", pubs |-> <<"p1">>, subs |-> <<"s1">>,
          route |-> {<<"p1", "s1">>}, matched |-> {<<"p1", "s1">>},
          reliable |-> {}, retained |-> {}, mortal |-> {"s1"}, absent |-> {},
          loop |-> [s1 |-> "controller"], samples |-> 3, big |-> {}]
Lone == [kind |-> "stream", pubs |-> <<"p1">>, subs |-> <<"s1">>,
         route |-> {<<"p1", "s1">>}, matched |-> {},
         reliable |-> {"s1"}, retained |-> {"p1"}, mortal |-> {"p1"}, absent |-> {},
         loop |-> [s1 |-> "diagnostics"], samples |-> 2, big |-> {}]
MCPlanes == {Fan, Stream, Diagnostics, Merge, Timed, Robot, Lone}
(* One publisher and one reader, for the ring alone. *)
OneStream == {Stream}
=============================================================================
