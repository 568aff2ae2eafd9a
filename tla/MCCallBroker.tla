---------------------------- MODULE MCCallBroker ----------------------------
(* The instance of CallBroker that TLC checks. *)
EXTENDS CallBroker

AllKinds == {"request", "shared", "again", "cancel", "stale"}
AllAnswers == {"reply", "shared", "held", "malformed", "silent"}

(* Two clients share the server: forwards are deferred, then retried when  *)
(* the clock moves, and expire when it moves again.                        *)
Contended == [inFlight |-> 2, sends |-> <<1, 1>>, ticks |-> 2, kinds |-> {"request", "shared"},
              answers |-> {"reply", "shared", "silent"}, mortal |-> {}]

(* One of the two clients cancels. *)
Withdrawn == [inFlight |-> 2, sends |-> <<2, 1>>, ticks |-> 1, kinds |-> {"request", "cancel"},
              answers |-> {"reply", "silent"}, mortal |-> {}]

(* Whatever one client and the server may say, across a deadline. *)
Timed == [inFlight |-> 1, sends |-> <<2>>, ticks |-> 2, kinds |-> AllKinds,
          answers |-> AllAnswers, mortal |-> {}]

(* Any of the peers terminates, at any point. *)
Dying == [inFlight |-> 1, sends |-> <<2>>, ticks |-> 0, kinds |-> AllKinds,
          answers |-> {"reply", "shared", "silent"}, mortal |-> {"client", "server", "clock"}]

(* More refused records than the terminal queue has room for. *)
Flooded == [inFlight |-> 1, sends |-> <<4>>, ticks |-> 0,
            kinds |-> {"request", "again", "cancel", "stale"},
            answers |-> {"reply", "silent"}, mortal |-> {}]

MCWorkloads == {Contended, Withdrawn, Timed, Dying, Flooded}

=============================================================================
