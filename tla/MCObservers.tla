----------------------------- MODULE MCObservers -----------------------------
(* Three asks of two processes, with crashes, over a log at rest; two beside *)
(* a tell that goes on with it; and two tells with nobody but status looking. *)
EXTENDS Observers

MCWindow == {[all |-> FALSE, limit |-> 0], [all |-> TRUE, limit |-> 0], [all |-> FALSE, limit |-> 1]}

OneInvocation ==
  <<[kind |-> "start"], [kind |-> "user", ts |-> 1], [kind |-> "assistant", ts |-> 2], [kind |-> "usage", cost |-> 1],
    [kind |-> "snapshot", turns |-> 1, cost |-> 1], [kind |-> "end", reason |-> "completed"]>>
Begun == [log |-> OneInvocation, now |-> 2, opens |-> MaxOpens - 1, asks |-> 0, faults |-> 0]
MCStarts ==
  {[Begun EXCEPT !.opens = MaxOpens],
   [Begun EXCEPT !.asks = MaxAsks - 2, !.faults = MaxFaults],
   [Begun EXCEPT !.log = <<>>, !.now = 0, !.opens = 0, !.asks = MaxAsks]}
=============================================================================
