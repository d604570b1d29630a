--------------------------- MODULE EgressVerdicts ---------------------------
(***************************************************************************)
(* What the egress entry point promises (spec.md 4.2 and 4.4), with no     *)
(* attribution machinery: frames captured on the default adapter wait in a *)
(* queue, each one is decided exactly once, and the verdict is Route       *)
(* exactly for the frames the configured application sent.  Stopping the  *)
(* filter may discard whatever is still queued.                            *)
(*                                                                         *)
(* RebindRouter implements this specification under a refinement mapping   *)
(* (EgressAbs in RebindRouter).                                            *)
(***************************************************************************)
CONSTANTS
    Entries,    \* captured frames: [id, owner, eligible]
    Wanted(_)   \* the frames the session must route

VARIABLES
    queue,      \* frames captured and not yet decided
    log         \* verdicts given: [id, owner, route]

Ids(S) == {e.id : e \in S}

Init == queue = {} /\ log = {}

\* A frame is captured; its identity is new.
Capture(e) ==
    /\ e.id \notin Ids(queue) \cup Ids(log)
    /\ queue' = queue \cup {e}
    /\ UNCHANGED log

\* The entry point returns a verdict for one queued frame.
Decide(e) ==
    /\ e \in queue
    /\ queue' = queue \ {e}
    /\ log' = log \cup {[id |-> e.id, owner |-> e.owner, route |-> Wanted(e)]}

\* The filter is stopped (or its process ends): undecided frames are gone.
Flush ==
    /\ queue' = {}
    /\ UNCHANGED log

Next ==
    \/ Flush
    \/ \E e \in queue : Decide(e)
    \/ \E e \in Entries : Capture(e)

Spec == Init /\ [][Next]_<<queue, log>>
=============================================================================
