----------------------------- MODULE FlowStream -----------------------------
(***************************************************************************)
(* What a Flow promises its two applications, whatever happens to          *)
(* Carriers: a full-duplex byte stream with independent half-close.  Bytes *)
(* arrive in order, once each, and never before they were written; end of  *)
(* file arrives last; an endpoint that reports completion has seen both    *)
(* directions delivered to the end.  Either endpoint may give up.          *)
(*                                                                         *)
(* A direction is named by the side that writes it.                        *)
(***************************************************************************)
EXTENDS Naturals

VARIABLES
    written,    \* bytes the application of each side has written
    closed,     \* the application closed its direction
    delivered,  \* bytes of each direction written to the other socket
    eof,        \* the end of each direction was passed on
    outcome     \* per side: running, finished or failed

stream == <<written, closed, delivered, eof, outcome>>

Directions == {"travel", "home"}
Reader(d) == IF d = "travel" THEN "home" ELSE "travel"

Init ==
    /\ written = [d \in Directions |-> 0]
    /\ closed = [d \in Directions |-> FALSE]
    /\ delivered = [d \in Directions |-> 0]
    /\ eof = [d \in Directions |-> FALSE]
    /\ outcome = [d \in Directions |-> "running"]

\* An application writes some bytes.
Write(d) ==
    /\ outcome[d] = "running" /\ ~closed[d]
    /\ written' = [written EXCEPT ![d] = written'[d]]
    /\ written'[d] \in Nat /\ written'[d] > written[d]
    /\ UNCHANGED <<closed, delivered, eof, outcome>>

CloseWrite(d) ==
    /\ outcome[d] = "running" /\ ~closed[d]
    /\ closed' = [closed EXCEPT ![d] = TRUE]
    /\ UNCHANGED <<written, delivered, eof, outcome>>

\* The reading endpoint passes on the next bytes, and may fail while it does.
Deliver(d) ==
    /\ outcome[Reader(d)] = "running" /\ ~eof[d]
    /\ delivered' = [delivered EXCEPT ![d] = delivered'[d]]
    /\ delivered'[d] \in delivered[d]..written[d]
    /\ outcome' \in {outcome, [outcome EXCEPT ![Reader(d)] = "failed"]}
    /\ UNCHANGED <<written, closed, eof>>

DeliverEof(d) ==
    /\ outcome[Reader(d)] = "running"
    /\ closed[d] /\ delivered[d] = written[d]
    /\ eof' = [eof EXCEPT ![d] = TRUE]
    /\ UNCHANGED <<written, closed, delivered, outcome>>

Finish(e) ==
    /\ outcome[e] = "running"
    /\ \A d \in Directions : eof[d]
    /\ outcome' = [outcome EXCEPT ![e] = "finished"]
    /\ UNCHANGED <<written, closed, delivered, eof>>

Fail(e) ==
    /\ outcome[e] = "running"
    /\ outcome' = [outcome EXCEPT ![e] = "failed"]
    /\ UNCHANGED <<written, closed, delivered, eof>>

Next == \E d \in Directions :
    Write(d) \/ CloseWrite(d) \/ Deliver(d) \/ DeliverEof(d) \/ Finish(d) \/ Fail(d)

Spec == Init /\ [][Next]_stream
=============================================================================
