---------------------------- MODULE PacketChannel ---------------------------
(* What the sending side of a socket promises an application: packets that   *)
(* it accepts are written in the order in which they were accepted, each     *)
(* once, or dropped together by a clear().                                   *)
EXTENDS Naturals, Sequences

CONSTANTS Packets, Limit
VARIABLES queue, written

Init == queue = <<>> /\ written = <<>>

Accept(p) == /\ Len(queue) < Limit
             /\ queue' = Append(queue, p) /\ UNCHANGED written
Write == /\ queue # <<>>
         /\ written' = Append(written, Head(queue)) /\ queue' = Tail(queue)
Drop == queue' = <<>> /\ UNCHANGED written

Next == (\E p \in Packets : Accept(p)) \/ Write \/ Drop
Spec == Init /\ [][Next]_<<queue, written>>
=============================================================================
