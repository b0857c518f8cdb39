---------------------------- MODULE OrderedPipe ----------------------------
(* What the SSH session expects of its connection to the target: the        *)
(* operations it hands over reach the target in the order it handed them    *)
(* over, each at most once.  Operations may be lost, the oldest first: a    *)
(* channel the target refused, a connection that failed or ended.           *)
EXTENDS Naturals, Sequences

VARIABLES pipe, arrived

Send(op) == pipe' = Append(pipe, op) /\ UNCHANGED arrived

Arrive == /\ pipe # <<>>
          /\ arrived' = Append(arrived, Head(pipe))
          /\ pipe' = Tail(pipe)

Lose(n) == pipe' = SubSeq(pipe, n + 1, Len(pipe)) /\ UNCHANGED arrived

\* One step of the session: it hands over one operation, or it stays.
Sent == Len(pipe') = Len(pipe) + 1 /\ Send(pipe'[Len(pipe')])

Init == pipe = <<>> /\ arrived = <<>>
Next == Sent \/ Arrive \/ \E n \in 1..Len(pipe) : Lose(n)
Spec == Init /\ [][Next]_<<pipe, arrived>>
============================================================================
