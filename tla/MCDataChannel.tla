--------------------------- MODULE MCDataChannel ---------------------------
EXTENDS DataChannelProperties
\* How often each end sends.
OneEach == [e \in Ends |-> 1]
TwoFromA == [e \in Ends |-> IF e = A THEN 2 ELSE 0]
ThreeAndOne == [e \in Ends |-> IF e = A THEN 3 ELSE 1]

AllFaults == {"abort", "cancel", "close", "timeout", "invalid"}
GivingUp == {"abort", "cancel"}
SenderAborts == {"abort"}

\* B sends too only as long as A has sent no more messages than there are ids
\* and nobody gives up; otherwise A sends alone.  Only steps of the application
\* are left out: with GivingUp it alone decides about all of these.
OneSendsOrNobodyGivesUp ==
    \/ \A k \in Messages : sends[B][k].status = "unsent"
    \/ Undisturbed /\ \A k \in Messages : sends[A][k].status # "unsent" => k <= MaxId
WrapsSpec == Init /\ [][Next /\ OneSendsOrNobodyGivesUp']_vars /\ Fairness
=============================================================================
