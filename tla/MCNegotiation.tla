--------------------------- MODULE MCNegotiation ---------------------------
EXTENDS Negotiation
PoliteChangesTwice == [e \in Ends |-> IF e = Polite THEN 2 ELSE 1]

\* The polite end makes its second change, or a description overtakes another.
\* What is under way can always be delivered in order, so that this holds back a
\* change or an overtaking, and never the system.
SecondChangeOrOvertaking == want[Polite] < 2 \/ overtakes = 0
AgreementSpec ==
    Init /\ [][Next /\ SecondChangeOrOvertaking']_vars /\ WF_vars(SystemStep)
=============================================================================
