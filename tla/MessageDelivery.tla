-------------------------- MODULE MessageDelivery --------------------------
(***************************************************************************)
(* What one direction of a data channel promises, with no ids, packets,    *)
(* buffers or timers: every message goes through its own life, at the      *)
(* sender (what the promise of send() says) and at the receiver (what the  *)
(* stream handed to the application holds).                                *)
(***************************************************************************)
EXTENDS Naturals

CONSTANTS
    Messages,    \* a set of natural numbers: the order of sending
    MaxChunks    \* bound: chunks of one message

VARIABLES
    size,      \* size[m]: chunks of message m
    result,    \* result[m]: the promise of send()
    stream,    \* stream[m]: what became of the receiver's stream
    arrived    \* arrived[m]: chunks the receiver's stream was given

vars == <<size, result, stream, arrived>>

Init ==
    /\ size = [m \in Messages |-> 0]
    /\ result = [m \in Messages |-> "unsent"]
    /\ stream = [m \in Messages |-> "none"]
    /\ arrived = [m \in Messages |-> 0]

\* The sender's side of message m.  A confirmation means that the receiver has
\* the whole message, or gave up reading it; an empty message has no stream.
Sender(m) ==
    \/ UNCHANGED <<size[m], result[m]>>
    \/ /\ result[m] = "unsent" /\ result'[m] \in {"pending", "rejected"}
       /\ size'[m] \in 0 .. MaxChunks
    \/ /\ result[m] = "pending" /\ result'[m] = "rejected" /\ UNCHANGED size[m]
    \/ /\ result[m] = "pending" /\ result'[m] = "fulfilled" /\ UNCHANGED size[m]
       /\ size[m] # 0 => stream[m] \in {"closed", "cancelled"}

\* The receiver's side of message m.  Streams appear in sending order, grow by
\* one chunk at a time and are closed only when they hold the whole message.
Receiver(m) ==
    \/ UNCHANGED <<stream[m], arrived[m]>>
    \/ /\ stream[m] = "none" /\ result[m] # "unsent"
       /\ \A later \in Messages : later > m => stream[later] = "none"
       /\ stream'[m] \in {"open", "closed"} /\ arrived'[m] = 1
       /\ stream'[m] = "closed" <=> size[m] = 1
    \/ /\ stream[m] = "open" /\ arrived'[m] = arrived[m] + 1
       /\ stream'[m] = IF arrived'[m] = size[m] THEN "closed" ELSE "open"
    \/ /\ stream[m] = "open" /\ stream'[m] \in {"cancelled", "error"}
       /\ UNCHANGED arrived[m]

Next == \A m \in Messages : Sender(m) /\ Receiver(m)

Spec == Init /\ [][Next]_vars
=============================================================================
