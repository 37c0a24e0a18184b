------------------------------- MODULE Delivery -------------------------------
(***************************************************************************)
(* What the outbox promises to the rest of the app, whatever the network,  *)
(* the server and the operating system do: an operation that was queued is *)
(* never forgotten, it is reported as completed only after the server has  *)
(* applied it, and that report is final.  One the server refuses is set    *)
(* aside, and only the user puts it back.  The server may apply an         *)
(* operation before the phone knows, and more than once.                   *)
(***************************************************************************)
CONSTANT Op        \* the operations

VARIABLES
  state,     \* what the phone says of each operation
  effects    \* operations the server has applied

State == {"new", "queued", "completed", "aside"}

DeliveryInit ==
  /\ state = [o \in Op |-> "new"]
  /\ effects = {}

Move(S, to) == state' = [o \in Op |-> IF o \in S THEN to ELSE state[o]]
In(s) == {o \in Op : state[o] = s}

Enqueue(S) == S \subseteq In("new") /\ Move(S, "queued") /\ UNCHANGED effects

TakeEffect(o) == state[o] # "new" /\ effects' = effects \cup {o} /\ UNCHANGED state

Complete(S) ==
  /\ S \subseteq In("queued") \cap effects
  /\ Move(S, "completed")
  /\ UNCHANGED effects

SetAside(S) == S \subseteq In("queued") /\ Move(S, "aside") /\ UNCHANGED effects

PutBack(S) == S \subseteq In("aside") /\ Move(S, "queued") /\ UNCHANGED effects

DeliveryNext ==
  \/ \E S \in SUBSET Op : Enqueue(S) \/ Complete(S) \/ SetAside(S) \/ PutBack(S)
  \/ \E o \in Op : TakeEffect(o)

DeliverySpec == DeliveryInit /\ [][DeliveryNext]_<<state, effects>>

=============================================================================
