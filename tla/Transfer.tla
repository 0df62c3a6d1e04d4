------------------------------ MODULE Transfer ------------------------------
(***************************************************************************)
(* What a point-to-point transport promises to a group of operations: the  *)
(* operations of one direction are moved in order, a receive is over only  *)
(* when every chunk of its buffer holds the chunk of the matching send,    *)
(* and each chunk is written once.  How the data travels is left open.     *)
(* P2pSlot and NetPipeline implement this specification.                   *)
(***************************************************************************)
EXTENDS Integers, Sequences

CONSTANT StepsOf   \* the number of chunks of each operation, in order

Op == DOMAIN StepsOf

VARIABLES
  data,   \* what each chunk of each receive buffer holds
  over    \* how many operations each side has finished

vars == <<data, over>>

\* A chunk that nothing was written to.
Empty == <<0, 0>>

Init ==
  /\ data = [i \in Op |-> [k \in 0..StepsOf[i]-1 |-> Empty]]
  /\ over = [s \in {"send", "recv"} |-> 0]

\* Some chunks of the receive that is under way arrive.
Deliver ==
  \E i \in Op :
    /\ i = over["recv"] + 1
    /\ \E K \in SUBSET {k \in DOMAIN data[i] : data[i][k] = Empty} :
         /\ K # {}
         /\ data' = [data EXCEPT ![i] =
                       [k \in DOMAIN @ |-> IF k \in K THEN <<i, k>> ELSE @[k]]]
    /\ UNCHANGED over

EndRecv ==
  \E i \in Op :
    /\ i = over["recv"] + 1
    /\ \A k \in DOMAIN data[i] : data[i][k] = <<i, k>>
    /\ over' = [over EXCEPT !["recv"] = i]
    /\ UNCHANGED data

\* The send is over: its buffer may be reused, whatever arrives later.
EndSend ==
  \E i \in Op :
    /\ i = over["send"] + 1
    /\ over' = [over EXCEPT !["send"] = i]
    /\ UNCHANGED data

Next == Deliver \/ EndRecv \/ EndSend

Spec == Init /\ [][Next]_vars

=============================================================================
