------------------------------ MODULE LateLinks ------------------------------
(***************************************************************************)
(* What the links to the network server still promise when the write task  *)
(* of an old link may live on beside the new one.  Several links are open  *)
(* then.  Each carries, in order and without gap or repetition, what it    *)
(* accepted, and is never opened again.  A message was made with the       *)
(* configuration of its link or of a later one opened by then, and a       *)
(* RefTime that is accepted is newer than those accepted before it, on     *)
(* whichever links.                                                        *)
(***************************************************************************)
EXTENDS Naturals, Sequences

CONSTANTS
    Links,       \* numbers, in the order in which the links are opened
    Message      \* records with at least the fields config and ref

VARIABLES
    phase,       \* phase[k]: "unopened", "open" or "closed"
    accepted,    \* accepted[k]: messages taken on link k
    delivered    \* delivered[k]: messages written to its socket

vars == <<phase, accepted, delivered>>

Init ==
    /\ phase = [k \in Links |-> "unopened"]
    /\ accepted = [k \in Links |-> <<>>] /\ delivered = [k \in Links |-> <<>>]

Open(k) ==
    /\ phase[k] = "unopened" /\ \A j \in Links : j < k => phase[j] # "unopened"
    /\ phase' = [phase EXCEPT ![k] = "open"]
    /\ UNCHANGED <<accepted, delivered>>

NewestRef(m) ==
    \A j \in Links : \A i \in 1..Len(accepted[j]) : accepted[j][i].ref < m.ref

Accept(k) ==
    /\ phase[k] = "open"
    /\ accepted'[k] # <<>>
    /\ LET m == accepted'[k][Len(accepted'[k])]
       IN  /\ m \in Message /\ m.config \in Links
           /\ m.config >= k /\ phase[m.config] # "unopened"
           /\ m.ref # 0 => NewestRef(m)
           /\ accepted' = [accepted EXCEPT ![k] = Append(@, m)]
    /\ UNCHANGED <<phase, delivered>>

Deliver(k) ==
    /\ phase[k] = "open" /\ Len(delivered[k]) < Len(accepted[k])
    /\ delivered' = [delivered EXCEPT ![k] = Append(@, accepted[k][Len(@) + 1])]
    /\ UNCHANGED <<phase, accepted>>

Close(k) ==
    /\ phase[k] = "open"
    /\ phase' = [phase EXCEPT ![k] = "closed"]
    /\ UNCHANGED <<accepted, delivered>>

Next == \E k \in Links : Open(k) \/ Accept(k) \/ Deliver(k) \/ Close(k)

Spec == Init /\ [][Next]_vars
=============================================================================
