------------------------------ MODULE UplinkPipe ------------------------------
(***************************************************************************)
(* What the link to the network server promises to both of its sides.      *)
(* There is one link at a time.  A link carries, in order and without gap  *)
(* or repetition, the messages accepted while it is open, and may stop     *)
(* after any of them.  Whatever it carries was made for it: it was made    *)
(* with the configuration the server gave on it, and an uplink bears the   *)
(* session number of the link.                                             *)
(***************************************************************************)
EXTENDS Naturals, Sequences

CONSTANT Message     \* records with at least the fields kind, config, session

VARIABLES
    link,        \* the number of the link, 0 before the first
    isOpen,
    stamp,       \* the session number of the link
    accepted,    \* messages taken on this link
    delivered    \* messages written to its socket

vars == <<link, isOpen, stamp, accepted, delivered>>

Init ==
    /\ link = 0 /\ isOpen = FALSE /\ stamp = 0
    /\ accepted = <<>> /\ delivered = <<>>

\* Between two links the session number is renewed.
Renew ==
    /\ ~isOpen
    /\ stamp' \in Nat
    /\ UNCHANGED <<link, isOpen, accepted, delivered>>

Open ==
    /\ ~isOpen
    /\ isOpen' = TRUE /\ link' = link + 1
    /\ accepted' = <<>> /\ delivered' = <<>>
    /\ UNCHANGED stamp

Accept ==
    /\ isOpen
    /\ Len(accepted') = Len(accepted) + 1
    /\ LET m == accepted'[Len(accepted')]
       IN  /\ m \in Message /\ m.config = link
           /\ m.kind = "updf" => m.session = stamp
           /\ accepted' = Append(accepted, m)
    /\ UNCHANGED <<link, isOpen, stamp, delivered>>

Deliver ==
    /\ isOpen /\ Len(delivered) < Len(accepted)
    /\ delivered' = Append(delivered, accepted[Len(delivered) + 1])
    /\ UNCHANGED <<link, isOpen, stamp, accepted>>

Close ==
    /\ isOpen
    /\ isOpen' = FALSE
    /\ UNCHANGED <<link, stamp, accepted, delivered>>

Next == Renew \/ Open \/ Accept \/ Deliver \/ Close

Spec == Init /\ [][Next]_vars
=============================================================================
