--------------------------- MODULE DownlinkService ---------------------------
(***************************************************************************)
(* What a backend promises of a frame it is given (the trait Backend):     *)
(* send_downlink_frame answers, and the frame is on the air MaxTx times at *)
(* most, before or after the answer.  What an answer says differs: one     *)
(* that is Confirmed comes from the radio side, and an error is final for  *)
(* the frames of Definite: they never go on the air.  dntxed repeats the   *)
(* answer to the LNS, which therefore learns no more than this from it.    *)
(***************************************************************************)
EXTENDS Naturals

CONSTANTS
    Frames,
    MaxTx,          \* frame -> its transmissions at most
    Confirmed,      \* "ok" means that the radio side has dealt with the frame
    Definite        \* frames of which "error" means that it never transmits them

VARIABLES
    answer,         \* frame -> "none", "pending", "ok" or "error"
    handled,        \* frames the radio side transmitted or refused
    air             \* frame -> transmissions

vars == <<answer, handled, air>>

Init ==
    /\ answer = [f \in Frames |-> "none"]
    /\ handled = {}
    /\ air = [f \in Frames |-> 0]

\* send_downlink_frame is called.
Give(f) ==
    /\ answer[f] = "none"
    /\ answer' = [answer EXCEPT ![f] = "pending"]
    /\ UNCHANGED <<handled, air>>

\* It returns.
Return(f) ==
    /\ answer[f] = "pending"
    /\ \/ answer' = [answer EXCEPT ![f] = "ok"] /\ (Confirmed => f \in handled)
       \/ answer' = [answer EXCEPT ![f] = "error"] /\ (f \in Definite => air[f] = 0)
    /\ UNCHANGED <<handled, air>>

Deliverable(f) == answer[f] # "none" /\ ~(f \in Definite /\ answer[f] = "error")

Transmit(f) ==
    /\ Deliverable(f) /\ air[f] < MaxTx[f]
    /\ air' = [air EXCEPT ![f] = @ + 1]
    /\ handled' = handled \cup {f}
    /\ UNCHANGED answer

Refuse(f) ==
    /\ Deliverable(f)
    /\ handled' = handled \cup {f}
    /\ UNCHANGED <<answer, air>>

Next == \E f \in Frames : Give(f) \/ Return(f) \/ Transmit(f) \/ Refuse(f)

Spec == Init /\ [][Next]_vars /\ \A f \in Frames : WF_vars(Return(f))

\* What the LNS may conclude: no frame goes on the air more often than MaxTx, before
\* it was given or after a definite error, and a confirmed "ok" is about a frame
\* that the radio side has dealt with.
Promise ==
    /\ answer \in [Frames -> {"none", "pending", "ok", "error"}]
    /\ air \in [Frames -> Nat]
    /\ \A f \in Frames :
          /\ air[f] <= MaxTx[f]
          /\ air[f] > 0 => answer[f] # "none" /\ f \in handled
          /\ Confirmed /\ answer[f] = "ok" => f \in handled
          /\ f \in Definite /\ answer[f] = "error" => air[f] = 0
=============================================================================
