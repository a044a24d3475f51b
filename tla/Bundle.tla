------------------------------- MODULE Bundle -------------------------------
(***************************************************************************)
(* What OPeNDAPProvider.materialize promises its caller: one answer, and    *)
(* with a delivery a bundle that holds every granule asked for, whole and   *)
(* in the order asked, and that does not change afterwards.  Until then,    *)
(* and after a refusal, nothing is promised of what is in storage.          *)
(***************************************************************************)
EXTENDS Naturals, Sequences

VARIABLES
    asked,    \* the granule URLs of the call; empty before it
    answer,   \* "none", "delivered" or "refused"
    blob      \* what storage holds under the result's key

\* The bundle of all of a call's granules.
Members(urls) == [i \in 1..Len(urls) |-> [of |-> urls[i], whole |-> TRUE]]

Complete(urls) == [whole |-> TRUE, members |-> Members(urls)]

Init == asked = <<>> /\ answer = "none"

Ask == asked = <<>> /\ answer = "none" /\ UNCHANGED <<answer, blob>>

Work == answer # "delivered" /\ UNCHANGED <<asked, answer>>

Deliver ==
    /\ answer = "none" /\ answer' = "delivered"
    /\ blob = Complete(asked)
    /\ UNCHANGED <<asked, blob>>

Refuse == answer = "none" /\ answer' = "refused" /\ UNCHANGED asked

Next == Ask \/ Work \/ Deliver \/ Refuse

Spec == Init /\ [][Next]_<<asked, answer, blob>>
=============================================================================
