------------------------------ MODULE AdService ------------------------------
(***************************************************************************)
(* What COP-1 promises the two applications of a virtual channel about AD  *)
(* service data units: within one service every accepted SDU arrives, in   *)
(* the order of acceptance and once, unless the service ends; what a       *)
(* service that has ended still owed may arrive late or never, but in      *)
(* order and never twice.  SDUs are numbered in the order of acceptance.   *)
(***************************************************************************)
EXTENDS Integers, Sequences

CONSTANT SDU    \* 1 .. n

VARIABLES
    open,       \* a service is open (or suspended)
    accepted,   \* how many SDUs have been accepted
    current,    \* SDUs the present service still owes, in order
    delivered   \* what the receiving application has got or can fetch

adVars == <<open, accepted, current, delivered>>

Latest == IF delivered = <<>> THEN 0 ELSE delivered[Len(delivered)]

(* SDUs of services that have ended and that no later SDU has overtaken. *)
Past == {d \in 1 .. accepted : d > Latest /\ \A i \in DOMAIN current : current[i] # d}

AdInit ==
    /\ open = FALSE
    /\ accepted = 0
    /\ current = <<>>
    /\ delivered = <<>>

Begin ==
    /\ ~open
    /\ open' = TRUE
    /\ UNCHANGED <<accepted, current, delivered>>

Accept ==
    /\ open /\ accepted + 1 \in SDU
    /\ accepted' = accepted + 1
    /\ current' = Append(current, accepted')
    /\ UNCHANGED <<open, delivered>>

Deliver ==
    /\ current # <<>>
    /\ delivered' = Append(delivered, Head(current))
    /\ current' = Tail(current)
    /\ UNCHANGED <<open, accepted>>

DeliverPast ==
    /\ \E d \in Past :
          /\ \A i \in DOMAIN current : d < current[i]
          /\ delivered' = Append(delivered, d)
    /\ UNCHANGED <<open, accepted, current>>

(* The service ends, or another takes its place; what it owes is owed no more. *)
End ==
    /\ open
    /\ open' \in BOOLEAN
    /\ current' = <<>>
    /\ UNCHANGED <<accepted, delivered>>

AdNext == Begin \/ Accept \/ Deliver \/ DeliverPast \/ End

AdSpec == AdInit /\ [][AdNext]_adVars
=============================================================================
