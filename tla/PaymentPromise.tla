--------------------------- MODULE PaymentPromise ---------------------------
(***************************************************************************)
(* What src/main.cpp and src/algorand.cpp promise the owner of the device: *)
(* payments are offered to the network as long as there is no receipt; a   *)
(* payment that the network accepts was offered before, and one that is    *)
(* made was accepted before; a receipt names a payment that was accepted,  *)
(* and no payment is offered while one is held.  A reset loses the receipt.*)
(* Nothing limits how many of the offered payments are made, and nothing   *)
(* is promised of a payment that is accepted and then never made.          *)
(***************************************************************************)
CONSTANTS Payments, NoReceipt

VARIABLES
  offered,  \* payments handed to the network and not decided yet
  accepted, \* payments the network has taken on
  paid,     \* payments made
  receipt   \* the payment the owner knows of, or NoReceipt

vars == <<offered, accepted, paid, receipt>>

Init == /\ offered = {} /\ accepted = {} /\ paid = {}
        /\ receipt = NoReceipt

Offer ==
  /\ receipt = NoReceipt
  /\ \E t \in offered' : t \in Payments /\ offered' = offered \cup {t}
  /\ UNCHANGED <<accepted, paid, receipt>>

(* A repeated offer of the same payment may still be outstanding. *)
Accept ==
  /\ \E t \in offered : /\ accepted' = accepted \cup {t}
                        /\ offered' \in {offered, offered \ {t}}
  /\ UNCHANGED <<paid, receipt>>

Pay ==
  /\ \E t \in accepted \ paid : paid' = paid \cup {t}
  /\ UNCHANGED <<offered, accepted, receipt>>

Drop ==
  /\ \E t \in offered : offered' = offered \ {t}
  /\ UNCHANGED <<accepted, paid, receipt>>

Receipt ==
  /\ receipt = NoReceipt
  /\ receipt' \in accepted
  /\ UNCHANGED <<offered, accepted, paid>>

Reset ==
  /\ receipt' = NoReceipt
  /\ UNCHANGED <<offered, accepted, paid>>

Next == Offer \/ Accept \/ Pay \/ Drop \/ Receipt \/ Reset

Spec == Init /\ [][Next]_vars
=============================================================================
