---------------------------- MODULE RadioStates ----------------------------
(***************************************************************************)
(* What the main state machine of the radio promises: the diagram          *)
(* docs/RADIO_states.svg, over the states of the enumeration nrfra_state_t. *)
(* A state lasts until it ends by itself or a task ends it.                *)
(***************************************************************************)

VARIABLE state

Init == state = "DISABLED"

(* The state that follows one that ends by itself.                          *)
EndOf == [TXRU |-> "TXIDLE", RXRU |-> "RXIDLE", TXSTARTING |-> "TX", TX |-> "TXIDLE",
          CCA |-> "RXIDLE", ED |-> "RXIDLE", TXDISABLE |-> "DISABLED", RXDISABLE |-> "DISABLED"]

Ends   == state \in DOMAIN EndOf /\ state' = EndOf[state]
RxEnds == state = "RX" /\ state' = "RXIDLE"

Enable  == state \in {"DISABLED", "TXIDLE", "RXIDLE"} /\ state' \in {"TXRU", "RXRU"}
Start   == \/ state = "TXIDLE" /\ state' = "TXSTARTING"
           \/ state = "RXIDLE" /\ state' \in {"RX", "CCA", "ED"}
Stop    == \/ state \in {"TXSTARTING", "TX"} /\ state' = "TXIDLE"
           \/ state \in {"RX", "CCA", "ED"} /\ state' = "RXIDLE"
Disable == \/ state \in {"TXRU", "TXIDLE", "TXSTARTING", "TX"} /\ state' = "TXDISABLE"
           \/ state \in {"RXRU", "RXIDLE", "RX", "CCA", "ED"} /\ state' = "RXDISABLE"
Reset   == state' = "DISABLED"

Next == Ends \/ RxEnds \/ Enable \/ Start \/ Stop \/ Disable \/ Reset

(* A state that ends by itself does not last.                               *)
Spec == Init /\ [][Next]_state /\ WF_state(Ends)
=============================================================================
