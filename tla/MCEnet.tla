------------------------------- MODULE MCEnet -------------------------------
(***************************************************************************)
(* Enet on three of the machines, so that each backend, each cable and     *)
(* each controller is there.                                               *)
(***************************************************************************)
EXTENDS Enet

Three == {[bTurbo |-> FALSE, backend |-> "slirp", thin |-> TRUE],
          [bTurbo |-> FALSE, backend |-> "pcap",  thin |-> FALSE],
          [bTurbo |-> TRUE,  backend |-> "slirp", thin |-> FALSE]}
=============================================================================
