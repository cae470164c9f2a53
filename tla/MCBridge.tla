------------------------------ MODULE MCBridge ------------------------------
(* Public text may cross in every direction, as under                      *)
(* Policy::public_text_bridging.                                           *)
EXTENDS Bridge

OpenRules == << [from |-> Protocols, to |-> Protocols, allow |-> TRUE] >>
=============================================================================
