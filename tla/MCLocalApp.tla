----------------------------- MODULE MCLocalApp -----------------------------
(* Addresses and lengths for TLC: "long" is longer than "short" by more than *)
(* the newline that may be left behind it.                                   *)
EXTENDS LocalApp

MCAddressLength == [none |-> 0, short |-> 14, next |-> 15, long |-> 20]
MCHubAddresses == {"short", "next", "long"}
MCDebugConfig == [address |-> "short", key |-> "valid"]
=============================================================================
