----------------------------- MODULE MCNetRules ------------------------------
(* A host with a LAN and two VPN interfaces, one of them with a NAT rule.   *)
EXTENDS NetRules

MCMasquerade == {FirstVpn}

==============================================================================
