----------------------------- MODULE MCDelivery -----------------------------
(* Values of the constants that a configuration file cannot write down.      *)
EXTENDS DeliveryProperties

PlainArrivals == {<<"pending", FALSE>>}
GoodOrKept    == {<<"pending", FALSE>>, <<"quarantined", TRUE>>}
=============================================================================
