---------------------------- MODULE MCAssistant ----------------------------
(* Instances of Assistant for TLC. *)
EXTENDS Assistant

MCCatalog == {[provider |-> "mullvad", vpn |-> "wireguard",
               is |-> [NoFilters EXCEPT !["countries"] = {"de"}, !["cities"] = {"ber"}]]}
MCChoices == [f \in {"countries", "cities"} |->
                 IF f = "countries" THEN {{"de"}, {"us"}} ELSE {{"ber"}}]
MCStacks == {Document(("gluetun" :> [Service EXCEPT !.vpn = TRUE, !.env = {"openvpnUser"}]), {}, {})}
=============================================================================
