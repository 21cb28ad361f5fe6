------------------------------ MODULE Compose ------------------------------
(* The generator of configuration proposals: what it accepts, the Compose     *)
(* document it writes, the values it masks, and what it says of its output.   *)
(* A text field is only filled or blank, and `wrong' when its value fails the *)
(* format check. A variable of the environment has the name of its field.     *)
EXTENDS Naturals, FiniteSets

CONSTANT Catalog    \* servers of the catalog: [provider, vpn, is: filter -> values]

CompleteTasks == {"new_gluetun_setup", "configure_provider", "configure_wireguard",
                  "configure_openvpn"}
ProviderTasks == CompleteTasks \cup {"set_server_selection"}
AuthTasks == {"new_gluetun_setup", "enable_control_server", "configure_control_auth"}
PortTasks == {"publish_app_port", "route_app_manually"}
ReviewTasks == {"review_existing_configuration", "migrate_secrets"}

Filters == {"countries", "regions", "cities", "hostnames", "names", "categories", "isps"}
Located == Filters \ {"categories", "isps"}
Wireguard == {"wireguardPrivateKey", "wireguardAddresses", "wireguardPresharedKey",
              "wireguardPublicKey", "wireguardEndpointIp", "wireguardEndpointPort"}
Openvpn == {"openvpnUser", "openvpnPassword", "openvpnCertificate", "openvpnKey",
            "openvpnEncryptedKey", "openvpnKeyPassphrase", "customOpenvpnConfigPath"}
SecretFields == {"apiKey", "basicPassword", "wireguardPrivateKey", "wireguardPresharedKey"}
                \cup (Openvpn \ {"customOpenvpnConfigPath"})

\* What redaction hides goes by the name of a field: whatever starts with
\* wireguard, and the variable that holds the control server's account.
Hidden == SecretFields \cup Wireguard \cup {"basicUsername"}

-----------------------------------------------------------------------------
(* Providers. *)
WithWireguard == {"airvpn", "fastestvpn", "ivpn", "mullvad", "nordvpn", "protonvpn",
                  "surfshark", "windscribe", "custom"}
Uncredentialed == {"airvpn", "mullvad", "vpnsecure"}
FiltersOf(p) ==
    CASE p \in {"custom"} -> {}
      [] p \in {"mullvad", "ivpn"} -> {"countries", "cities", "hostnames", "isps"}
      [] p \in {"airvpn"} -> Located
      [] p \in {"giganews", "vyprvpn"} -> {"regions", "hostnames"}
      [] p \in {"windscribe", "vpnsecure"} -> {"regions", "cities", "hostnames"}
      [] p \in {"private internet access"} -> {"regions", "names", "hostnames"}
      [] p \in {"nordvpn"} -> {"countries", "regions", "cities", "hostnames", "categories"}
      [] p \in {"cyberghost"} -> {"countries", "hostnames"}
      [] p \in {"expressvpn", "fastestvpn", "ipvanish", "privatevpn", "torguard"} ->
             {"countries", "cities", "hostnames"}
      [] OTHER -> {"countries", "regions", "cities", "hostnames"}
Profile(p) ==
    [custom       |-> p = "custom",
     protocols    |-> (IF p \in WithWireguard THEN {"wireguard"} ELSE {})
                      \cup (IF p = "mullvad" THEN {} ELSE {"openvpn"}),
     credentials  |-> CASE p \in Uncredentialed -> "none"
                        [] p \in {"ivpn", "custom"} -> "optional"
                        [] OTHER -> "required",
     certificate  |-> CASE p \in {"airvpn", "cyberghost", "vpn unlimited"} -> "client_key"
                        [] p = "vpnsecure" -> "encrypted_key"
                        [] OTHER -> "none",
     addresses    |-> p \in WithWireguard \ {"nordvpn", "protonvpn"},
     presharedKey |-> p \in {"airvpn", "windscribe"},
     filters      |-> FiltersOf(p)]

\* The fields a complete provider task cannot do without, and those it refuses.
\* The user name is `wrong' when an IVPN one is not an account identifier.
Required(in) ==
    LET p == Profile(in.provider)
    IN  IF in.task \notin CompleteTasks THEN {}
        ELSE IF in.vpn = "wireguard"
             THEN {"wireguardPrivateKey"}
                  \cup (IF p.addresses THEN {"wireguardAddresses"} ELSE {})
                  \cup (IF p.presharedKey THEN {"wireguardPresharedKey"} ELSE {})
                  \cup (IF p.custom THEN {"wireguardPublicKey", "wireguardEndpointIp",
                                          "wireguardEndpointPort"} ELSE {})
        ELSE IF p.custom THEN {"customOpenvpnConfigPath"}
        ELSE (IF p.credentials = "required" \/ in.provider = "ivpn"
              THEN {"openvpnUser"} ELSE {})
             \cup (IF \/ p.credentials = "required"
                         \/ (in.provider = "ivpn" /\ "openvpnUser" \in in.wrong)
                   THEN {"openvpnPassword"} ELSE {})
             \cup (CASE p.certificate = "client_key" -> {"openvpnCertificate", "openvpnKey"}
                     [] p.certificate = "encrypted_key" ->
                            {"openvpnCertificate", "openvpnEncryptedKey", "openvpnKeyPassphrase"}
                     [] OTHER -> {})
Unused(in) ==
    LET p == Profile(in.provider)
    IN  IF in.task \in CompleteTasks /\ in.vpn = "wireguard"
        THEN (IF p.addresses THEN {} ELSE {"wireguardAddresses"})
             \cup (IF p.presharedKey \/ p.custom THEN {} ELSE {"wireguardPresharedKey"})
        ELSE {}
Checked(in) ==
    IF in.task \notin CompleteTasks THEN {}
    ELSE IF in.vpn = "wireguard" THEN Wireguard
    ELSE IF Profile(in.provider).certificate # "none" THEN {"openvpnCertificate", "openvpnKey"}
    ELSE IF Profile(in.provider).custom THEN {"customOpenvpnConfigPath"}
    ELSE {}

\* Every value of a filter is one of the catalog's, and some server has them all.
Offered(in, f) == UNION {s.is[f] : s \in {t \in Catalog : t.provider = in.provider
                                                        /\ t.vpn = in.vpn}}
Together(in) ==
    \E s \in Catalog : /\ s.provider = in.provider /\ s.vpn = in.vpn
                       /\ \A f \in Filters : in.filters[f] = {} \/ in.filters[f] \cap s.is[f] # {}
Selected(in) == {f \in Filters : in.filters[f] # {}}

ProviderAccepted(in) ==
    in.task \in ProviderTasks =>
        /\ in.provider # ""
        /\ in.vpn \in Profile(in.provider).protocols
        /\ in.any => ~Profile(in.provider).custom /\ Selected(in) \cap Located = {}
        /\ Selected(in) \subseteq Profile(in.provider).filters
        /\ \A f \in Selected(in) : in.filters[f] \subseteq Offered(in, f)
        /\ Selected(in) # {} => Together(in)
        /\ Required(in) \subseteq in.filled
        /\ Unused(in) \cap in.filled = {}
        /\ Checked(in) \cap in.wrong = {}

AuthAccepted(in) ==
    in.task \in AuthTasks =>
        CASE in.auth = "api_key" -> "apiKey" \in in.filled
          [] in.auth = "basic"   -> {"basicUsername", "basicPassword"} \subseteq in.filled
          [] OTHER               -> in.auth = "none"

-----------------------------------------------------------------------------
(* Documents. A service that replaces nothing of an existing one is a         *)
(* fragment: what it does not find in the document may be in the other file.  *)
None == [kind |-> "none", name |-> ""]
Document(services, networks, volumes) ==
    [services |-> services, networks |-> networks, volumes |-> volumes]
NoDocument == Document(<<>>, {}, {})
Of(document) == DOMAIN document.services
VpnServices(document) == {s \in Of(document) : s = "gluetun" \/ document.services[s].vpn}

ValidPort(port) ==
    /\ port.first \in 1 .. 65535 /\ port.last \in port.first .. 65535
    /\ port.target \in 1 .. 65535 /\ port.protocol \in {"tcp", "udp"}
ValidService(name, document, fragment) ==
    LET s == document.services[name]
    IN  /\ s.namespace.kind = "none" \/ s.networks = {}
        /\ s.namespace.kind = "service" => s.namespace.name \in Of(document)
        /\ \A p \in s.ports : ValidPort(p)
        /\ name \notin s.deps
        /\ fragment \/ /\ s.deps \subseteq Of(document)
                       /\ s.networks \subseteq document.networks \cup {"default"}
                       /\ s.volumes \subseteq document.volumes
Valid(document, fragment) ==
    Of(document) # {} /\ \A s \in Of(document) : ValidService(s, document, fragment)

Redacted(document) ==
    Document([s \in Of(document) |->
                 [document.services[s] EXCEPT !.env = @ \ Hidden, !.masked = @ \cup (document.services[s].env \cap Hidden)]],
             document.networks, document.volumes)
Marked(document) == \E s \in Of(document) : document.services[s].masked # {}
Legible(document) == UNION {document.services[s].env : s \in Of(document)}

\* Two bindings take the same port of the host, at one address or at every one.
Wildcards == {"", "0.0.0.0", "::"}
Overlap(a, b) ==
    /\ a.protocol = b.protocol /\ a.first <= b.last /\ b.first <= a.last
    /\ a.address = b.address \/ {a.address, b.address} \cap Wildcards # {}
Conflicts(in, target) ==
    {c \in {<<s, p>> : s \in Of(in.pasted), p \in UNION {in.pasted.services[t].ports : t \in Of(in.pasted)}} :
        /\ c[2] \in in.pasted.services[c[1]].ports
        /\ Overlap(c[2], in.port)
        /\ ~(c[1] = target /\ c[2] = in.port)}

-----------------------------------------------------------------------------
(* Generation. An input has the fields of a form; port.first = 0 stands for   *)
(* no port at all, NoDocument for nothing pasted.                             *)
NoPort == [address |-> "", first |-> 0, last |-> 0, protocol |-> "tcp", target |-> 0]
Accounts == SecretFields \cup {"basicUsername"}
Pasted(in) == in.pasted # NoDocument
Inspected(in) == Pasted(in) /\ Valid(in.pasted, FALSE)

\* Only what the task is about reaches the generator.
Scoped(in) ==
    LET provider == in.task \in ProviderTasks
        new == in.task = "new_gluetun_setup"
        route == in.task = "route_app_manually"
        auth == IF in.task \in AuthTasks THEN in.auth ELSE ""
        kept == (IF in.task \notin CompleteTasks THEN {}
                 ELSE IF in.vpn = "wireguard" THEN Wireguard ELSE Openvpn)
                \cup (CASE auth = "api_key" -> {"apiKey"}
                        [] auth = "basic" -> {"basicUsername", "basicPassword"}
                        [] OTHER -> {})
    IN  [in EXCEPT !.filled = @ \cap kept, !.wrong = @ \cap kept, !.auth = auth,
                   !.provider = IF provider THEN @ ELSE "",
                   !.vpn = IF provider THEN @ ELSE "",
                   !.any = provider /\ @,
                   !.filters = IF provider THEN @ ELSE [f \in Filters |-> {}],
                   !.envFile = new /\ @,
                   !.container = IF new \/ route THEN @ ELSE "",
                   !.port = IF new \/ in.task \in PortTasks THEN @ ELSE NoPort,
                   !.app = IF route THEN @ ELSE "",
                   !.scope = IF route THEN @ ELSE "same_project"]

\* The service to change: at most one, and none when the input is refused.
Target(in) ==
    LET asked == IF in.service = "" THEN "gluetun" ELSE in.service
    IN  IF in.task \in ReviewTasks THEN {"gluetun"}
        ELSE IF in.task = "new_gluetun_setup" \/ ~Inspected(in) THEN {asked}
        ELSE IF in.service # "" THEN {in.service} \cap VpnServices(in.pasted)
        ELSE IF VpnServices(in.pasted) = {} THEN {"gluetun"}
        ELSE IF Cardinality(VpnServices(in.pasted)) = 1 THEN VpnServices(in.pasted)
        ELSE {}

PortAccepted(in) ==
    /\ (in.port.first = 0) = (in.port.target = 0)
    /\ in.port # NoPort => ValidPort(in.port)
    /\ in.task \in PortTasks => in.port.first # 0
    /\ in.scope = "separate_project" => in.container # ""
Helpers == {"tuniku", "tuniku-docker-observer", "tuniku-manager"}
App(in) == IF in.app = "" THEN "app" ELSE in.app
NamesAccepted(in) ==
    /\ Target(in) # {}
    /\ in.task = "new_gluetun_setup" => Target(in) \cap Helpers = {} /\ in.container \notin Helpers
    /\ in.task = "route_app_manually" =>
           /\ App(in) \notin Target(in)
           /\ App(in) \in {"gluetun", "tuniku"} => Inspected(in) /\ App(in) \in Of(in.pasted)
Accepted(in) ==
    /\ PortAccepted(in) /\ ProviderAccepted(in) /\ AuthAccepted(in) /\ NamesAccepted(in)
    /\ in.task \in ReviewTasks => Pasted(in)

Written(in) ==
    (in.filled \cap
        (IF in.vpn = "wireguard"
         THEN IF Profile(in.provider).custom THEN Wireguard
              ELSE {"wireguardPrivateKey", "wireguardAddresses", "wireguardPresharedKey"}
         ELSE Openvpn \ {"customOpenvpnConfigPath"}))
    \cup (in.filled \cap (CASE in.auth = "api_key" -> {"apiKey"}
                            [] in.auth = "basic" -> {"basicUsername", "basicPassword"}
                            [] OTHER -> {}))
Shown(in) == IF in.include THEN Written(in) ELSE Written(in) \ Accounts

Service == [vpn |-> FALSE, env |-> {}, masked |-> {}, ports |-> {}, namespace |-> None,
            deps |-> {}, networks |-> {}, volumes |-> {}]
VpnService(in) ==
    LET new == in.task = "new_gluetun_setup"
    IN  [Service EXCEPT !.vpn = new,
                        !.env = IF in.envFile THEN {} ELSE Shown(in),
                        !.masked = IF in.envFile THEN {} ELSE Written(in) \ Shown(in),
                        !.ports = IF in.port.first = 0 THEN {} ELSE {in.port},
                        !.networks = IF new THEN {"tuniku"} ELSE {},
                        !.volumes = IF new THEN {"gluetun_data"} ELSE {}]

\* Mutant of AppService: it still waits for the service that is not there.
AppServiceWaits(in, vpn) ==
    [Service EXCEPT !.namespace = [kind |-> "service", name |-> vpn], !.deps = {vpn}]

\* An application of another project joins the container and cannot wait for it.
AppService(in, vpn) ==
    [Service EXCEPT !.namespace = IF in.scope = "separate_project"
                                  THEN [kind |-> "container", name |-> in.container]
                                  ELSE [kind |-> "service", name |-> vpn],
                    !.deps = IF in.scope = "separate_project" THEN {} ELSE {vpn}]
Built(in, vpn) ==
    LET new == in.task = "new_gluetun_setup"
        app == IF in.task = "route_app_manually" THEN {App(in)} ELSE {}
        kept == IF in.scope = "separate_project" THEN {} ELSE {vpn}
    IN  Document([s \in kept \cup app |->
                     IF s = vpn THEN VpnService(in) ELSE AppService(in, vpn)],
                 IF new THEN {"tuniku"} ELSE {}, IF new THEN {"gluetun_data"} ELSE {})

\* Whether credentials went into the output, masked or not.
Contains(in) ==
    \/ in.filled \cap Accounts # {}
    \/ (in.task \in ReviewTasks /\ Inspected(in) /\ Marked(Redacted(in.pasted)))

\* The answer to an input that is accepted. `legible' are the credentials in
\* it: in the document, the file of variables or the fragment with the ports.
Generated(asked) ==
    LET in == Scoped(asked)
        vpn == CHOOSE t \in Target(in) : TRUE
        review == in.task \in ReviewTasks
        document == IF ~review THEN Built(in, vpn)
                    ELSE IF Inspected(in) THEN Redacted(in.pasted) ELSE NoDocument
        formed == Valid(IF review THEN in.pasted ELSE document,
                        ~review /\ in.task # "new_gluetun_setup")
        collides == in.port.first # 0 /\ Inspected(in) /\ Conflicts(in, vpn) # {}
    IN  [document |-> document,
         legible  |-> (Legible(document) \cup (IF review THEN {} ELSE Shown(in))) \cap Accounts,
         contains |-> Contains(in),
         redacted |-> Contains(in) /\ (review \/ ~in.include),
         formed   |-> formed,
         valid    |-> formed /\ ~collides]

-----------------------------------------------------------------------------
(* Drafts. *)

\* Mutant of RedactedInput: only the credentials of the task are hidden.
RedactedTask(in) ==
    [in EXCEPT !.filled = @ \ (Hidden \cap Scoped(in).filled), !.wrong = @ \ Hidden,
               !.include = FALSE, !.pasted = IF Inspected(in) THEN Redacted(@) ELSE NoDocument]

\* The settings a draft keeps: redaction goes by names, so what is hidden
\* loses its value whether it is a secret or not.
RedactedInput(in) ==
    [in EXCEPT !.filled = @ \ Hidden, !.wrong = @ \ Hidden, !.include = FALSE,
               !.pasted = IF Inspected(in) THEN Redacted(@) ELSE NoDocument]

Draft(in) ==
    [settings |-> RedactedInput(in),
     hidden   |-> in.filled \cap Hidden,
     legible  |-> (RedactedInput(in).filled \cup Legible(RedactedInput(in).pasted)
                   \cup Generated([in EXCEPT !.include = FALSE]).legible) \cap Accounts]

\* A draft whose numbers were hidden is no input any more.
Readable(draft) == "wireguardEndpointPort" \notin draft.hidden
=============================================================================
