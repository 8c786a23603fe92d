------------------------------ MODULE CaddyFiles ------------------------------
(***************************************************************************)
(* What gateway/webspec/caddy.py reads from a host and decides from it:    *)
(* the Caddyfile and the site blocks on disk, the hosts they serve, the    *)
(* blocks that the gateway's configuration calls for, the domain they are  *)
(* for, the sockets they bind, and whether webspec-ctl may change them.    *)
(*                                                                         *)
(* A disk is [caddyfile, conf]: conf maps each name to what its .caddy     *)
(* entry is.  A host is [v6, unit, dropin, env]: whether the kernel has    *)
(* IPv6, which caddy-webspec.socket is loaded, whether an earlier setup's  *)
(* IPv4-only drop-in is there, and WEBSPEC_DOMAIN in gateway.env.          *)
(***************************************************************************)
EXTENDS FiniteSets

CONSTANTS
    Names,          \* the names that sites have
    Domains,        \* the public domains there are
    NoDomain        \* the local host only

ASSUME CaddyFilesAssumption ==
    /\ {NoDomain, "unset", "none", "error", "localhost"} \cap Domains = {}
    /\ NoDomain \notin {"unset", "none", "error", "localhost"}

-----------------------------------------------------------------------------
(* The files.                                                              *)

\* A service without and with a guard, and a direct site.
Sites == {"open", "guarded", "direct"}

\* What a file binds: sockets of its own, those of an older unit, or a layout of LAYOUTS.
Binds == {"own", "old", "ipv4", "dual"}

\* By whom: "webspec" if read_site trusts it; "other" for a regular file that it does not; "odd"
\* for what is not a regular file.
Entry == [by: {"none", "webspec", "other", "odd"}, site: Sites, domain: Domains \cup {NoDomain}, binds: Binds]
NoEntry == [by |-> "none", site |-> "open", domain |-> NoDomain, binds |-> "own"]

\* domain: "unset" where none is recorded, "error" where it cannot be read.
Caddyfile ==
    [by: {"none", "webspec", "other", "odd"}, safe: BOOLEAN, imports: BOOLEAN,
     domain: Domains \cup {NoDomain, "unset", "error"}, binds: Binds, hosts: SUBSET (Names \X Domains)]
NoCaddyfile ==
    [by |-> "none", safe |-> TRUE, imports |-> TRUE, domain |-> "unset", binds |-> "own", hosts |-> {}]

Disk == [caddyfile: Caddyfile, conf: [Names -> Entry]]

SiteHosts(n, site, domain) ==
    {<<n, "localhost">>} \cup IF site # "open" /\ domain # NoDomain THEN {<<n, domain>>} ELSE {}

Rendered(site, domain, layout) == [by |-> "webspec", site |-> site, domain |-> domain, binds |-> layout]

Generated(domain, layout) ==
    [by |-> "webspec", safe |-> TRUE, imports |-> TRUE, domain |-> domain, binds |-> layout, hosts |-> {}]

\* The trusted blocks, and every other entry that Caddy would import.
TrustedIn(d) == {n \in Names : d.conf[n].by = "webspec"}
UntrustedIn(d) == {n \in Names : d.conf[n].by \in {"other", "odd"}}

\* The hosts that Caddy serves with these files, as far as they can be told.
Readable(d) == {n \in Names : d.conf[n].by \in {"webspec", "other"}}
ServedToday(d) ==
    d.caddyfile.hosts \cup UNION {SiteHosts(n, d.conf[n].site, d.conf[n].domain) : n \in Readable(d)}
Unreadable(d) == d.caddyfile.by = "odd" \/ \E n \in Names : d.conf[n].by = "odd"

-----------------------------------------------------------------------------
(* The blocks to write.  services gives the site of each name that the     *)
(* gateway's configuration lists, and "none" for the others.               *)

NoServices == [n \in Names |-> "none"]

PlanSites(services, d, adopt) ==
    LET Kept(n) == n \in TrustedIn(d) /\ (d.conf[n].site = "direct" \/ services = NoServices)
        Adopted(n) == adopt /\ d.conf[n].by = "other" /\ d.conf[n].site = "direct"
        sites == [n \in Names |-> IF services[n] # "none" THEN services[n]
                                  ELSE IF Kept(n) \/ Adopted(n) THEN d.conf[n].site
                                  ELSE "none"]
    IN  [sites |-> sites,
         stale |-> {n \in TrustedIn(d) : sites[n] = "none"},
         untrusted |-> UntrustedIn(d)]

Planned(plan) == {n \in Names : plan.sites[n] # "none"}
ServedAfter(plan, domain) == UNION {SiteHosts(n, plan.sites[n], domain) : n \in Planned(plan)}

\* HostReport.refused
Refused(d, plan, domain, allowShrink) ==
    /\ ~ServedToday(d) \subseteq ServedAfter(plan, domain) \/ Unreadable(d)
    /\ ~allowShrink

-----------------------------------------------------------------------------
(* The sockets.                                                            *)

PlannedListeners(h) == IF h.v6 THEN "dual" ELSE "ipv4"

\* What systemd reports of the loaded unit: it leaves out what the kernel cannot bind.
SystemdListen(h) ==
    IF h.unit \in {"none", "old"} THEN h.unit
    ELSE IF h.dropin \/ ~h.v6 THEN "ipv4"
    ELSE "dual"

\* Never the kernel; "old" stands for the error that it raises.
InstalledListeners(h) ==
    IF SystemdListen(h) # "none" THEN SystemdListen(h)
    ELSE IF h.dropin THEN "ipv4"
    ELSE "dual"

\* Mutant: a Caddyfile that serves only some of the sockets is none.
LayoutMismatchStart(recorded, installed) == recorded = "dual" /\ installed = "ipv4"

LayoutMismatch(recorded, installed) == recorded # installed

\* listener_mismatch, where it has something to compare.
ListenerMismatch(d, h) ==
    /\ d.caddyfile.by = "webspec" /\ d.caddyfile.safe
    /\ d.caddyfile.binds # "old"
    /\ LayoutMismatch(d.caddyfile.binds, InstalledListeners(h))

UnheldListeners(h) == SystemdListen(h) = "ipv4" /\ h.v6

-----------------------------------------------------------------------------
(* The domain: "none" if nothing says it, "error" if it has to be asked.   *)

\* The public domains that entries serve.
DomainsBy(d, who) ==
    {d.conf[n].domain : n \in {m \in Names : d.conf[m].by \in who /\ d.conf[m].site # "open"}} \ {NoDomain}

TheOne(found) ==
    IF found = {} THEN "none" ELSE IF Cardinality(found) = 1 THEN CHOOSE x \in found : TRUE ELSE "error"

RecordedDomain(d) ==
    IF d.caddyfile.by = "none" THEN "none"
    ELSE IF d.caddyfile.by # "webspec" THEN TheOne(DomainsBy(d, {"webspec", "other"}))
    ELSE IF ~d.caddyfile.safe THEN "none"
    ELSE IF d.caddyfile.domain = "unset" THEN TheOne(DomainsBy(d, {"webspec"}))
    ELSE d.caddyfile.domain

\* Mutant: the gateway's own setting comes before what is recorded.
ResolveDomainByEnv(given, d, h) ==
    IF given # "unset" THEN given
    ELSE IF h.env \in Domains THEN h.env
    ELSE IF RecordedDomain(d) = "none" THEN NoDomain
    ELSE RecordedDomain(d)

\* given: WEBSPEC_DOMAIN in the environment.
ResolveDomain(given, d, h) ==
    LET recorded == RecordedDomain(d)
        value == IF h.env = "unset" THEN NoDomain ELSE h.env
    IN  IF given # "unset" THEN given
        ELSE IF recorded = "error" THEN "error"
        ELSE IF recorded = "none" THEN value
        ELSE IF value # NoDomain /\ recorded # NoDomain /\ recorded # value THEN "error"
        ELSE recorded

-----------------------------------------------------------------------------
\* caddy_status, as root, on a host with a trusted Caddy.
CaddyStatus(d, h) ==
    IF d.caddyfile.by = "none" THEN "absent"
    ELSE IF ~d.caddyfile.safe \/ d.caddyfile.by # "webspec" THEN "refused"
    ELSE IF ~d.caddyfile.imports THEN "refused"
    ELSE IF InstalledListeners(h) = "old" \/ d.caddyfile.binds = "old" THEN "refused"
    ELSE IF LayoutMismatch(d.caddyfile.binds, InstalledListeners(h)) THEN "refused"
    ELSE "managed"

\* The disk that webspec-ctl makes of this one: plan_sync, and the domain that is recorded.
Synced(d, h, services, domain) ==
    LET plan == PlanSites(services, d, FALSE)
    IN  [caddyfile |-> [d.caddyfile EXCEPT !.domain = domain],
         conf |-> [n \in Names |-> IF n \in Planned(plan) THEN Rendered(plan.sites[n], domain, InstalledListeners(h))
                                   ELSE IF n \in plan.stale THEN NoEntry
                                   ELSE d.conf[n]]]

\* The disk with a block more: webspec-ctl add --direct.
WithDirect(d, h, n, domain) ==
    [caddyfile |-> [d.caddyfile EXCEPT !.domain = domain],
     conf |-> [d.conf EXCEPT ![n] = Rendered("direct", domain, InstalledListeners(h))]]
================================================================================
