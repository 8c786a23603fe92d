-------------------------------- MODULE MCSetup --------------------------------
(* Instances of Setup for TLC. *)
EXTENDS Setup, TLC

MCNames == {"mail", "notes"}
MCDomains == {"d1.org", "d2.org"}

Conf(mail, notes) == ("mail" :> mail @@ "notes" :> notes)

\* What there may be of the two names: a service that the gateway lists, and a direct site.
Other(site, domain) == [by |-> "other", site |-> site, domain |-> domain, binds |-> "own"]
Odd == [NoEntry EXCEPT !.by = "odd"]

HostOf(v6, unit, dropin, env) == [v6 |-> v6, unit |-> unit, dropin |-> dropin, env |-> env]
Bound(from, four, six) == [from |-> from, of |-> (4 :> four @@ 6 :> six)]

Lists(mail, notes) == ("mail" :> mail @@ "notes" :> notes)
MCConfigurations == {Lists("guarded", "none"), Lists("none", "none"), Lists("open", "guarded")}

Machine(caddyfile, mail, notes, h, s, t) ==
    [disk |-> [caddyfile |-> caddyfile, conf |-> Conf(mail, notes)], host |-> h,
     services |-> Lists("guarded", "none"), sockets |-> s, tunnel |-> t]

\* Nothing yet; a Caddy of an earlier setup; one that an older setup-caddy.sh generated.
Fresh == Machine(NoCaddyfile, NoEntry, NoEntry, HostOf(TRUE, "none", FALSE, "unset"), Bound("none", "free", "free"), "none")

ByHand == [NoCaddyfile EXCEPT !.by = "other"]
Earlier(domain, notes, env) ==
    Machine(ByHand, Other("guarded", "d1.org"), notes, HostOf(TRUE, "none", FALSE, env), Bound("none", "caddy", "free"), "up")

OlderBlock(site) == Rendered(site, "d1.org", "old")
Older(domain, env) ==
    Machine(Generated(domain, "old"), OlderBlock("guarded"), OlderBlock("direct"), HostOf(TRUE, "old", FALSE, env),
            Bound("old", "systemd", "free"), "up")

\* What the script leaves today, on each kernel, and with the drop-in of an earlier one.
Now(v6, dropin, domain, env) ==
    LET layout == SystemdListen(HostOf(v6, "shipped", dropin, env))
    IN  Machine(Generated(domain, layout), Rendered("guarded", domain, layout), Rendered("direct", domain, layout),
                HostOf(v6, "shipped", dropin, env),
                Bound("shipped", "systemd", IF layout = "dual" THEN "systemd" ELSE "free"), "up")

MCMachines ==
    {Fresh,
     Earlier("d1.org", Other("direct", "d1.org"), "unset"), Earlier("d1.org", Other("direct", "d2.org"), "d1.org"),
     Earlier("d1.org", Odd, "d2.org"),
     Older("d1.org", "unset"), Older("unset", "d1.org"), Older("error", "unset"),
     Now(TRUE, FALSE, "d1.org", "unset"), Now(TRUE, FALSE, NoDomain, "d1.org"), Now(TRUE, FALSE, "d1.org", "d2.org"),
     Now(FALSE, FALSE, "d1.org", "d1.org"), Now(TRUE, TRUE, NoDomain, NoDomain)}
================================================================================
