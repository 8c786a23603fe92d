------------------------------ MODULE SetupProofs ------------------------------
(***************************************************************************)
(* Setup for any machines, names, domains and configurations, and for any  *)
(* number of runs of the script and events beside them.                    *)
(*                                                                         *)
(* The steps are of a few kinds (FileStep): a run begins, plans, goes on,  *)
(* writes one file or ends, a command of webspec-ctl writes, a reboot, and *)
(* what touches no file. A lemma for each part of the script says of which *)
(* kind its steps are (Kinds). Each conjunct of the invariant, Inv, then   *)
(* needs one case for each kind, and those about the sockets one for each  *)
(* action.                                                                 *)
(***************************************************************************)
EXTENDS Setup, TLAPS

-----------------------------------------------------------------------------
(* The files and what is decided from them.                                *)

Plans == [sites: [Names -> Sites \cup {"none"}], stale: SUBSET Names, untrusted: SUBSET Names]

\* What plan_sites leaves out it drops.
LEMMA PlanTyped ==
  ASSUME NEW s \in [Names -> Sites \cup {"none"}], NEW d \in Disk, NEW adopt \in BOOLEAN
  PROVE  /\ PlanSites(s, d, adopt) \in Plans
         /\ PlanSites(s, d, adopt).untrusted = UntrustedIn(d)
         /\ PlanSites(s, d, adopt).stale = TrustedIn(d) \ Planned(PlanSites(s, d, adopt))
  <1> DEFINE Kept(n) == n \in TrustedIn(d) /\ (d.conf[n].site = "direct" \/ s = NoServices)
             Adopted(n) == adopt /\ d.conf[n].by = "other" /\ d.conf[n].site = "direct"
             sites == [n \in Names |-> IF s[n] # "none" THEN s[n]
                                       ELSE IF Kept(n) \/ Adopted(n) THEN d.conf[n].site
                                       ELSE "none"]
             plan == [sites |-> sites,
                      stale |-> {n \in TrustedIn(d) : sites[n] = "none"},
                      untrusted |-> UntrustedIn(d)]
  <1>1. PlanSites(s, d, adopt) = plan
    BY DEF PlanSites
  <1>2. \A n \in Names : d.conf[n].site \in Sites
    BY DEF Disk, Entry
  <1>3. sites \in [Names -> Sites \cup {"none"}]
    BY <1>2
  <1>4. TrustedIn(d) \subseteq Names /\ UntrustedIn(d) \subseteq Names
    BY DEF TrustedIn, UntrustedIn
  <1> HIDE DEF sites
  <1>5. plan \in Plans
    BY <1>3, <1>4 DEF Plans
  <1>6. plan.stale = TrustedIn(d) \ Planned(plan)
    BY <1>4 DEF Planned
  <1>7. QED
    BY <1>1, <1>5, <1>6

LEMMA RenderedTyped ==
  ASSUME NEW site \in Sites, NEW domain \in Domains \cup {NoDomain}, NEW layout \in Binds
  PROVE  Rendered(site, domain, layout) \in Entry
  BY DEF Rendered, Entry

LEMMA GeneratedTyped ==
  ASSUME NEW domain \in Domains \cup {NoDomain}, NEW layout \in Binds
  PROVE  Generated(domain, layout) \in Caddyfile
  BY DEF Generated, Caddyfile

LEMMA NoEntryTyped == NoEntry \in Entry /\ NoEntry.by = "none"
  BY DEF NoEntry, Entry, Sites, Binds

\* A host that is served is one of the Caddyfile's or of a block that can be read.
LEMMA ServedByOne ==
  ASSUME NEW d, NEW x
  PROVE  x \in ServedToday(d) <=>
            \/ x \in d.caddyfile.hosts
            \/ \E n \in Readable(d) : x \in SiteHosts(n, d.conf[n].site, d.conf[n].domain)
  BY DEF ServedToday

LEMMA ServedByPlan ==
  ASSUME NEW plan, NEW domain, NEW x
  PROVE  x \in ServedAfter(plan, domain) <=>
            \E n \in Planned(plan) : x \in SiteHosts(n, plan.sites[n], domain)
  BY DEF ServedAfter

LEMMA HostsTyped ==
  ASSUME NEW n \in Names, NEW site, NEW domain \in Domains \cup {NoDomain}
  PROVE  /\ SiteHosts(n, site, domain) \subseteq Names \X (Domains \cup {"localhost"})
         /\ \A x \in SiteHosts(n, site, domain) : x[2] \in {"localhost", domain}
  BY DEF SiteHosts

LEMMA ServedTyped ==
  ASSUME NEW d \in Disk
  PROVE  ServedToday(d) \subseteq Names \X (Domains \cup {"localhost"})
  <1>1. d.caddyfile.hosts \subseteq Names \X Domains
    BY DEF Disk, Caddyfile
  <1>2. \A n \in Names : d.conf[n].domain \in Domains \cup {NoDomain}
    BY DEF Disk, Entry
  <1>3. Readable(d) \subseteq Names
    BY DEF Readable
  <1>4. ASSUME NEW x \in ServedToday(d) PROVE x \in Names \X (Domains \cup {"localhost"})
    <2>1. CASE x \in d.caddyfile.hosts
      BY <1>1, <2>1
    <2>2. CASE \E n \in Readable(d) : x \in SiteHosts(n, d.conf[n].site, d.conf[n].domain)
      BY <1>2, <1>3, <2>2, HostsTyped
    <2>3. QED
      BY <1>4, <2>1, <2>2, ServedByOne
  <1>5. QED
    BY <1>4

-----------------------------------------------------------------------------
(* The domain.                                                             *)

LEMMA TheOneTyped ==
  ASSUME NEW found, found \subseteq Domains
  PROVE  TheOne(found) \in Domains \cup {"none", "error"}
  BY DEF TheOne

LEMMA RecordedTyped ==
  ASSUME NEW d \in Disk
  PROVE  RecordedDomain(d) \in Domains \cup {NoDomain, "none", "error"}
  <1>1. ASSUME NEW who PROVE DomainsBy(d, who) \subseteq Domains
    BY DEF DomainsBy, Disk, Entry
  <1>2. d.caddyfile.domain \in Domains \cup {NoDomain, "unset", "error"}
    BY DEF Disk, Caddyfile
  <1>3. QED
    BY <1>1, <1>2, TheOneTyped DEF RecordedDomain

LEMMA ResolvedTyped ==
  ASSUME NEW given \in Domains \cup {NoDomain, "unset"}, NEW d \in Disk, NEW h \in Host
  PROVE  ResolveDomain(given, d, h) \in Domains \cup {NoDomain, "error"}
  BY RecordedTyped, CaddyFilesAssumption DEF ResolveDomain, Host

\* Where one is recorded, no other is resolved, unless it is given.
LEMMA ResolvedIsRecorded ==
  ASSUME NEW d \in Disk, NEW h, RecordedDomain(d) \notin {"none", "error"},
         ResolveDomain("unset", d, h) # "error"
  PROVE  ResolveDomain("unset", d, h) = RecordedDomain(d)
  BY DEF ResolveDomain

LEMMA DomainNames ==
  ASSUME NEW x \in Domains \cup {NoDomain}
  PROVE  x \notin {"unset", "none", "error", "localhost"}
  BY CaddyFilesAssumption

-----------------------------------------------------------------------------
(* The sockets.                                                            *)

LEMMA ListenTyped ==
  ASSUME NEW h \in Host
  PROVE  /\ SystemdListen(h) \in {"none", "old", "ipv4", "dual"}
         /\ InstalledListeners(h) \in {"old", "ipv4", "dual"}
         /\ PlannedListeners(h) \in {"ipv4", "dual"}
         /\ PlannedListeners(h) = "dual" <=> h.v6
         /\ h.unit = "shipped" => /\ SystemdListen(h) \in {"ipv4", "dual"}
                                  /\ InstalledListeners(h) = SystemdListen(h)
         /\ SystemdListen(h) = "dual" => h.v6 /\ h.unit = "shipped"
         /\ h.unit = "shipped" /\ ~h.dropin => SystemdListen(h) = PlannedListeners(h)
  BY DEF Host, SystemdListen, InstalledListeners, PlannedListeners

LEMMA FourPassed == ASSUME NEW layout PROVE 4 \in Families(layout) /\ Families(layout) \subseteq {4, 6}
                                            /\ (6 \in Families(layout) <=> layout = "dual")
  BY DEF Families

-----------------------------------------------------------------------------
(* A run of the script.                                                    *)

Stages == Writing \cup {"idle", "plan", "stage", "keep", "units", "switch", "waiting"}
Outs == {"none", "refused", "put back", "torn", "late", "ok"}

\* r is the same run as this one, at another stage.
SameRun(r) ==
    /\ r.domain = run.domain /\ r.given = run.given /\ r.layout = run.layout
    /\ r.allowShrink = run.allowShrink /\ r.newBinary = run.newBinary
    /\ r.plan = run.plan /\ r.out = run.out
    /\ r.overtaken = run.overtaken /\ r.crossed = run.crossed

LEMMA EndedRun ==
  ASSUME run \in Run, NEW out \in Outs
  PROVE  /\ Ended(out) \in Run /\ Ended(out).at = "idle" /\ Ended(out).out = out
         /\ Ended(out).layout = run.layout /\ Ended(out).crossed = run.crossed
  BY DEF Ended, Run, Outs

LEMMA GoneRun ==
  ASSUME run \in Run, NEW at \in Stages, NEW names \in SUBSET Names
  PROVE  /\ Goes(at, names) \in Run /\ SameRun(Goes(at, names))
         /\ Goes(at, names).at = at /\ Goes(at, names).left = names
  BY DEF Goes, Run, SameRun, Stages

LEMMA StagedRun ==
  ASSUME run \in Run, NEW at \in Stages
  PROVE  LET r == [run EXCEPT !.at = at]
         IN  r \in Run /\ SameRun(r) /\ r.at = at /\ r.left = run.left
  BY DEF Run, SameRun, Stages

LEMMA LeftRun ==
  ASSUME run \in Run, NEW names \in SUBSET Names
  PROVE  LET r == [run EXCEPT !.left = names]
         IN  r \in Run /\ SameRun(r) /\ r.at = run.at /\ r.left = names
  BY DEF Run, SameRun

LEMMA UnitsRun ==
  ASSUME run \in Run, NEW b \in BOOLEAN, NEW c \in BOOLEAN
  PROVE  LET r == [run EXCEPT !.at = "switch", !.unitChanged = b, !.socketChanged = c]
         IN  r \in Run /\ SameRun(r) /\ r.at = "switch"
  BY DEF Run, SameRun

LEMMA PlannedRun ==
  ASSUME run \in Run, NEW plan \in Plans
  PROVE  LET r == [run EXCEPT !.at = "move", !.plan = plan, !.left = plan.untrusted]
         IN  /\ r \in Run /\ r.at = "move" /\ r.plan = plan /\ r.left = plan.untrusted
             /\ r.out = run.out /\ r.domain = run.domain /\ r.given = run.given
             /\ r.layout = run.layout /\ r.overtaken = run.overtaken /\ r.crossed = run.crossed
  BY DEF Run, Plans, Writing

CrossedBy(crossed, overtaken) == [run EXCEPT !.out = "none", !.crossed = crossed, !.overtaken = overtaken]

LEMMA CrossedRun ==
  ASSUME run \in Run, NEW b \in BOOLEAN, NEW c \in BOOLEAN
  PROVE  LET r == CrossedBy(b, c)
         IN  /\ r \in Run /\ r.out = "none" /\ r.crossed = b /\ r.overtaken = c
             /\ r.at = run.at /\ r.domain = run.domain /\ r.given = run.given
             /\ r.layout = run.layout /\ r.plan = run.plan /\ r.left = run.left
  BY DEF Run, CrossedBy

LEMMA IdleRun == Idle \in Run /\ Idle.at = "idle" /\ Idle.out = "none" /\ ~Idle.crossed /\ ~Idle.overtaken
  <1> DEFINE d == [caddyfile |-> NoCaddyfile, conf |-> [n \in Names |-> NoEntry]]
             plan == PlanSites(NoServices, d, FALSE)
  <1>1. d \in Disk
    <2>1. NoCaddyfile \in Caddyfile
      BY DEF NoCaddyfile, Caddyfile, Binds
    <2>2. QED
      BY <2>1, NoEntryTyped DEF Disk
  <1>2. NoServices \in [Names -> Sites \cup {"none"}]
    BY DEF NoServices
  <1> HIDE DEF d
  <1>3. plan \in Plans
    BY <1>1, <1>2, PlanTyped
  <1>4. Idle = [at |-> "idle", out |-> "none", domain |-> NoDomain, given |-> FALSE, layout |-> "dual",
                allowShrink |-> FALSE, newBinary |-> FALSE, plan |-> plan, left |-> {}, socketChanged |-> FALSE,
                unitChanged |-> FALSE, overtaken |-> FALSE, crossed |-> FALSE]
    BY DEF Idle, d
  <1> HIDE DEF plan
  <1>5. QED
    BY <1>3, <1>4 DEF Run, Plans

Started(at, out, domain, given, layout, allowShrink, newBinary) ==
    [Idle EXCEPT !.at = at, !.out = out, !.domain = domain, !.given = given, !.layout = layout,
                 !.allowShrink = allowShrink, !.newBinary = newBinary]

LEMMA BegunRun ==
  ASSUME NEW at \in Stages, NEW out \in Outs, NEW domain \in Domains \cup {NoDomain}, NEW given \in BOOLEAN,
         NEW layout \in {"ipv4", "dual"}, NEW allowShrink \in BOOLEAN, NEW newBinary \in BOOLEAN
  PROVE  LET r == Started(at, out, domain, given, layout, allowShrink, newBinary)
         IN  /\ r \in Run /\ r.at = at /\ r.out = out /\ r.domain = domain /\ r.given = given
             /\ r.layout = layout /\ ~r.crossed /\ ~r.overtaken
  <1> DEFINE i == [Idle EXCEPT !.at = at, !.out = out]
             j == [i EXCEPT !.domain = domain, !.given = given]
             r == [j EXCEPT !.layout = layout, !.allowShrink = allowShrink, !.newBinary = newBinary]
  <1>1. Idle \in Run
    BY IdleRun
  <1>2. Started(at, out, domain, given, layout, allowShrink, newBinary) = r
    BY Zenon DEF Started
  <1>3. i \in Run /\ i.at = at /\ i.out = out /\ i.crossed = Idle.crossed /\ i.overtaken = Idle.overtaken
    BY <1>1 DEF Run, Stages, Outs
  <1> HIDE DEF i
  <1>4. /\ j \in Run /\ j.at = at /\ j.out = out /\ j.domain = domain /\ j.given = given
        /\ j.crossed = i.crossed /\ j.overtaken = i.overtaken
    BY <1>3 DEF Run
  <1> HIDE DEF j
  <1>5. /\ r \in Run /\ r.at = at /\ r.out = out /\ r.domain = domain /\ r.given = given
        /\ r.layout = layout /\ r.crossed = j.crossed /\ r.overtaken = j.overtaken
    BY <1>4 DEF Run
  <1> HIDE DEF r
  <1>6. ~r.crossed /\ ~r.overtaken
    BY <1>3, <1>4, <1>5, IdleRun, Zenon
  <1>7. QED
    BY <1>2, <1>5, <1>6, Zenon

-----------------------------------------------------------------------------
(* What webspec-ctl makes of the files.                                    *)

LEMMA DiskUpdated ==
  ASSUME NEW d \in Disk, NEW n \in Names, NEW e \in Entry
  PROVE  LET new == [d EXCEPT !.conf[n] = e]
         IN  /\ new \in Disk /\ new.caddyfile = d.caddyfile
             /\ \A m \in Names : new.conf[m] = IF m = n THEN e ELSE d.conf[m]
  BY DEF Disk

LEMMA CaddyfileUpdated ==
  ASSUME NEW d \in Disk, NEW c \in Caddyfile
  PROVE  LET new == [d EXCEPT !.caddyfile = c]
         IN  new \in Disk /\ new.caddyfile = c /\ new.conf = d.conf
  BY DEF Disk

LEMMA UsedByOne ==
  ASSUME NEW d, NEW binds
  PROVE  /\ Used(d) = {binds} <=> /\ d.caddyfile.binds = binds
                                  /\ \A n \in Names : d.conf[n].by # "none" => d.conf[n].binds = binds
         /\ \A n \in Names : d.conf[n].by # "none" => d.conf[n].binds \in Used(d)
         /\ d.caddyfile.binds \in Used(d)
  <1>1. \A x : x \in Used(d) <=> \/ x = d.caddyfile.binds
                                 \/ \E n \in Names : d.conf[n].by # "none" /\ x = d.conf[n].binds
    BY DEF Used
  <1>2. Used(d) = {binds} <=> \A x : x \in Used(d) <=> x = binds
    OBVIOUS
  <1>3. QED
    BY <1>1, <1>2, Zenon

\* Nobody has put a block for other sockets beside those that the Caddyfile is for.
Uniform(d) ==
    /\ d.caddyfile.by = "webspec" /\ d.caddyfile.safe /\ d.caddyfile.imports
    /\ d.caddyfile.binds # "old"
    => Used(d) = {d.caddyfile.binds}

\* The Caddyfile that records another domain.
LEMMA DomainRecorded ==
  ASSUME NEW c \in Caddyfile, NEW domain \in Domains \cup {NoDomain}
  PROVE  LET new == [c EXCEPT !.domain = domain]
         IN  /\ new \in Caddyfile /\ new.domain = domain /\ new.hosts = c.hosts
             /\ new.by = c.by /\ new.safe = c.safe /\ new.imports = c.imports /\ new.binds = c.binds
  BY DEF Caddyfile

LEMMA Managed ==
  ASSUME NEW d, NEW h, CaddyStatus(d, h) = "managed"
  PROVE  /\ d.caddyfile.by = "webspec" /\ d.caddyfile.safe /\ d.caddyfile.imports
         /\ d.caddyfile.binds # "old" /\ InstalledListeners(h) = d.caddyfile.binds
  BY DEF CaddyStatus, LayoutMismatch

LEMMA InstalledBinds ==
  ASSUME NEW h \in Host PROVE InstalledListeners(h) \in Binds
  BY ListenTyped DEF Binds

LEMMA SyncedTyped ==
  ASSUME NEW d \in Disk, NEW h \in Host, NEW s \in [Names -> Sites \cup {"none"}],
         NEW domain \in Domains \cup {NoDomain}
  PROVE  /\ Synced(d, h, s, domain) \in Disk
         /\ Synced(d, h, s, domain).caddyfile = [d.caddyfile EXCEPT !.domain = domain]
         /\ \A n \in Names : LET e == Synced(d, h, s, domain).conf[n]
                             IN  \/ e.binds = InstalledListeners(h)
                                 \/ e.by = "none"
                                 \/ e = d.conf[n]
  <1> DEFINE plan == PlanSites(s, d, FALSE)
             conf == [n \in Names |->
                         IF n \in Planned(plan) THEN Rendered(plan.sites[n], domain, InstalledListeners(h))
                         ELSE IF n \in plan.stale THEN NoEntry
                         ELSE d.conf[n]]
             c == [d.caddyfile EXCEPT !.domain = domain]
  <1>1. Synced(d, h, s, domain) = [caddyfile |-> c, conf |-> conf]
    BY DEF Synced
  <1>2. plan \in Plans
    BY PlanTyped
  <1>3. d.caddyfile \in Caddyfile /\ d.conf \in [Names -> Entry]
    BY DEF Disk
  <1>4. c \in Caddyfile
    BY <1>3, DomainRecorded
  <1> HIDE DEF plan
  <1>5. \A n \in Planned(plan) : n \in Names /\ plan.sites[n] \in Sites
    BY <1>2 DEF Plans, Planned
  <1>6. \A n \in Planned(plan) : /\ Rendered(plan.sites[n], domain, InstalledListeners(h)) \in Entry
                                 /\ Rendered(plan.sites[n], domain, InstalledListeners(h)).binds = InstalledListeners(h)
    BY <1>5, InstalledBinds, RenderedTyped DEF Rendered
  <1>7. \A n \in Names : conf[n] \in Entry /\ (conf[n].binds = InstalledListeners(h) \/ conf[n].by = "none" \/ conf[n] = d.conf[n])
    BY <1>3, <1>6, NoEntryTyped
  <1> HIDE DEF c
  <1>8. conf \in [Names -> Entry]
    BY <1>7
  <1> HIDE DEF conf
  <1>9. QED
    BY <1>1, <1>4, <1>7, <1>8 DEF Disk, c

LEMMA DirectTyped ==
  ASSUME NEW d \in Disk, NEW h \in Host, NEW n \in Names, NEW domain \in Domains \cup {NoDomain}
  PROVE  /\ WithDirect(d, h, n, domain) \in Disk
         /\ WithDirect(d, h, n, domain).caddyfile = [d.caddyfile EXCEPT !.domain = domain]
         /\ \A m \in Names : LET e == WithDirect(d, h, n, domain).conf[m]
                             IN  e.binds = InstalledListeners(h) \/ e = d.conf[m]
  <1> DEFINE c == [d.caddyfile EXCEPT !.domain = domain]
             e == Rendered("direct", domain, InstalledListeners(h))
             conf == [d.conf EXCEPT ![n] = e]
  <1>1. WithDirect(d, h, n, domain) = [caddyfile |-> c, conf |-> conf]
    BY DEF WithDirect
  <1>2. d.caddyfile \in Caddyfile /\ d.conf \in [Names -> Entry]
    BY DEF Disk
  <1>3. c \in Caddyfile
    BY <1>2, DomainRecorded
  <1>4. e \in Entry /\ e.binds = InstalledListeners(h)
    <2>1. "direct" \in Sites
      BY DEF Sites
    <2>2. QED
      BY <2>1, InstalledBinds, RenderedTyped DEF Rendered
  <1> HIDE DEF e
  <1>5. conf \in [Names -> Entry] /\ \A m \in Names : conf[m] = IF m = n THEN e ELSE d.conf[m]
    BY <1>2, <1>4
  <1> HIDE DEF c, conf
  <1>6. QED
    BY <1>1, <1>3, <1>4, <1>5 DEF Disk, c

\* A command of webspec-ctl: it changes the domain of the Caddyfile, and blocks, which then
\* bind what the others do.
LEMMA Commanded ==
  ASSUME TypeOK, CaddySync \/ AddDirect
  PROVE  \E d \in Disk, domain \in Domains \cup {NoDomain} :
            /\ Command(d, domain)
            /\ d.caddyfile = [disk.caddyfile EXCEPT !.domain = domain]
            /\ Uniform(disk) => Uniform(d)
  <1>1. disk \in Disk /\ host \in Host /\ services \in [Names -> Sites \cup {"none"}]
    BY SetupAssumption DEF TypeOK, Sites
  <1>2. disk.caddyfile \in Caddyfile
    BY <1>1 DEF Disk
  <1>3. ASSUME NEW d, NEW domain \in Domains \cup {NoDomain}, CaddyStatus(disk, host) = "managed",
               d.caddyfile = [disk.caddyfile EXCEPT !.domain = domain], Uniform(disk),
               \A n \in Names : \/ d.conf[n].binds = InstalledListeners(host)
                                \/ d.conf[n].by = "none" \/ d.conf[n] = disk.conf[n]
        PROVE  Uniform(d)
    <2>1. Used(disk) = {disk.caddyfile.binds} /\ InstalledListeners(host) = disk.caddyfile.binds
      BY <1>3, Managed DEF Uniform
    <2>2. d.caddyfile.binds = disk.caddyfile.binds
      BY <1>2, <1>3, DomainRecorded
    <2>3. \A n \in Names : d.conf[n].by # "none" => d.conf[n].binds = disk.caddyfile.binds
      BY <1>3, <2>1, UsedByOne
    <2>4. Used(d) = {d.caddyfile.binds}
      BY <2>2, <2>3, UsedByOne
    <2>5. QED
      BY <2>4 DEF Uniform
  <1>4. CASE CaddySync
    <2>1. PICK given \in Gifts :
             LET domain == ResolveDomain(given, disk, host)
             IN  Command(Synced(disk, host, services, domain), domain)
      BY <1>4 DEF CaddySync
    <2> DEFINE domain == ResolveDomain(given, disk, host)
               d == Synced(disk, host, services, domain)
    <2>2. Command(d, domain) /\ domain # "error" /\ CaddyStatus(disk, host) = "managed"
      BY <2>1 DEF Command
    <2>3. given \in Domains \cup {NoDomain, "unset"}
      BY SetupAssumption
    <2>4. domain \in Domains \cup {NoDomain}
      BY <1>1, <2>2, <2>3, ResolvedTyped
    <2> HIDE DEF domain
    <2>5. /\ d \in Disk /\ d.caddyfile = [disk.caddyfile EXCEPT !.domain = domain]
          /\ \A n \in Names : \/ d.conf[n].binds = InstalledListeners(host)
                              \/ d.conf[n].by = "none" \/ d.conf[n] = disk.conf[n]
      BY <1>1, <2>4, SyncedTyped
    <2> HIDE DEF d
    <2>6. QED
      BY <1>3, <2>2, <2>4, <2>5
  <1>5. CASE AddDirect
    <2>1. PICK n \in Names :
             LET domain == ResolveDomain("unset", disk, host)
             IN  Command(WithDirect(disk, host, n, domain), domain)
      BY <1>5 DEF AddDirect
    <2> DEFINE domain == ResolveDomain("unset", disk, host)
               d == WithDirect(disk, host, n, domain)
    <2>2. Command(d, domain) /\ domain # "error" /\ CaddyStatus(disk, host) = "managed"
      BY <2>1 DEF Command
    <2>3. domain \in Domains \cup {NoDomain}
      BY <1>1, <2>2, ResolvedTyped
    <2> HIDE DEF domain
    <2>4. /\ d \in Disk /\ d.caddyfile = [disk.caddyfile EXCEPT !.domain = domain]
          /\ \A m \in Names : \/ d.conf[m].binds = InstalledListeners(host)
                              \/ d.conf[m].by = "none" \/ d.conf[m] = disk.conf[m]
      BY <1>1, <2>3, DirectTyped
    <2> HIDE DEF d
    <2>5. QED
      BY <1>3, <2>2, <2>3, <2>4
  <1>6. QED
    BY <1>4, <1>5
-----------------------------------------------------------------------------
(* Types.                                                                  *)

Holders == {"free", "foreign", "caddy", "systemd"}

LEMMA SocketsUpdated ==
  ASSUME sockets \in Sockets, NEW f \in {4, 6}, NEW w \in Holders
  PROVE  LET new == [sockets EXCEPT !.of[f] = w]
         IN  /\ new \in Sockets /\ new.from = sockets.from
             /\ \A g \in {4, 6} : new.of[g] = IF g = f THEN w ELSE sockets.of[g]
  BY DEF Sockets, Holders

LEMMA SocketsMade ==
  ASSUME NEW from \in {"none", "old", "shipped"}, NEW of \in [{4, 6} -> Holders]
  PROVE  LET new == [from |-> from, of |-> of]
         IN  new \in Sockets /\ new.from = from /\ new.of = of
  BY DEF Sockets, Holders

LEMMA RunningTyped ==
  ASSUME NEW d \in Disk PROVE Running(d) \in {Down} \cup [up: {TRUE}, disk: Disk]
  BY DEF Running

LEMMA DoneUpdated ==
  ASSUME done \in [runs: 0 .. MaxRuns, others: 0 .. MaxOthers]
  PROVE  /\ done.runs < MaxRuns => [done EXCEPT !.runs = @ + 1] \in [runs: 0 .. MaxRuns, others: 0 .. MaxOthers]
         /\ done.others < MaxOthers => [done EXCEPT !.others = @ + 1] \in [runs: 0 .. MaxRuns, others: 0 .. MaxOthers]
  BY SetupAssumption

LEMMA HostUpdated ==
  ASSUME host \in Host, NEW v6 \in BOOLEAN
  PROVE  /\ LET new == [host EXCEPT !.v6 = v6]
            IN  new \in Host /\ new.v6 = v6 /\ new.unit = host.unit
         /\ LET new == [host EXCEPT !.unit = "shipped", !.dropin = FALSE]
            IN  new \in Host /\ new.v6 = host.v6 /\ new.unit = "shipped" /\ ~new.dropin
  BY DEF Host

\* What the script plans.
LEMMA ScriptPlan ==
  ASSUME TypeOK
  PROVE  /\ Plan \in Plans
         /\ Plan.untrusted = UntrustedIn(disk)
         /\ Plan.stale = TrustedIn(disk) \ Planned(Plan)
  <1>1. services \in [Names -> Sites \cup {"none"}] /\ disk \in Disk
    BY SetupAssumption DEF TypeOK, Sites
  <1>2. QED
    BY <1>1, PlanTyped DEF Plan

\* The types that a step of the script leaves alone.
LEMMA ScriptTyped ==
  ASSUME TypeOK, UNCHANGED <<host, services, sockets, runs, tunnel, switch, done>>,
         {disk', base'} \subseteq Disk, run' \in Run, torn' \in BOOLEAN,
         due' \subseteq Names \X (Domains \cup {"localhost"})
  PROVE  TypeOK'
  BY DEF TypeOK

\* How a write changes the files.
LEMMA WrittenOne ==
  ASSUME TypeOK, NEW n \in run.left, run.left \in SUBSET Names,
         run' = [run EXCEPT !.left = @ \ {n}],
         \/ run.at \in {"move", "remove"} /\ Put(n, NoEntry)
         \/ /\ run.at = "write" /\ run.plan.sites[n] \in Sites
            /\ Put(n, Rendered(run.plan.sites[n], run.domain, run.layout))
  PROVE  /\ run' \in Run /\ SameRun(run') /\ run'.at = run.at /\ run'.left = run.left \ {n}
         /\ disk' \in Disk /\ disk'.caddyfile = disk.caddyfile
         /\ \A m \in Names : disk'.conf[m] =
               IF m # n THEN disk.conf[m]
               ELSE IF run.at = "write" THEN Rendered(run.plan.sites[n], run.domain, run.layout)
               ELSE NoEntry
  <1>1. run \in Run /\ disk \in Disk /\ n \in Names
    BY DEF TypeOK
  <1>2. run' \in Run /\ SameRun(run') /\ run'.at = run.at /\ run'.left = run.left \ {n}
    BY <1>1, LeftRun
  <1>3. CASE run.at \in {"move", "remove"} /\ Put(n, NoEntry)
    BY <1>1, <1>2, <1>3, NoEntryTyped, DiskUpdated DEF Put
  <1>4. CASE /\ run.at = "write" /\ run.plan.sites[n] \in Sites
             /\ Put(n, Rendered(run.plan.sites[n], run.domain, run.layout))
    <2>1. run.domain \in Domains \cup {NoDomain} /\ run.layout \in Binds
      BY <1>1 DEF Run, Binds
    <2>2. Rendered(run.plan.sites[n], run.domain, run.layout) \in Entry
      BY <1>4, <2>1, RenderedTyped
    <2>3. QED
      BY <1>1, <1>2, <1>4, <2>2, DiskUpdated DEF Put
  <1>5. QED
    BY <1>3, <1>4

-----------------------------------------------------------------------------
(* The kinds of steps.                                                     *)

\* The files that are left are of the kind that is being changed.
LeftPlanned ==
    /\ run.at = "move" => run.left \subseteq run.plan.untrusted
    /\ run.at = "write" => run.left \subseteq Planned(run.plan)
    /\ run.at = "remove" => run.left \subseteq run.plan.stale
    /\ run.at = "caddyfile" => run.left = {}

\* The steps of _write_config: one file, or on to the next kind of file.
WroteOne(n) ==
    /\ run.at \in {"move", "write", "remove"} /\ n \in run.left
    /\ run' \in Run /\ SameRun(run') /\ run'.at = run.at /\ run'.left = run.left \ {n}
    /\ disk' \in Disk /\ disk'.caddyfile = disk.caddyfile
    /\ \A m \in Names : disk'.conf[m] =
          IF m # n THEN disk.conf[m]
          ELSE IF run.at = "write" THEN Rendered(run.plan.sites[n], run.domain, run.layout)
          ELSE NoEntry

WentOn(from, to, names) ==
    /\ run.at = from /\ run.left = {}
    /\ run' \in Run /\ SameRun(run') /\ run'.at = to /\ run'.left = names
    /\ disk' = disk

WroteCaddyfile ==
    /\ run.at = "caddyfile"
    /\ run' \in Run /\ SameRun(run') /\ run'.at = "check" /\ run'.left = {}
    /\ disk' \in Disk /\ disk'.conf = disk.conf
    /\ disk'.caddyfile = Generated(run.domain, run.layout)

LEMMA WriteSteps ==
  ASSUME TypeOK, LeftPlanned, WriteConfig
  PROVE  /\ \/ \E n \in Names : WroteOne(n)
            \/ WentOn("move", "write", Planned(run.plan))
            \/ WentOn("write", "remove", run.plan.stale)
            \/ WentOn("remove", "caddyfile", {})
            \/ WroteCaddyfile
         /\ UNCHANGED <<torn, due, base>> /\ Outside
  <1>1. run \in Run /\ disk \in Disk
    BY DEF TypeOK
  <1>2. run.left \in SUBSET Names /\ run.plan \in Plans
    BY <1>1 DEF Run, Plans
  <1>3. Planned(run.plan) \in SUBSET Names /\ run.plan.stale \in SUBSET Names
        /\ \A n \in Planned(run.plan) : run.plan.sites[n] \in Sites
    BY <1>2 DEF Planned, Plans
  <1>4. UNCHANGED <<torn, due, base>> /\ Outside
    BY DEF WriteConfig
  <1>5. {"write", "remove", "caddyfile", "check"} \subseteq Stages
    BY DEF Stages, Writing
  <1>6. CASE WriteOne
    <2>1. PICK n \in run.left :
             /\ run' = [run EXCEPT !.left = @ \ {n}]
             /\ CASE run.at = "move" -> Put(n, NoEntry)
                  [] run.at = "write" -> Put(n, Rendered(run.plan.sites[n], run.domain, run.layout))
                  [] run.at = "remove" -> Put(n, NoEntry)
      BY <1>6 DEF WriteOne
    <2>2. run.at \in {"move", "write", "remove"}
      BY <2>1 DEF WriteConfig, LeftPlanned
    <2>3. \/ run.at \in {"move", "remove"} /\ Put(n, NoEntry)
          \/ run.at = "write" /\ Put(n, Rendered(run.plan.sites[n], run.domain, run.layout))
      BY <2>1, <2>2
    <2>4. run.at = "write" => run.plan.sites[n] \in Sites
      BY <1>3 DEF LeftPlanned
    <2>5. WroteOne(n)
      BY <1>2, <2>1, <2>2, <2>3, <2>4, WrittenOne DEF WroteOne
    <2>6. QED
      BY <1>2, <1>4, <2>5
  <1>7. CASE run.left = {} /\ run.at = "move" /\ run' = Goes("write", Planned(run.plan)) /\ UNCHANGED disk
    <2>1. WentOn("move", "write", Planned(run.plan))
      BY <1>1, <1>3, <1>5, <1>7, GoneRun DEF WentOn
    <2>2. QED
      BY <1>4, <2>1
  <1>8. CASE run.left = {} /\ run.at = "write" /\ run' = Goes("remove", run.plan.stale) /\ UNCHANGED disk
    <2>1. WentOn("write", "remove", run.plan.stale)
      BY <1>1, <1>3, <1>5, <1>8, GoneRun DEF WentOn
    <2>2. QED
      BY <1>4, <2>1
  <1>9. CASE run.left = {} /\ run.at = "remove" /\ run' = Goes("caddyfile", {}) /\ UNCHANGED disk
    <2>1. WentOn("remove", "caddyfile", {})
      BY <1>1, <1>5, <1>9, GoneRun DEF WentOn
    <2>2. QED
      BY <1>4, <2>1
  <1>10. CASE /\ run.at = "caddyfile" /\ run' = Goes("check", {})
              /\ disk' = [disk EXCEPT !.caddyfile = Generated(run.domain, run.layout)]
    <2>1. run.domain \in Domains \cup {NoDomain} /\ run.layout \in Binds
      BY <1>1 DEF Run, Binds
    <2>2. Generated(run.domain, run.layout) \in Caddyfile
      BY <2>1, GeneratedTyped
    <2>3. WroteCaddyfile
      BY <1>1, <1>5, <1>10, <2>2, GoneRun, CaddyfileUpdated DEF WroteCaddyfile
    <2>4. QED
      BY <1>4, <2>3
  <1>11. QED
    BY <1>6, <1>7, <1>8, <1>9, <1>10 DEF WriteConfig

\* How a run ends.
EndsAs(out) == run' \in Run /\ run'.at = "idle" /\ run'.out = out /\ run'.layout = run.layout
               /\ run'.crossed = run.crossed

LEMMA EndedAs ==
  ASSUME TypeOK, NEW out \in Outs, run' = Ended(out)
  PROVE  EndsAs(out)
  BY EndedRun DEF EndsAs, TypeOK

LEMMA FinishSteps ==
  ASSUME TypeOK, Finish
  PROVE  EndsAs("ok") /\ torn' = run.crossed /\ due' = (IF torn THEN ServedToday(disk) ELSE due)
  BY EndedAs DEF Finish, Outs

\* The kinds of steps of the script, by what they do to the files.
RefusedEnd ==
    /\ run.at \in {"plan", "stage", "keep"} /\ EndsAs("refused")
    /\ UNCHANGED <<disk, torn, due, base>>

PutBackEnd ==
    /\ run.at \in Writing \cup {"units", "switch"} /\ EndsAs("put back")
    /\ disk' = base /\ UNCHANGED <<torn, due, base>>

TornEnd ==
    /\ run.at \in Writing \cup {"units", "switch"} /\ EndsAs("torn")
    /\ torn' = TRUE /\ UNCHANGED <<disk, due, base>>

LateEnd ==
    /\ run.at \in {"units", "switch", "waiting"} /\ EndsAs("late")
    /\ UNCHANGED <<disk, torn, due, base>>

GoodEnd ==
    /\ run.at \in {"switch", "waiting"} /\ EndsAs("ok")
    /\ torn' = run.crossed /\ due' = (IF torn THEN ServedToday(disk) ELSE due)
    /\ UNCHANGED <<disk, base>>

RunEnds == RefusedEnd \/ PutBackEnd \/ TornEnd \/ LateEnd \/ GoodEnd

Stepped(from, to) ==
    /\ run.at = from /\ run' \in Run /\ SameRun(run') /\ run'.at = to
    /\ base' = (IF from = "keep" THEN disk ELSE base)
    /\ UNCHANGED <<disk, torn, due>>

RunSteps ==
    \/ Stepped("plan", "stage") \/ Stepped("stage", "keep") \/ Stepped("keep", "apply")
    \/ Stepped("check", "binary") \/ Stepped("binary", "units")
    \/ Stepped("units", "switch") \/ Stepped("switch", "waiting")

Planning ==
    /\ run.at = "apply" /\ ~Unasked
    /\ run' \in Run /\ run'.at = "move" /\ run'.plan = Plan /\ run'.left = Plan.untrusted
    /\ run'.out = run.out /\ run'.domain = run.domain /\ run'.given = run.given
    /\ run'.layout = run.layout /\ run'.overtaken = run.overtaken /\ run'.crossed = run.crossed
    /\ due' = (IF run.allowShrink THEN due \cap ServedAfter(Plan, run.domain) ELSE due)
    /\ UNCHANGED <<disk, torn, base>>

WriteStep ==
    /\ \/ \E n \in Names : WroteOne(n)
       \/ WentOn("move", "write", Planned(run.plan))
       \/ WentOn("write", "remove", run.plan.stale)
       \/ WentOn("remove", "caddyfile", {})
       \/ WroteCaddyfile
    /\ UNCHANGED <<torn, due, base>>

Begun ==
    /\ run.at = "idle" /\ run' \in Run
    /\ \/ run'.at = "plan" /\ run'.out = "none"
       \/ run'.at = "idle" /\ run'.out = "refused"
    /\ run'.layout = PlannedListeners(host) /\ ~run'.crossed /\ ~run'.overtaken
    /\ run'.at = "plan" /\ ~run'.given => run'.domain = ResolveDomain("unset", disk, host)
    /\ run'.at = "plan" => run'.domain # "error"
    /\ base' = disk /\ UNCHANGED <<disk, torn, due>>

LEMMA StopEnds ==
  ASSUME TypeOK, Stop PROVE RunEnds
  <1>1. /\ run' = Ended("refused") => EndsAs("refused")
        /\ run' = Ended("put back") => EndsAs("put back")
        /\ run' = Ended("torn") => EndsAs("torn")
        /\ run' = Ended("late") => EndsAs("late")
    BY EndedAs DEF Outs
  <1>2. QED
    BY <1>1 DEF Stop, PutBack, LeaveTorn, RunEnds, RefusedEnd, PutBackEnd, TornEnd, LateEnd

LEMMA BeginBegins ==
  ASSUME TypeOK, NEW given \in Gifts, NEW allowShrink \in BOOLEAN, NEW newBinary \in BOOLEAN,
         Begin(given, allowShrink, newBinary)
  PROVE  Begun
  <1> DEFINE domain == ResolveDomain(given, disk, host)
             at == IF domain = "error" THEN "idle" ELSE "plan"
             out == IF domain = "error" THEN "refused" ELSE "none"
             known == IF domain = "error" THEN NoDomain ELSE domain
             told == given # "unset"
             layout == PlannedListeners(host)
  <1>1. run.at = "idle" /\ base' = disk /\ UNCHANGED <<disk, torn, due>>
    BY DEF Begin
  <1>2. run' = Started(at, out, known, told, layout, allowShrink, newBinary)
    BY Zenon DEF Begin, Started
  <1>3. disk \in Disk /\ host \in Host /\ given \in Domains \cup {NoDomain, "unset"}
    BY SetupAssumption DEF TypeOK
  <1>4. domain \in Domains \cup {NoDomain, "error"}
    BY <1>3, ResolvedTyped
  <1>5. layout \in {"ipv4", "dual"}
    BY <1>3, ListenTyped
  <1>6. ~told => domain = ResolveDomain("unset", disk, host)
    OBVIOUS
  <1> HIDE DEF domain
  <1>7. at \in Stages /\ out \in Outs /\ known \in Domains \cup {NoDomain} /\ told \in BOOLEAN
    BY <1>4 DEF Stages, Outs
  <1>8. at = "plan" => known = domain /\ domain # "error"
    OBVIOUS
  <1>9. \/ at = "plan" /\ out = "none"
        \/ at = "idle" /\ out = "refused"
    OBVIOUS
  <1> HIDE DEF at, out, known, told, layout
  <1>10. /\ run' \in Run /\ run'.at = at /\ run'.out = out /\ run'.domain = known /\ run'.given = told
         /\ run'.layout = layout /\ ~run'.crossed /\ ~run'.overtaken
    BY <1>2, <1>5, <1>7, BegunRun
  <1>11. layout = PlannedListeners(host)
    BY DEF layout
  <1>12. QED
    BY <1>1, <1>6, <1>8, <1>9, <1>10, <1>11 DEF Begun

LEMMA LookEnds ==
  ASSUME TypeOK, Look PROVE RunEnds \/ RunSteps
  <1>1. run \in Run /\ run.at \in {"plan", "stage"} /\ UNCHANGED <<disk, torn, due, base>>
    BY DEF Look, TypeOK
  <1>2. CASE Unasked
    <2>1. EndsAs("refused")
      BY <1>2, EndedAs DEF Look, Outs
    <2>2. QED
      BY <1>1, <2>1 DEF RunEnds, RefusedEnd
  <1>3. CASE ~Unasked
    <2>1. /\ run.at = "plan" => run' = [run EXCEPT !.at = "stage"]
          /\ run.at = "stage" => run' = [run EXCEPT !.at = "keep"]
      BY <1>1, <1>3 DEF Look, Run
    <2>2. {"stage", "keep"} \subseteq Stages
      BY DEF Stages
    <2>3. QED
      BY <1>1, <2>1, <2>2, StagedRun DEF RunSteps, Stepped
  <1>4. QED
    BY <1>2, <1>3

LEMMA ApplyPlans ==
  ASSUME TypeOK, Apply PROVE RunEnds \/ Planning
  <1>1. run \in Run /\ run.at = "apply" /\ UNCHANGED <<torn, base>>
    BY DEF Apply, TypeOK
  <1>2. CASE PutBack /\ UNCHANGED due
    <2>1. EndsAs("put back")
      BY <1>2, EndedAs DEF PutBack, Outs
    <2>2. QED
      BY <1>1, <1>2, <2>1 DEF PutBack, RunEnds, PutBackEnd, Writing
  <1>3. CASE /\ ~Unasked /\ UNCHANGED disk
             /\ run' = [run EXCEPT !.at = "move", !.plan = Plan, !.left = Plan.untrusted]
             /\ due' = IF run.allowShrink THEN due \cap ServedAfter(Plan, run.domain) ELSE due
    <2>1. Plan \in Plans
      BY ScriptPlan
    <2>2. QED
      BY <1>1, <1>3, <2>1, PlannedRun DEF Planning
  <1>4. QED
    BY <1>2, <1>3 DEF Apply

LEMMA StagesGo ==
  ASSUME TypeOK, KeepPrevious \/ Install \/ Units \/ RunCutover PROVE RunSteps
  <1>1. run \in Run
    BY DEF TypeOK
  <1>2. {"apply", "binary", "units", "switch", "waiting"} \subseteq Stages
    BY DEF Stages, Writing
  <1>3. CASE KeepPrevious
    BY <1>1, <1>2, <1>3, StagedRun DEF KeepPrevious, RunSteps, Stepped
  <1>4. CASE Install
    <2>1. /\ run.at = "check" => run' = [run EXCEPT !.at = "binary"]
          /\ run.at = "binary" => run' = [run EXCEPT !.at = "units"]
      BY <1>1, <1>4 DEF Install, Run
    <2>2. QED
      BY <1>1, <1>2, <1>4, <2>1, StagedRun DEF Install, RunSteps, Stepped
  <1>5. CASE Units
    <2>1. PICK other \in BOOLEAN :
             run' = [run EXCEPT !.at = "switch", !.unitChanged = other \/ host.unit # "shipped",
                                !.socketChanged = host.unit # "shipped" \/ host.dropin]
      BY <1>5 DEF Units
    <2>2. host.dropin \in BOOLEAN
      BY DEF TypeOK, Host
    <2> DEFINE b == other \/ host.unit # "shipped"
               c == host.unit # "shipped" \/ host.dropin
    <2>3. b \in BOOLEAN /\ c \in BOOLEAN
      BY <2>2
    <2>4. run' = [run EXCEPT !.at = "switch", !.unitChanged = b, !.socketChanged = c]
      BY <2>1
    <2> HIDE DEF b, c
    <2>5. run' \in Run /\ SameRun(run') /\ run'.at = "switch"
      BY <1>1, <2>3, <2>4, UnitsRun
    <2>6. Stepped("units", "switch")
      BY <1>5, <2>5 DEF Units, Stepped
    <2>7. QED
      BY <2>6 DEF RunSteps
  <1>6. CASE RunCutover
    BY <1>1, <1>2, <1>6, StagedRun DEF RunCutover, RunSteps, Stepped
  <1>7. QED
    BY <1>3, <1>4, <1>5, <1>6

LEMMA SwitchEnds ==
  ASSUME TypeOK, Restart \/ Reload \/ Switched PROVE RunEnds
  <1>1. CASE Restart
    BY <1>1, EndedAs, FinishSteps DEF Restart, RunEnds, LateEnd, GoodEnd, Outs
  <1>2. CASE Reload
    <2>1. run.at = "switch" /\ UNCHANGED base
      BY <1>2 DEF Reload
    <2>2. CASE Finish /\ UNCHANGED disk
      BY <2>1, <2>2, FinishSteps DEF RunEnds, GoodEnd
    <2>3. CASE PutBack /\ UNCHANGED <<torn, due>>
      BY <2>1, <2>3, EndedAs DEF PutBack, RunEnds, PutBackEnd, Outs
    <2>4. CASE LeaveTorn /\ UNCHANGED due
      BY <2>1, <2>4, EndedAs DEF LeaveTorn, RunEnds, TornEnd, Outs
    <2>5. QED
      BY <1>2, <2>2, <2>3, <2>4 DEF Reload
  <1>3. CASE Switched
    BY <1>3, EndedAs, FinishSteps DEF Switched, RunEnds, LateEnd, GoodEnd, Outs
  <1>4. QED
    BY <1>1, <1>2, <1>3

LEMMA ScriptKinds ==
  ASSUME TypeOK, LeftPlanned, Script
  PROVE  Begun \/ RunEnds \/ RunSteps \/ Planning \/ WriteStep
  BY StopEnds, BeginBegins, LookEnds, ApplyPlans, StagesGo, SwitchEnds, WriteSteps DEF Script, WriteStep


-----------------------------------------------------------------------------
(* The kinds of steps of the others.                                       *)

CommandStep ==
    \E d \in Disk, domain \in Domains \cup {NoDomain} :
       /\ Command(d, domain)
       /\ d.caddyfile = [disk.caddyfile EXCEPT !.domain = domain]
       /\ Uniform(disk) => Uniform(d)

Rebooted ==
    /\ run' = Idle /\ torn' = (torn \/ run.at \in Writing)
    /\ UNCHANGED <<disk, due, base>>

Quiet == UNCHANGED <<disk, run, torn, due, base>>

FileStep == Begun \/ RunEnds \/ RunSteps \/ Planning \/ WriteStep \/ CommandStep \/ Rebooted \/ Quiet

LEMMA Kinds ==
  ASSUME TypeOK, LeftPlanned, [Next]_vars
  PROVE  FileStep
  <1>1. CASE Script
    BY <1>1, ScriptKinds DEF FileStep
  <1>2. CASE Switch
    <2>1. Quiet
      BY <1>2 DEF Switch, StopTunnel, StopSocket, StartSocket, StartUnit, Collected, Switching, Quiet
    <2>2. QED
      BY <2>1 DEF FileStep
  <1>3. CASE CaddySync \/ AddDirect
    BY <1>3, Commanded DEF FileStep, CommandStep
  <1>4. CASE Edit \/ CaddyRestarts \/ Foreign
    <2>1. Quiet
      BY <1>4 DEF Edit, CaddyRestarts, Foreign, Quiet
    <2>2. QED
      BY <2>1 DEF FileStep
  <1>5. CASE Reboot
    <2>1. Rebooted
      BY <1>5 DEF Reboot, Rebooted
    <2>2. QED
      BY <2>1 DEF FileStep
  <1>6. CASE UNCHANGED vars
    <2>1. Quiet
      BY <1>6 DEF vars, Quiet
    <2>2. QED
      BY <2>1 DEF FileStep
  <1>7. QED
    BY <1>1, <1>2, <1>3, <1>4, <1>5, <1>6 DEF Next

\* What a command leaves.
Crossing == run.at \in Writing \cup {"units", "switch", "waiting"}

LEMMA CommandLeaves ==
  ASSUME TypeOK, NEW d \in Disk, NEW domain \in Domains \cup {NoDomain}, Command(d, domain)
  PROVE  /\ CaddyStatus(disk, host) = "managed"
         /\ disk' = d /\ due' = ServedToday(d) /\ torn' = (torn \/ Crossing)
         /\ base' = (IF Crossing THEN base ELSE d)
         /\ run' \in Run /\ run'.out = "none" /\ run'.crossed = (run.crossed \/ Crossing)
         /\ run'.overtaken = (run.overtaken \/ (run.at # "idle" /\ domain # disk.caddyfile.domain))
         /\ run'.at = run.at /\ run'.domain = run.domain /\ run'.given = run.given
         /\ run'.layout = run.layout /\ run'.plan = run.plan /\ run'.left = run.left
  <1> DEFINE b == run.crossed \/ Crossing
             c == run.overtaken \/ (run.at # "idle" /\ domain # disk.caddyfile.domain)
  <1>1. run \in Run
    BY DEF TypeOK
  <1>2. run.crossed \in BOOLEAN /\ run.overtaken \in BOOLEAN
    BY <1>1 DEF Run
  <1>3. b \in BOOLEAN /\ c \in BOOLEAN
    BY <1>2 DEF Crossing
  <1>4. run' = CrossedBy(b, c)
    BY Zenon DEF Command, Crossing, CrossedBy
  <1>5. /\ CaddyStatus(disk, host) = "managed"
        /\ disk' = d /\ due' = ServedToday(d) /\ torn' = (torn \/ Crossing)
        /\ base' = (IF Crossing THEN base ELSE d)
    BY Zenon DEF Command, Crossing
  <1> HIDE DEF b, c
  <1>6. /\ run' \in Run /\ run'.out = "none" /\ run'.crossed = b /\ run'.overtaken = c
        /\ run'.at = run.at /\ run'.domain = run.domain /\ run'.given = run.given
        /\ run'.layout = run.layout /\ run'.plan = run.plan /\ run'.left = run.left
    BY <1>1, <1>3, <1>4, CrossedRun
  <1>7. QED
    BY <1>5, <1>6, Zenon DEF b, c

-----------------------------------------------------------------------------
(* Types are kept.                                                         *)

FilesTyped ==
    /\ {disk, base} \subseteq Disk /\ run \in Run /\ torn \in BOOLEAN
    /\ due \subseteq Names \X (Domains \cup {"localhost"})

Switches == {"none", "start", "stopped", "stopped, tunnel", "free", "free, tunnel", "held", "ok", "failed"}
Runs == {Down} \cup [up: {TRUE}, disk: Disk]

HostTyped ==
    /\ host \in Host /\ services \in Configurations /\ sockets \in Sockets
    /\ runs \in Runs /\ tunnel \in Tunnel /\ switch \in Switches
    /\ done \in [runs: 0 .. MaxRuns, others: 0 .. MaxOthers]

LEMMA TypeParts == TypeOK <=> FilesTyped /\ HostTyped
  BY DEF TypeOK, FilesTyped, HostTyped, Switches, Runs

LEMMA FilesTypeKept ==
  ASSUME TypeOK, FileStep
  PROVE  FilesTyped'
  <1>1. FilesTyped
    BY TypeParts
  <1>2. run.crossed \in BOOLEAN
    BY <1>1 DEF FilesTyped, Run
  <1>3. ServedToday(disk) \subseteq Names \X (Domains \cup {"localhost"})
    BY <1>1, ServedTyped DEF FilesTyped
  <1>4. CASE Begun
    BY <1>1, <1>4 DEF Begun, FilesTyped
  <1>5. CASE RunEnds
    BY <1>1, <1>2, <1>3, <1>5
       DEF RunEnds, RefusedEnd, PutBackEnd, TornEnd, LateEnd, GoodEnd, EndsAs, FilesTyped
  <1>6. CASE RunSteps
    BY <1>1, <1>6 DEF RunSteps, Stepped, FilesTyped
  <1>7. CASE Planning
    BY <1>1, <1>7 DEF Planning, FilesTyped
  <1>8. CASE WriteStep
    BY <1>1, <1>8 DEF WriteStep, WroteOne, WentOn, WroteCaddyfile, FilesTyped
  <1>9. CASE CommandStep
    BY <1>1, <1>9, CommandLeaves, ServedTyped DEF CommandStep, Crossing, FilesTyped
  <1>10. CASE Rebooted
    BY <1>1, <1>10, IdleRun DEF Rebooted, FilesTyped
  <1>11. CASE Quiet
    BY <1>1, <1>11 DEF Quiet, FilesTyped
  <1>12. QED
    BY <1>4, <1>5, <1>6, <1>7, <1>8, <1>9, <1>10, <1>11 DEF FileStep

LEMMA BootTyped ==
  ASSUME NEW h, NEW from \in {"none", "old", "shipped"}, Boot(h, from)
  PROVE  /\ sockets' \in Sockets /\ sockets'.from = from
         /\ \A f \in {4, 6} : sockets'.of[f] = IF from # "none" /\ f \in Families(SystemdListen(h))
                                               THEN "systemd" ELSE "free"
  <1> DEFINE of == [f \in {4, 6} |-> IF from # "none" /\ f \in Families(SystemdListen(h)) THEN "systemd"
                                     ELSE "free"]
  <1>1. of \in [{4, 6} -> Holders]
    BY DEF Holders
  <1>2. sockets' = [from |-> from, of |-> of]
    BY DEF Boot
  <1>3. \A f \in {4, 6} : of[f] = IF from # "none" /\ f \in Families(SystemdListen(h)) THEN "systemd" ELSE "free"
    OBVIOUS
  <1> HIDE DEF of
  <1>4. QED
    BY <1>1, <1>2, <1>3, SocketsMade

\* How the switch and the others change the sockets.
StoppedSockets ==
    /\ sockets' \in Sockets /\ sockets'.from = "none"
    /\ \A f \in {4, 6} : sockets'.of[f] = IF sockets.of[f] = "foreign" THEN "foreign" ELSE "free"

StartedSockets ==
    /\ sockets' \in Sockets /\ sockets'.from = "shipped"
    /\ \A f \in {4, 6} : sockets'.of[f] = IF f \in Passed THEN "systemd" ELSE sockets.of[f]

OneSocket(f, who) ==
    /\ sockets' \in Sockets /\ sockets'.from = sockets.from
    /\ \A g \in {4, 6} : sockets'.of[g] = IF g = f THEN who ELSE sockets.of[g]

LEMMA StopSocketStops ==
  ASSUME TypeOK, StopSocket PROVE StoppedSockets
  <1> DEFINE of == [f \in {4, 6} |-> IF sockets.of[f] = "foreign" THEN "foreign" ELSE "free"]
  <1>1. of \in [{4, 6} -> Holders]
    BY DEF Holders
  <1>2. sockets' = [from |-> "none", of |-> of]
    BY DEF StopSocket
  <1>3. \A f \in {4, 6} : of[f] = IF sockets.of[f] = "foreign" THEN "foreign" ELSE "free"
    OBVIOUS
  <1> HIDE DEF of
  <1>4. QED
    BY <1>1, <1>2, <1>3, SocketsMade DEF StoppedSockets

LEMMA StartSocketStarts ==
  ASSUME TypeOK, StartSocket
  PROVE  \/ StartedSockets /\ switch' = "held" /\ \A f \in Passed : sockets.of[f] = "free"
         \/ UNCHANGED sockets /\ switch' = "failed" /\ \E f \in Passed : sockets.of[f] # "free"
  <1> DEFINE of == [f \in {4, 6} |-> IF f \in Passed THEN "systemd" ELSE sockets.of[f]]
  <1>1. sockets \in Sockets
    BY DEF TypeOK
  <1>2. \A f \in {4, 6} : sockets.of[f] \in Holders
    BY <1>1 DEF Sockets, Holders
  <1>3. of \in [{4, 6} -> Holders]
    BY <1>2 DEF Holders
  <1>4. \A f \in {4, 6} : of[f] = IF f \in Passed THEN "systemd" ELSE sockets.of[f]
    OBVIOUS
  <1>5. \/ /\ \A f \in Passed : sockets.of[f] = "free"
           /\ sockets' = [from |-> "shipped", of |-> of] /\ switch' = "held"
        \/ UNCHANGED sockets /\ switch' = "failed" /\ \E f \in Passed : sockets.of[f] # "free"
    BY Zenon DEF StartSocket
  <1> HIDE DEF of
  <1>6. QED
    BY <1>3, <1>4, <1>5, SocketsMade DEF StartedSockets

LEMMA OneSocketChanges ==
  ASSUME TypeOK, CaddyRestarts \/ Foreign
  PROVE  \/ UNCHANGED sockets
         \/ \E f \in {4, 6}, who \in {"free", "caddy", "foreign"} :
               /\ OneSocket(f, who)
               /\ \/ CaddyRestarts /\ sockets.from = "none"
                  \/ Foreign /\ who # "caddy" /\ sockets.of[f] \in {"free", "foreign"}
  <1>1. sockets \in Sockets /\ {"free", "caddy", "foreign"} \subseteq Holders
    BY DEF TypeOK, Holders
  <1>2. ASSUME NEW f \in {4, 6}, NEW who \in {"free", "caddy", "foreign"}, sockets' = [sockets EXCEPT !.of[f] = who]
        PROVE  OneSocket(f, who)
    BY <1>1, <1>2, SocketsUpdated DEF OneSocket
  <1>3. CASE CaddyRestarts
    <2>1. \/ UNCHANGED sockets
          \/ sockets.from = "none" /\ \E who \in {"free", "caddy"} : sockets' = [sockets EXCEPT !.of[4] = who]
      BY <1>3 DEF CaddyRestarts
    <2>2. QED
      BY <1>2, <1>3, <2>1
  <1>4. CASE Foreign
    <2>1. PICK f \in {4, 6} : \/ sockets.of[f] = "free" /\ sockets' = [sockets EXCEPT !.of[f] = "foreign"]
                              \/ sockets.of[f] = "foreign" /\ sockets' = [sockets EXCEPT !.of[f] = "free"]
      BY <1>4 DEF Foreign
    <2>2. QED
      BY <1>2, <1>4, <2>1
  <1>5. QED
    BY <1>3, <1>4

LEMMA HostTypeKept ==
  ASSUME TypeOK, FilesTyped', [Next]_vars
  PROVE  HostTyped'
  <1>1. HostTyped /\ disk \in Disk /\ disk' \in Disk /\ base \in Disk
    BY TypeParts DEF FilesTyped
  <1>2. /\ host \in Host /\ services \in Configurations /\ sockets \in Sockets
        /\ runs \in Runs /\ tunnel \in Tunnel /\ switch \in Switches
        /\ done \in [runs: 0 .. MaxRuns, others: 0 .. MaxOthers]
    BY <1>1 DEF HostTyped
  <1>3. /\ \A d \in Disk : Running(d) \in Runs
        /\ Down \in Runs
    BY RunningTyped DEF Runs
  <1>4. CASE Look \/ KeepPrevious \/ Apply \/ WriteConfig \/ Install \/ Stop
    BY <1>1, <1>4 DEF Look, KeepPrevious, Apply, WriteConfig, Install, Stop, Outside, HostTyped
  <1>5. ASSUME NEW given \in Gifts, NEW allowShrink \in BOOLEAN, NEW newBinary \in BOOLEAN,
               Begin(given, allowShrink, newBinary)
        PROVE  HostTyped'
    <2>1. done.runs < MaxRuns /\ done' = [done EXCEPT !.runs = @ + 1]
          /\ UNCHANGED <<host, services, sockets, runs, tunnel, switch>>
      BY <1>5, Zenon DEF Begin
    <2>2. done' \in [runs: 0 .. MaxRuns, others: 0 .. MaxOthers]
      BY <1>2, <2>1, DoneUpdated
    <2>3. QED
      BY <1>2, <2>1, <2>2 DEF HostTyped
  <1>6. CASE Units
    <2>1. host' \in Host
      BY <1>2, <1>6, HostUpdated DEF Units
    <2>2. QED
      BY <1>2, <1>6, <2>1 DEF Units, HostTyped
  <1>7. CASE RunCutover \/ Switched
    BY <1>2, <1>7 DEF RunCutover, Switched, HostTyped, Switches
  <1>8. CASE Restart
    BY <1>1, <1>2, <1>3, <1>8 DEF Restart, HostTyped
  <1>9. CASE Reload
    BY <1>1, <1>2, <1>3, <1>9 DEF Reload, HostTyped
  <1>10. CASE StopTunnel
    BY <1>2, <1>10 DEF StopTunnel, Switching, HostTyped, Switches, Tunnel
  <1>11. CASE StopSocket
    BY <1>2, <1>3, <1>11, StopSocketStops DEF StopSocket, StoppedSockets, Switching, HostTyped, Switches
  <1>12. CASE StartSocket
    <2>1. sockets' \in Sockets /\ switch' \in Switches
      BY <1>2, <1>12, StartSocketStarts DEF StartedSockets, Switches
    <2>2. tunnel' \in Tunnel /\ UNCHANGED <<host, services, runs, done>>
      BY <1>2, <1>12 DEF StartSocket, Switching, Tunnel
    <2>3. QED
      BY <1>2, <2>1, <2>2 DEF HostTyped
  <1>13. CASE StartUnit
    BY <1>1, <1>2, <1>3, <1>13 DEF StartUnit, Switching, HostTyped, Switches
  <1>14. CASE Collected
    BY <1>2, <1>14 DEF Collected, Switching, HostTyped, Switches
  <1>15. CASE CaddySync \/ AddDirect
    <2>1. PICK d \in Disk, domain \in Domains \cup {NoDomain} : Command(d, domain)
      BY <1>15, Commanded
    <2>2. done.others < MaxOthers /\ done' = [done EXCEPT !.others = @ + 1]
          /\ runs' = Running(d) /\ UNCHANGED <<host, services, sockets, tunnel, switch>>
      BY <2>1, Zenon DEF Command
    <2>3. done' \in [runs: 0 .. MaxRuns, others: 0 .. MaxOthers]
      BY <1>2, <2>2, DoneUpdated
    <2>4. QED
      BY <1>2, <1>3, <2>2, <2>3 DEF HostTyped
  <1>16. CASE Edit
    <2>1. done' \in [runs: 0 .. MaxRuns, others: 0 .. MaxOthers]
      BY <1>2, <1>16, DoneUpdated DEF Edit
    <2>2. QED
      BY <1>2, <1>16, <2>1 DEF Edit, HostTyped
  <1>17. CASE CaddyRestarts
    <2>1. sockets' \in Sockets
      BY <1>2, <1>17, OneSocketChanges DEF OneSocket
    <2>2. runs' \in Runs /\ UNCHANGED <<host, services, tunnel, switch, done>>
      BY <1>1, <1>3, <1>17 DEF CaddyRestarts
    <2>3. QED
      BY <1>2, <2>1, <2>2 DEF HostTyped
  <1>18. CASE Foreign
    <2>1. sockets' \in Sockets
      BY <1>2, <1>18, OneSocketChanges DEF OneSocket
    <2>2. QED
      BY <1>2, <1>18, <2>1 DEF Foreign, HostTyped
  <1>19. CASE Reboot
    <2>1. done' \in [runs: 0 .. MaxRuns, others: 0 .. MaxOthers]
      BY <1>2, <1>19, DoneUpdated DEF Reboot
    <2>2. host' \in Host
      BY <1>2, <1>19, HostUpdated DEF Reboot
    <2>3. host.unit \in {"none", "old", "shipped"}
      BY <1>2 DEF Host
    <2>4. sockets' \in Sockets
      BY <1>19, <2>3, BootTyped DEF Reboot
    <2>5. /\ runs' = Down /\ switch' = "none" /\ UNCHANGED services
          /\ tunnel' = IF tunnel = "none" THEN "none" ELSE "up"
      BY <1>19 DEF Reboot
    <2>6. QED
      BY <1>2, <1>3, <2>1, <2>2, <2>4, <2>5 DEF HostTyped, Switches, Tunnel
  <1>20. CASE UNCHANGED vars
    BY <1>2, <1>20 DEF vars, HostTyped
  <1>21. QED
    BY <1>4, <1>5, <1>6, <1>7, <1>8, <1>9, <1>10, <1>11, <1>12, <1>13, <1>14, <1>15, <1>16, <1>17, <1>18,
       <1>19, <1>20 DEF Next, Script, Switch

-----------------------------------------------------------------------------
(* The inductive invariant: the sockets, and the switch of them.           *)

Downed == {"stopped", "stopped, tunnel", "free", "free, tunnel"}
Freed == {"free", "free, tunnel"}

\* Who holds the sockets, and for which unit, at each stage of the switch.
SocketsInv ==
    /\ sockets.from # "none" => sockets.of[4] = "systemd"
    /\ sockets.of[6] = "systemd" => host.v6
    /\ sockets.from = "shipped" => host.unit = "shipped"
    /\ switch \in Downed => tunnel # "up"
    /\ switch \in Freed => sockets.from = "none" /\ \A f \in {4, 6} : sockets.of[f] \in {"free", "foreign"}
    /\ switch \in {"held", "ok"} => sockets.from = "shipped" /\ Held = Passed
    /\ switch = "failed" => sockets.from = "shipped" \/ tunnel # "up"

\* The switch runs after the units are in place, and beside no other stage of the script.
UnitsInv ==
    /\ run.at \notin {"idle", "waiting"} => switch = "none"
    /\ run.at \in {"switch", "waiting"} \/ switch # "none" => host.unit = "shipped" /\ ~host.dropin

LEMMA StageOfKinds ==
  ASSUME TypeOK, FileStep
  PROVE  \/ run'.at = run.at
         \/ run'.at = "idle"
         \/ run.at = "idle" /\ run'.at = "plan"
         \/ run.at \in Writing \cup {"plan", "stage", "keep"} /\ run'.at \notin {"idle", "switch", "waiting"}
         \/ run.at = "units" /\ run'.at = "switch"
         \/ run.at = "switch" /\ run'.at = "waiting"
  <1>1. CASE RunSteps
    BY <1>1 DEF RunSteps, Stepped, Writing
  <1>2. CASE WriteStep
    BY <1>2 DEF WriteStep, WroteOne, WentOn, WroteCaddyfile, Writing
  <1>3. CASE CommandStep
    BY <1>3, CommandLeaves DEF CommandStep
  <1>4. CASE Begun
    BY <1>4 DEF Begun
  <1>5. CASE RunEnds
    BY <1>5 DEF RunEnds, RefusedEnd, PutBackEnd, TornEnd, LateEnd, GoodEnd, EndsAs
  <1>6. CASE Planning
    BY <1>6 DEF Planning, Writing
  <1>7. CASE Rebooted
    BY <1>7, IdleRun DEF Rebooted
  <1>8. CASE Quiet
    BY <1>8 DEF Quiet
  <1>9. QED
    BY <1>1, <1>2, <1>3, <1>4, <1>5, <1>6, <1>7, <1>8 DEF FileStep

LEMMA ScriptStages ==
  ASSUME TypeOK, KeepPrevious \/ Look \/ Apply \/ WriteConfig \/ Install \/ Stop
  PROVE  UNCHANGED <<host, sockets, tunnel, switch, runs, services>>
         /\ (run.at \in {"switch", "waiting"} => run'.at = "idle")
  <1>1. UNCHANGED <<host, sockets, tunnel, switch, runs, services>>
    BY DEF KeepPrevious, Look, Apply, WriteConfig, Install, Stop, Outside
  <1>2. run.at \in {"switch", "waiting"} => Stop
    BY DEF KeepPrevious, Look, Apply, WriteConfig, Install
  <1>3. ASSUME Stop PROVE run'.at = "idle"
    BY <1>3, EndedRun DEF Stop, PutBack, LeaveTorn, TypeOK, Outs
  <1>4. QED
    BY <1>1, <1>2, <1>3

LEMMA UnitsKept ==
  ASSUME TypeOK, UnitsInv, FileStep, [Next]_vars
  PROVE  UnitsInv'
  <1>1. run \in Run /\ host \in Host
    BY DEF TypeOK
  <1>2. CASE UNCHANGED <<host, switch>> /\ (run'.at = run.at \/ run'.at = "idle")
    BY <1>2 DEF UnitsInv
  <1>3. CASE UNCHANGED <<host, switch>> /\ run.at \in Writing \cup {"plan", "stage", "keep"}
             /\ run'.at \notin {"idle", "switch", "waiting"}
    BY <1>3 DEF UnitsInv, Writing
  <1>4. CASE \E given \in Gifts, allowShrink, newBinary \in BOOLEAN : Begin(given, allowShrink, newBinary)
    <2>1. switch = "none" /\ switch' = "none"
      BY <1>4 DEF Begin
    <2>2. run'.at \in {"plan", "idle"}
      BY <1>4, BeginBegins DEF Begun
    <2>3. QED
      BY <2>1, <2>2 DEF UnitsInv
  <1>5. CASE Look \/ KeepPrevious \/ Apply \/ WriteConfig \/ Install \/ Stop
    <2>1. UNCHANGED <<host, switch>> /\ (run.at \in {"switch", "waiting"} => run'.at = "idle")
      BY <1>5, ScriptStages
    <2>2. run.at = "idle" => FALSE
      BY <1>5 DEF Look, KeepPrevious, Apply, WriteConfig, Install, Stop, Writing
    <2>3. run.at = "units" => run'.at = "idle"
      BY <1>5, EndedRun, <1>1 DEF Look, KeepPrevious, Apply, WriteConfig, Install, Stop, PutBack, LeaveTorn, Writing, Outs
    <2>4. QED
      BY <1>2, <1>3, <2>1, <2>2, <2>3, StageOfKinds
  <1>6. CASE Units
    <2>1. host'.unit = "shipped" /\ ~host'.dropin /\ run.at = "units" /\ switch' = switch
      BY <1>1, <1>6, HostUpdated DEF Units
    <2>2. QED
      BY <2>1 DEF UnitsInv
  <1>7. CASE RunCutover
    <2>1. run.at = "switch" /\ run'.at = "waiting" /\ UNCHANGED host
      BY <1>1, <1>7, StagedRun DEF RunCutover, Stages
    <2>2. QED
      BY <2>1 DEF UnitsInv
  <1>8. CASE Restart \/ Reload \/ Switched
    <2>1. run'.at = "idle" /\ UNCHANGED host /\ switch' \in {switch, "none"}
      BY <1>8, SwitchEnds DEF RunEnds, RefusedEnd, PutBackEnd, TornEnd, LateEnd, GoodEnd, EndsAs,
                              Restart, Reload, Switched
    <2>2. QED
      BY <2>1 DEF UnitsInv
  <1>9. CASE Switch
    <2>1. switch # "none" /\ UNCHANGED <<host, run>>
      BY <1>9 DEF Switch, StopTunnel, StopSocket, StartSocket, StartUnit, Collected, Switching
    <2>2. QED
      BY <2>1 DEF UnitsInv
  <1>10. CASE CaddySync \/ AddDirect
    <2>1. UNCHANGED <<host, switch>> /\ run'.at = run.at
      BY <1>10, Commanded, CommandLeaves, Zenon DEF Command
    <2>2. QED
      BY <1>2, <2>1
  <1>11. CASE Edit \/ CaddyRestarts \/ Foreign \/ UNCHANGED vars
    <2>1. UNCHANGED <<host, switch, run>>
      BY <1>11 DEF Edit, CaddyRestarts, Foreign, vars
    <2>2. QED
      BY <1>2, <2>1
  <1>12. CASE Reboot
    BY <1>12, IdleRun DEF Reboot, UnitsInv
  <1>13. QED
    BY <1>4, <1>5, <1>6, <1>7, <1>8, <1>9, <1>10, <1>11, <1>12 DEF Next, Script

LEMMA PassedFamilies ==
  ASSUME host \in Host
  PROVE  /\ 4 \in Passed /\ Passed \subseteq {4, 6} /\ (6 \in Passed => host.v6)
         /\ host.unit = "shipped" /\ ~host.dropin => Passed = Families(PlannedListeners(host))
  <1>1. Passed = Families(SystemdListen(host))
    BY DEF Passed
  <1>2. QED
    BY <1>1, ListenTyped, FourPassed

LEMMA SocketsAlone ==
  ASSUME SocketsInv, UNCHANGED <<sockets, tunnel>>, switch' \in {switch, "none"}, host' = host
  PROVE  SocketsInv'
  BY DEF SocketsInv, Downed, Freed, Held, Passed

LEMMA SocketsKept ==
  ASSUME TypeOK, SocketsInv, UnitsInv, [Next]_vars
  PROVE  SocketsInv'
  <1>1. host \in Host /\ sockets \in Sockets
    BY DEF TypeOK
  <1>2. CASE \/ Look \/ KeepPrevious \/ Apply \/ WriteConfig \/ Install \/ Stop \/ Restart \/ Reload \/ Switched
             \/ \E given \in Gifts, allowShrink, newBinary \in BOOLEAN : Begin(given, allowShrink, newBinary)
    <2>1. UNCHANGED <<sockets, tunnel, host>> /\ switch' \in {switch, "none"}
      BY <1>2 DEF Look, KeepPrevious, Apply, WriteConfig, Install, Stop, Restart, Reload, Switched, Begin, Outside
    <2>2. QED
      BY <2>1, SocketsAlone
  <1>3. CASE Units
    <2>1. host'.unit = "shipped" /\ host'.v6 = host.v6
      BY <1>1, <1>3, HostUpdated DEF Units
    <2>2. switch = "none" /\ UNCHANGED <<sockets, tunnel, switch>>
      BY <1>3 DEF Units, UnitsInv
    <2>3. QED
      BY <2>1, <2>2 DEF SocketsInv, Downed, Freed
  <1>4. CASE RunCutover
    BY <1>4 DEF RunCutover, SocketsInv, Downed, Freed, Held, Passed
  <1>5. CASE StopTunnel
    BY <1>5 DEF StopTunnel, Switching, SocketsInv, Downed, Freed, Held, Passed
  <1>6. CASE StopSocket
    <2>1. StoppedSockets
      BY <1>6, StopSocketStops
    <2>2. switch \in Downed /\ switch' \in Freed /\ UNCHANGED <<tunnel, host>>
      BY <1>6 DEF StopSocket, Tunnelled, Switching, Downed, Freed
    <2>3. QED
      BY <2>1, <2>2 DEF SocketsInv, StoppedSockets, Downed, Freed
  <1>7. CASE StartSocket
    <2>1. switch \in Freed /\ UNCHANGED host
      BY <1>7 DEF StartSocket, Switching, Freed
    <2>2. sockets.from = "none" /\ tunnel # "up" /\ \A f \in {4, 6} : sockets.of[f] \in {"free", "foreign"}
      BY <2>1 DEF SocketsInv, Downed, Freed
    <2>3. host.unit = "shipped"
      BY <2>1 DEF UnitsInv, Freed
    <2>4. 4 \in Passed /\ Passed \subseteq {4, 6} /\ (6 \in Passed => host.v6)
      BY <1>1, PassedFamilies
    <2>5. CASE StartedSockets /\ switch' = "held"
      <3>1. Held' = Passed /\ Passed' = Passed
        BY <2>1, <2>2, <2>4, <2>5 DEF StartedSockets, Held, Passed
      <3>2. QED
        BY <2>1, <2>2, <2>3, <2>4, <2>5, <3>1 DEF SocketsInv, StartedSockets, Downed, Freed
    <2>6. CASE UNCHANGED sockets /\ switch' = "failed" /\ \E f \in Passed : sockets.of[f] # "free"
      <3>1. ~StartTunnel
        BY <2>2, <2>4, <2>6 DEF StartTunnel
      <3>2. tunnel' = tunnel
        BY <1>7, <3>1 DEF StartSocket
      <3>3. QED
        BY <2>1, <2>2, <2>3, <2>6, <3>2 DEF SocketsInv, Downed, Freed
    <2>7. QED
      BY <1>7, <2>5, <2>6, StartSocketStarts
  <1>8. CASE StartUnit
    BY <1>8 DEF StartUnit, Switching, SocketsInv, Downed, Freed, Held, Passed
  <1>9. CASE Collected
    BY <1>9, SocketsAlone DEF Collected, Switching
  <1>10. CASE CaddySync \/ AddDirect
    <2>1. UNCHANGED <<host, switch, sockets, tunnel>>
      BY <1>10, Commanded, Zenon DEF Command
    <2>2. QED
      BY <2>1, SocketsAlone
  <1>11. CASE Edit \/ UNCHANGED vars
    BY <1>11, SocketsAlone DEF Edit, vars
  <1>12. CASE CaddyRestarts \/ Foreign
    <2>1. UNCHANGED <<host, switch, tunnel>> /\ (CaddyRestarts => switch = "none")
      BY <1>12 DEF CaddyRestarts, Foreign
    <2>2. CASE UNCHANGED sockets
      BY <2>1, <2>2, SocketsAlone
    <2>3. ASSUME NEW f \in {4, 6}, NEW who \in {"free", "caddy", "foreign"}, OneSocket(f, who),
                 \/ CaddyRestarts /\ sockets.from = "none"
                 \/ Foreign /\ who # "caddy" /\ sockets.of[f] \in {"free", "foreign"}
          PROVE  SocketsInv'
      <3>1. /\ sockets'.from = sockets.from
            /\ \A g \in {4, 6} : sockets'.of[g] = IF g = f THEN who ELSE sockets.of[g]
        BY <2>3 DEF OneSocket
      <3>2. switch \in {"held", "ok"} => Held' = Held
        BY <2>1, <2>3, <3>1 DEF Held
      <3>3. Passed' = Passed
        BY <2>1 DEF Passed
      <3>4. switch \in Freed => \A g \in {4, 6} : sockets'.of[g] \in {"free", "foreign"}
        BY <2>1, <2>3, <3>1 DEF SocketsInv, Freed
      <3>5. sockets'.from # "none" => sockets'.of[4] = "systemd"
        BY <2>3, <3>1 DEF SocketsInv
      <3>6. sockets'.of[6] = "systemd" => sockets.of[6] = "systemd"
        BY <3>1
      <3>7. QED
        BY <2>1, <3>1, <3>2, <3>3, <3>4, <3>5, <3>6 DEF SocketsInv
    <2>4. QED
      BY <1>12, <2>2, <2>3, OneSocketChanges
  <1>13. CASE Reboot
    <2>1. /\ host' \in Host /\ host'.unit = host.unit /\ switch' = "none" /\ Boot(host', host.unit)
      BY <1>1, <1>13, HostUpdated DEF Reboot
    <2>2. /\ sockets'.from = host.unit
          /\ \A f \in {4, 6} : sockets'.of[f] = IF host.unit # "none" /\ f \in Families(SystemdListen(host'))
                                                THEN "systemd" ELSE "free"
      BY <1>1, <2>1, BootTyped DEF Host
    <2>3. 4 \in Families(SystemdListen(host')) /\ (6 \in Families(SystemdListen(host')) => host'.v6)
      BY <2>1, ListenTyped, FourPassed
    <2>4. QED
      BY <2>1, <2>2, <2>3 DEF SocketsInv, Downed, Freed
  <1>14. QED
    BY <1>2, <1>3, <1>4, <1>5, <1>6, <1>7, <1>8, <1>9, <1>10, <1>11, <1>12, <1>13 DEF Next, Script, Switch

-----------------------------------------------------------------------------
(* The inductive invariant: the files.                                     *)

Changing == {"move", "write", "remove", "caddyfile"}
Later == {"check", "binary", "units", "switch", "waiting"}

PlanOf(plan, d) ==
    /\ plan.untrusted = UntrustedIn(d)
    /\ plan.stale = TrustedIn(d) \ Planned(plan)

Block(n) == Rendered(run.plan.sites[n], run.domain, run.layout)

\* The files as they were, but for the blocks that are in and the entries that are out.
Midway(in, out) ==
    /\ disk.caddyfile = base.caddyfile
    /\ \A n \in Names : disk.conf[n] = IF n \in in THEN Block(n) ELSE IF n \in out THEN NoEntry ELSE base.conf[n]

\* The files that the run was to write, and no other.
Written ==
    /\ disk.caddyfile = Generated(run.domain, run.layout)
    /\ \A n \in Names : IF n \in Planned(run.plan) THEN disk.conf[n] = Block(n) ELSE disk.conf[n].by = "none"

\* Where no command of webspec-ctl came between, the files on disk are those that the run found,
\* with what it has changed so far.
WritesInv ==
    ~run.crossed =>
        /\ run.at \in Changing => PlanOf(run.plan, base)
        /\ run.at = "move" => Midway({}, run.plan.untrusted \ run.left)
        /\ run.at = "write" => Midway(Planned(run.plan) \ run.left, run.plan.untrusted)
        /\ run.at = "remove" => Midway(Planned(run.plan), run.plan.untrusted \cup (run.plan.stale \ run.left))
        /\ run.at = "caddyfile" => Midway(Planned(run.plan), run.plan.untrusted \cup run.plan.stale)
        /\ run.at \in Later => Written

\* What the base is of, at each stage; and what a run that has ended left.
StageInv ==
    /\ run.at \in {"plan", "stage", "keep"} => base = disk
    /\ run.at = "apply" /\ ~run.crossed => base = disk
    /\ run.at # "idle" => run.out = "none"
    /\ run.at # "idle" /\ run.crossed => torn
    /\ run.out \in {"refused", "put back"} => disk = base

LEMMA SameBlocks ==
  ASSUME run'.plan = run.plan, run'.domain = run.domain, run'.layout = run.layout
  PROVE  /\ Planned(run'.plan) = Planned(run.plan)
         /\ \A n : Block(n)' = Block(n)
  BY DEF Block

LEMMA LeftKept ==
  ASSUME TypeOK, LeftPlanned, FileStep
  PROVE  LeftPlanned'
  <1>1. CASE Begun \/ RunEnds \/ Rebooted
    <2>1. run'.at \in {"plan", "idle"}
      BY <1>1, IdleRun DEF Begun, RunEnds, RefusedEnd, PutBackEnd, TornEnd, LateEnd, GoodEnd, EndsAs, Rebooted
    <2>2. QED
      BY <2>1 DEF LeftPlanned
  <1>2. CASE RunSteps
    <2>1. run'.at \notin Changing
      BY <1>2 DEF RunSteps, Stepped, Changing
    <2>2. QED
      BY <2>1 DEF LeftPlanned, Changing
  <1>3. CASE Planning
    BY <1>3 DEF Planning, LeftPlanned
  <1>4. CASE WriteStep
    BY <1>4 DEF WriteStep, WroteOne, WentOn, WroteCaddyfile, SameRun, LeftPlanned
  <1>5. CASE CommandStep
    BY <1>5, CommandLeaves DEF CommandStep, LeftPlanned
  <1>6. CASE Quiet
    BY <1>6 DEF Quiet, LeftPlanned
  <1>7. QED
    BY <1>1, <1>2, <1>3, <1>4, <1>5, <1>6 DEF FileStep

LEMMA StageKept ==
  ASSUME TypeOK, StageInv, FileStep
  PROVE  StageInv'
  <1>1. run \in Run /\ run.crossed \in BOOLEAN
    BY DEF TypeOK, Run
  <1>2. CASE Begun
    BY <1>2 DEF Begun, StageInv
  <1>3. CASE RunEnds
    BY <1>3 DEF RunEnds, RefusedEnd, PutBackEnd, TornEnd, LateEnd, GoodEnd, EndsAs, StageInv
  <1>4. CASE RunSteps
    BY <1>4 DEF RunSteps, Stepped, SameRun, StageInv
  <1>5. CASE Planning
    BY <1>5 DEF Planning, StageInv
  <1>6. CASE WriteStep
    <2>1. run.at \in Changing /\ run'.at \in Changing \cup {"check"} /\ SameRun(run') /\ UNCHANGED <<torn, base>>
      BY <1>6 DEF WriteStep, WroteOne, WentOn, WroteCaddyfile, Changing
    <2>2. run.out = "none" /\ run'.out = "none" /\ (run'.crossed => torn)
      BY <2>1 DEF SameRun, StageInv, Changing
    <2>3. QED
      BY <2>1, <2>2 DEF StageInv, Changing
  <1>7. CASE CommandStep
    <2>1. PICK d \in Disk, domain \in Domains \cup {NoDomain} : Command(d, domain)
      BY <1>7 DEF CommandStep
    <2>2. /\ disk' = d /\ torn' = (torn \/ Crossing) /\ base' = (IF Crossing THEN base ELSE d)
          /\ run'.at = run.at /\ run'.out = "none" /\ run'.crossed = (run.crossed \/ Crossing)
      BY <2>1, CommandLeaves
    <2>3. Crossing <=> run.at \notin {"idle", "plan", "stage", "keep"}
      BY <1>1 DEF Crossing, Run, Writing
    <2>4. CASE Crossing
      BY <2>2, <2>3, <2>4 DEF StageInv
    <2>5. CASE ~Crossing
      BY <2>2, <2>3, <2>5 DEF StageInv
    <2>6. QED
      BY <2>4, <2>5
  <1>8. CASE Rebooted
    BY <1>8, IdleRun DEF Rebooted, StageInv
  <1>9. CASE Quiet
    BY <1>9 DEF Quiet, StageInv
  <1>10. QED
    BY <1>2, <1>3, <1>4, <1>5, <1>6, <1>7, <1>8, <1>9 DEF FileStep

LEMMA ConfReplaced ==
  ASSUME TypeOK, NEW n \in Names, WroteOne(n)
  PROVE  /\ \A m \in Names : Block(m)' = Block(m)
         /\ \A m \in Names : disk'.conf[m] = IF m # n THEN disk.conf[m]
                                             ELSE IF run.at = "write" THEN Block(n) ELSE NoEntry
  <1>1. run'.plan = run.plan /\ run'.domain = run.domain /\ run'.layout = run.layout
    BY DEF WroteOne, SameRun
  <1>2. \A m \in Names : Block(m)' = Block(m)
    BY <1>1, SameBlocks
  <1>3. QED
    BY <1>2 DEF WroteOne, Block

\* One file more is as the run is to leave it.
LEMMA OneWritten ==
  ASSUME TypeOK, LeftPlanned, WritesInv, NEW n \in Names, WroteOne(n), UNCHANGED base
  PROVE  WritesInv'
  <1>1. /\ run.at \in {"move", "write", "remove"} /\ n \in run.left
        /\ run'.at = run.at /\ run'.left = run.left \ {n} /\ run'.crossed = run.crossed
        /\ run'.plan = run.plan /\ disk'.caddyfile = disk.caddyfile
    BY DEF WroteOne, SameRun
  <1>2. ASSUME ~run.crossed PROVE WritesInv'
    <2>1. Planned(run'.plan) = Planned(run.plan) /\ PlanOf(run.plan, base)
      BY <1>1, <1>2 DEF WritesInv, Changing
    <2>2. PlanOf(run.plan, base)'
      BY <1>1, <1>2, <2>1 DEF PlanOf
    <2>3. CASE run.at = "move"
      <3>1. Midway({}, run.plan.untrusted \ run.left) /\ n \in run.plan.untrusted
        BY <1>1, <1>2, <2>3 DEF WritesInv, LeftPlanned
      <3>2. disk'.caddyfile = base.caddyfile
        BY <1>1, <3>1 DEF Midway
      <3>3. \A m \in Names : disk'.conf[m] = IF m \in run.plan.untrusted \ (run.left \ {n}) THEN NoEntry
                                             ELSE base.conf[m]
        BY <2>3, <3>1, ConfReplaced DEF Midway
      <3>4. Midway({}, run.plan.untrusted \ run.left)'
        BY <1>1, <1>2, <3>2, <3>3 DEF Midway
      <3>5. QED
        BY <1>1, <2>2, <2>3, <3>4 DEF WritesInv, Later
    <2>4. CASE run.at = "write"
      <3>1. Midway(Planned(run.plan) \ run.left, run.plan.untrusted) /\ n \in Planned(run.plan)
        BY <1>1, <1>2, <2>4 DEF WritesInv, LeftPlanned
      <3>2. disk'.caddyfile = base.caddyfile
        BY <1>1, <3>1 DEF Midway
      <3>3. \A m \in Names : disk'.conf[m] = IF m \in Planned(run.plan) \ (run.left \ {n}) THEN Block(m)
                                             ELSE IF m \in run.plan.untrusted THEN NoEntry ELSE base.conf[m]
        BY <2>4, <3>1, ConfReplaced DEF Midway
      <3>4. Midway(Planned(run.plan) \ run.left, run.plan.untrusted)'
        BY <1>1, <1>2, <2>1, <3>2, <3>3, ConfReplaced DEF Midway
      <3>5. QED
        BY <1>1, <2>2, <2>4, <3>4 DEF WritesInv, Later
    <2>5. CASE run.at = "remove"
      <3>1. /\ Midway(Planned(run.plan), run.plan.untrusted \cup (run.plan.stale \ run.left))
            /\ n \in run.plan.stale
        BY <1>1, <1>2, <2>5 DEF WritesInv, LeftPlanned
      <3>2. disk'.caddyfile = base.caddyfile /\ n \notin Planned(run.plan)
        BY <1>1, <2>1, <3>1 DEF Midway, PlanOf
      <3>3. \A m \in Names : disk'.conf[m] =
               IF m \in Planned(run.plan) THEN Block(m)
               ELSE IF m \in run.plan.untrusted \cup (run.plan.stale \ (run.left \ {n})) THEN NoEntry
               ELSE base.conf[m]
        BY <2>5, <3>1, <3>2, ConfReplaced DEF Midway
      <3>4. Midway(Planned(run.plan), run.plan.untrusted \cup (run.plan.stale \ run.left))'
        BY <1>1, <1>2, <2>1, <3>2, <3>3, ConfReplaced DEF Midway
      <3>5. QED
        BY <1>1, <2>2, <2>5, <3>4 DEF WritesInv, Later
    <2>6. QED
      BY <1>1, <2>3, <2>4, <2>5
  <1>3. QED
    BY <1>1, <1>2 DEF WritesInv

\* On to the next kind of file.
LEMMA KindWritten ==
  ASSUME TypeOK, WritesInv, NEW from, NEW to, NEW names, WentOn(from, to, names), UNCHANGED base,
         \/ from = "move" /\ to = "write" /\ names = Planned(run.plan)
         \/ from = "write" /\ to = "remove" /\ names = run.plan.stale
         \/ from = "remove" /\ to = "caddyfile" /\ names = {}
  PROVE  WritesInv'
  <1>1. /\ run.at = from /\ run.left = {} /\ run'.at = to /\ run'.left = names /\ run'.crossed = run.crossed
        /\ run'.plan = run.plan /\ UNCHANGED <<disk, base>>
        /\ Planned(run'.plan) = Planned(run.plan) /\ \A m \in Names : Block(m)' = Block(m)
    BY SameBlocks DEF WentOn, SameRun, Block
  <1>2. CASE run.crossed
    BY <1>1, <1>2 DEF WritesInv
  <1>3. CASE ~run.crossed
    <2>1. PlanOf(run.plan, base) /\ PlanOf(run.plan, base)'
      BY <1>1, <1>3 DEF WritesInv, Changing, PlanOf
    <2>2. ASSUME NEW in, NEW out, Midway(in, out)
          PROVE  /\ disk'.caddyfile = base'.caddyfile
                 /\ \A n \in Names : disk'.conf[n] = IF n \in in THEN Block(n)'
                                                     ELSE IF n \in out THEN NoEntry ELSE base'.conf[n]
      BY <1>1, <2>2 DEF Midway
    <2>3. CASE from = "move"
      <3>1. Midway({}, run.plan.untrusted \ run.left)
        BY <1>1, <1>3, <2>3 DEF WritesInv
      <3>2. Midway(Planned(run.plan) \ run.left, run.plan.untrusted)'
        BY <1>1, <2>2, <2>3, <3>1 DEF Midway
      <3>3. QED
        BY <1>1, <2>1, <2>3, <3>2 DEF WritesInv, Later
    <2>4. CASE from = "write"
      <3>1. Midway(Planned(run.plan) \ run.left, run.plan.untrusted)
        BY <1>1, <1>3, <2>4 DEF WritesInv
      <3>2. Midway(Planned(run.plan), run.plan.untrusted \cup (run.plan.stale \ run.left))'
        BY <1>1, <2>2, <2>4, <3>1 DEF Midway
      <3>3. QED
        BY <1>1, <2>1, <2>4, <3>2 DEF WritesInv, Later
    <2>5. CASE from = "remove"
      <3>1. Midway(Planned(run.plan), run.plan.untrusted \cup (run.plan.stale \ run.left))
        BY <1>1, <1>3, <2>5 DEF WritesInv
      <3>2. Midway(Planned(run.plan), run.plan.untrusted \cup run.plan.stale)'
        BY <1>1, <2>2, <2>5, <3>1 DEF Midway
      <3>3. QED
        BY <1>1, <2>1, <2>5, <3>2 DEF WritesInv, Later
    <2>6. QED
      BY <2>3, <2>4, <2>5
  <1>4. QED
    BY <1>2, <1>3 DEF TypeOK, Run

\* With the Caddyfile everything is: what was neither planned nor removed was not there.
LEMMA AllWritten ==
  ASSUME TypeOK, WritesInv, WroteCaddyfile, UNCHANGED base
  PROVE  WritesInv'
  <1>1. /\ run.at = "caddyfile" /\ run'.at = "check" /\ run'.crossed = run.crossed
        /\ run'.plan = run.plan /\ run'.domain = run.domain /\ run'.layout = run.layout
        /\ disk'.conf = disk.conf /\ disk'.caddyfile = Generated(run.domain, run.layout)
        /\ Planned(run'.plan) = Planned(run.plan) /\ \A m \in Names : Block(m)' = Block(m)
    BY SameBlocks DEF WroteCaddyfile, SameRun, Block
  <1>2. CASE run.crossed
    BY <1>1, <1>2 DEF WritesInv
  <1>3. CASE ~run.crossed
    <2>1. PlanOf(run.plan, base) /\ Midway(Planned(run.plan), run.plan.untrusted \cup run.plan.stale)
      BY <1>1, <1>3 DEF WritesInv, Changing
    <2>2. base \in Disk
      BY DEF TypeOK
    <2>3. ASSUME NEW n \in Names, n \notin Planned(run.plan) PROVE disk.conf[n].by = "none"
      <3>1. CASE n \in run.plan.untrusted \cup run.plan.stale
        BY <2>1, <2>3, <3>1, NoEntryTyped DEF Midway
      <3>2. CASE n \notin run.plan.untrusted \cup run.plan.stale
        <4>1. n \notin UntrustedIn(base) /\ n \notin TrustedIn(base)
          BY <2>1, <2>3, <3>2 DEF PlanOf
        <4>2. base.conf[n].by \in {"none", "webspec", "other", "odd"}
          BY <2>2 DEF Disk, Entry
        <4>3. base.conf[n].by = "none"
          BY <4>1, <4>2 DEF UntrustedIn, TrustedIn
        <4>4. QED
          BY <2>1, <2>3, <3>2, <4>3 DEF Midway
      <3>3. QED
        BY <3>1, <3>2
    <2>4. \A n \in Names : n \in Planned(run.plan) => disk.conf[n] = Block(n)
      BY <2>1 DEF Midway
    <2>5. Written'
      BY <1>1, <2>3, <2>4 DEF Written
    <2>6. QED
      BY <1>1, <2>5 DEF WritesInv, Changing
  <1>4. QED
    BY <1>2, <1>3 DEF TypeOK, Run

LEMMA WritesKept ==
  ASSUME TypeOK, LeftPlanned, WritesInv, StageInv, FileStep
  PROVE  WritesInv'
  <1>1. CASE Begun \/ RunEnds \/ Rebooted
    <2>1. run'.at \in {"plan", "idle"}
      BY <1>1, IdleRun DEF Begun, RunEnds, RefusedEnd, PutBackEnd, TornEnd, LateEnd, GoodEnd, EndsAs, Rebooted
    <2>2. QED
      BY <2>1 DEF WritesInv, Changing, Later
  <1>2. CASE RunSteps
    <2>1. PICK from, to : /\ Stepped(from, to)
                          /\ \/ to \in {"stage", "keep", "apply"}
                             \/ from \in Later /\ to \in Later
      BY <1>2 DEF RunSteps, Later
    <2>2. CASE to \in {"stage", "keep", "apply"}
      BY <2>1, <2>2 DEF Stepped, WritesInv, Changing, Later
    <2>3. CASE from \in Later /\ to \in Later
      <3>1. /\ run'.crossed = run.crossed /\ run'.at = to /\ run.at = from /\ UNCHANGED disk
            /\ run'.plan = run.plan /\ run'.domain = run.domain /\ run'.layout = run.layout
        BY <2>1 DEF Stepped, SameRun
      <3>2. Written => Written'
        BY <3>1 DEF Written, Block
      <3>3. QED
        BY <2>3, <3>1, <3>2 DEF WritesInv, Changing, Later
    <2>4. QED
      BY <2>1, <2>2, <2>3
  <1>3. CASE Planning
    <2>1. /\ run.at = "apply" /\ run'.at = "move" /\ run'.plan = Plan /\ run'.left = Plan.untrusted
          /\ run'.crossed = run.crossed /\ UNCHANGED <<disk, base>>
      BY <1>3 DEF Planning
    <2>2. ASSUME ~run.crossed PROVE PlanOf(Plan, base) /\ base = disk
      BY <2>1, <2>2, ScriptPlan DEF StageInv, PlanOf
    <2>3. ASSUME ~run.crossed PROVE PlanOf(run.plan, base)'
      BY <2>1, <2>2, <2>3
    <2>4. ASSUME ~run.crossed PROVE Midway({}, run.plan.untrusted \ run.left)'
      BY <2>1, <2>2, <2>4 DEF Midway
    <2>5. QED
      BY <2>1, <2>3, <2>4 DEF WritesInv, Later
  <1>4. CASE WriteStep
    BY <1>4, OneWritten, KindWritten, AllWritten DEF WriteStep
  <1>5. CASE CommandStep
    <2>1. PICK d \in Disk, domain \in Domains \cup {NoDomain} : Command(d, domain)
      BY <1>5 DEF CommandStep
    <2>2. run'.at = run.at /\ run'.crossed = (run.crossed \/ Crossing)
      BY <2>1, CommandLeaves
    <2>3. run.at \in Changing \cup Later => Crossing
      BY DEF Changing, Later, Crossing, Writing
    <2>4. QED
      BY <2>2, <2>3 DEF WritesInv, Changing
  <1>6. CASE Quiet
    BY <1>6 DEF Quiet, WritesInv, Written, Midway, Block
  <1>7. QED
    BY <1>1, <1>2, <1>3, <1>4, <1>5, <1>6 DEF FileStep

-----------------------------------------------------------------------------
(* The inductive invariant: hosts, domains, and what the blocks bind.      *)

\* While nothing is torn, what is owed is served on disk, or by what the run puts back, and by
\* what it writes.
HostsInv ==
    ~torn =>
        /\ run.at \in {"idle", "plan", "stage", "keep"} => due \subseteq ServedToday(disk)
        /\ run.at # "idle" => due \subseteq ServedToday(base)
        /\ run.at \in Changing \cup Later => due \subseteq ServedAfter(run.plan, run.domain)

DomainInv ==
    run.at # "idle" /\ ~run.given /\ ~run.overtaken /\ RecordedDomain(base) \notin {"none", "error"}
    => run.domain = RecordedDomain(base)

UniformInv == ~torn => IF run.at = "idle" THEN Uniform(disk) ELSE Uniform(base)

\* What the files serve and bind when all is written.
LEMMA WhatIsWritten ==
  ASSUME TypeOK, Written
  PROVE  /\ ServedToday(disk) = ServedAfter(run.plan, run.domain)
         /\ Used(disk) = {run.layout} /\ disk.caddyfile.by = "webspec" /\ Uniform(disk)
         /\ disk.caddyfile.domain = run.domain
         /\ \A x \in ServedToday(disk) : x[2] \in {"localhost", run.domain}
  <1>1. /\ disk.caddyfile.hosts = {} /\ disk.caddyfile.binds = run.layout /\ disk.caddyfile.by = "webspec"
        /\ disk.caddyfile.domain = run.domain
    BY DEF Written, Generated
  <1>2. /\ \A n \in Planned(run.plan) : /\ n \in Names /\ disk.conf[n].by = "webspec"
                                        /\ disk.conf[n].site = run.plan.sites[n]
                                        /\ disk.conf[n].domain = run.domain
                                        /\ disk.conf[n].binds = run.layout
        /\ \A n \in Names : disk.conf[n].by # "none" => n \in Planned(run.plan)
    <2>1. ASSUME NEW n \in Planned(run.plan)
          PROVE  /\ n \in Names /\ disk.conf[n].by = "webspec"
                 /\ disk.conf[n].site = run.plan.sites[n]
                 /\ disk.conf[n].domain = run.domain
                 /\ disk.conf[n].binds = run.layout
      <3>1. n \in Names
        BY DEF Planned
      <3>2. disk.conf[n] = Rendered(run.plan.sites[n], run.domain, run.layout)
        BY <3>1 DEF Written, Block
      <3>3. QED
        BY <3>1, <3>2 DEF Rendered
    <2>2. \A n \in Names : n \notin Planned(run.plan) => disk.conf[n].by = "none"
      BY DEF Written
    <2>3. QED
      BY <2>1, <2>2
  <1>3. Readable(disk) = Planned(run.plan)
    BY <1>2 DEF Readable
  <1>4. ServedToday(disk) = ServedAfter(run.plan, run.domain)
    <2>1. ASSUME NEW n \in Planned(run.plan)
          PROVE  SiteHosts(n, disk.conf[n].site, disk.conf[n].domain)
                    = SiteHosts(n, run.plan.sites[n], run.domain)
      <3>1. disk.conf[n].site = run.plan.sites[n] /\ disk.conf[n].domain = run.domain
        BY <1>2
      <3>2. QED
        BY <3>1, Zenon
    <2>2. ASSUME NEW x
          PROVE  x \in ServedToday(disk) <=> x \in ServedAfter(run.plan, run.domain)
      <3>1. x \in ServedToday(disk) <=>
               \E n \in Planned(run.plan) : x \in SiteHosts(n, disk.conf[n].site, disk.conf[n].domain)
        BY <1>1, <1>3, ServedByOne
      <3>2. QED
        BY <2>1, <3>1, ServedByPlan
    <2>3. QED
      BY <2>2
  <1>5. Used(disk) = {run.layout}
    BY <1>1, <1>2, UsedByOne
  <1>6. run.domain \in Domains \cup {NoDomain}
    BY DEF TypeOK, Run
  <1>7. \A x \in ServedToday(disk) : x[2] \in {"localhost", run.domain}
    BY <1>2, <1>4, <1>6, ServedByPlan, HostsTyped
  <1>8. QED
    BY <1>1, <1>4, <1>5, <1>7 DEF Uniform

LEMMA StillWritten ==
  ASSUME TypeOK, WritesInv, StageInv, run.at \in Later, ~torn \/ ~run.crossed
  PROVE  /\ Written /\ ServedToday(disk) = ServedAfter(run.plan, run.domain)
         /\ Used(disk) = {run.layout} /\ disk.caddyfile.by = "webspec" /\ Uniform(disk)
  <1>1. ~run.crossed
    BY DEF StageInv, Later
  <1>2. QED
    BY <1>1, WhatIsWritten DEF WritesInv

\* The stages of the step kinds, and what they leave alone.
LEMMA WriteStages ==
  ASSUME WriteStep
  PROVE  /\ run.at \in Changing /\ run'.at \in Changing \cup {"check"} /\ SameRun(run')
         /\ UNCHANGED <<torn, due, base>>
  BY DEF WriteStep, WroteOne, WentOn, WroteCaddyfile, Changing

LEMMA SteppedStages ==
  ASSUME RunSteps
  PROVE  /\ SameRun(run') /\ UNCHANGED <<disk, torn, due>>
         /\ \/ /\ run.at \in {"plan", "stage", "keep"} /\ run'.at \in {"stage", "keep", "apply"}
               /\ base' \in {base, disk}
            \/ run.at \in Later /\ run'.at \in Later /\ base' = base
  BY DEF RunSteps, Stepped, Later

LEMMA CrossingStages ==
  ASSUME TypeOK
  PROVE  /\ Crossing <=> run.at \notin {"idle", "plan", "stage", "keep"}
         /\ run.at \in Writing <=> run.at \in Changing \cup {"apply", "check", "binary"}
  BY DEF TypeOK, Run, Crossing, Writing, Changing

LEMMA HostsInvKept ==
  ASSUME TypeOK, WritesInv, StageInv, HostsInv, FileStep
  PROVE  HostsInv'
  <1>1. CASE Begun
    BY <1>1 DEF Begun, HostsInv, Changing, Later
  <1>2. CASE RefusedEnd
    BY <1>2 DEF RefusedEnd, EndsAs, HostsInv, Changing, Later
  <1>3. CASE PutBackEnd
    BY <1>3 DEF PutBackEnd, EndsAs, HostsInv, Changing, Later, Writing
  <1>4. CASE TornEnd
    BY <1>4 DEF TornEnd, HostsInv
  <1>5. CASE LateEnd
    <2>1. run.at \in Later /\ run'.at = "idle" /\ UNCHANGED <<disk, torn, due>>
      BY <1>5 DEF LateEnd, EndsAs, Later
    <2>2. ~torn => due \subseteq ServedToday(disk)
      BY <2>1, StillWritten DEF HostsInv
    <2>3. QED
      BY <2>1, <2>2 DEF HostsInv, Changing, Later
  <1>6. CASE GoodEnd
    <2>1. run.at \in Later /\ run'.at = "idle" /\ UNCHANGED disk
          /\ torn' = run.crossed /\ due' = (IF torn THEN ServedToday(disk) ELSE due)
      BY <1>6 DEF GoodEnd, EndsAs, Later
    <2>2. ~torn' => due' \subseteq ServedToday(disk)
      BY <2>1, StillWritten DEF HostsInv
    <2>3. QED
      BY <2>1, <2>2 DEF HostsInv, Changing, Later
  <1>7. CASE RunSteps
    <2>1. ~torn => /\ run.at \in {"plan", "stage", "keep"} => due \subseteq ServedToday(disk)
                   /\ run.at # "idle" => due \subseteq ServedToday(base)
                   /\ run.at \in Later => due \subseteq ServedAfter(run.plan, run.domain)
      BY DEF HostsInv
    <2>2. run'.plan = run.plan /\ run'.domain = run.domain /\ UNCHANGED <<disk, torn, due>>
      BY <1>7, SteppedStages DEF SameRun
    <2>3. CASE /\ run.at \in {"plan", "stage", "keep"} /\ run'.at \in {"stage", "keep", "apply"}
               /\ base' \in {base, disk}
      BY <2>1, <2>2, <2>3 DEF HostsInv, Changing, Later
    <2>4. CASE run.at \in Later /\ run'.at \in Later /\ base' = base
      BY <2>1, <2>2, <2>4 DEF HostsInv, Changing, Later
    <2>5. QED
      BY <1>7, <2>3, <2>4, SteppedStages
  <1>8. CASE Planning
    <2>1. /\ run.at = "apply" /\ run'.at = "move" /\ run'.plan = Plan /\ run'.domain = run.domain
          /\ ~Unasked /\ UNCHANGED <<disk, torn, base>>
          /\ due' = (IF run.allowShrink THEN due \cap ServedAfter(Plan, run.domain) ELSE due)
      BY <1>8 DEF Planning
    <2>2. ASSUME ~torn PROVE due' \subseteq ServedToday(base) /\ due' \subseteq ServedAfter(Plan, run.domain)
      <3>1. due \subseteq ServedToday(base) /\ base = disk
        BY <2>1, <2>2 DEF HostsInv, StageInv
      <3>2. CASE run.allowShrink
        BY <2>1, <3>1, <3>2
      <3>3. CASE ~run.allowShrink
        BY <2>1, <3>1, <3>3 DEF Unasked, Refused
      <3>4. QED
        BY <3>2, <3>3
    <2>3. QED
      BY <2>1, <2>2 DEF HostsInv
  <1>9. CASE WriteStep
    <2>1. /\ run.at \in Changing /\ run'.at \in Changing \cup {"check"} /\ UNCHANGED <<torn, due, base>>
          /\ run'.plan = run.plan /\ run'.domain = run.domain
      BY <1>9, WriteStages DEF SameRun
    <2>2. ~torn => due \subseteq ServedToday(base) /\ due \subseteq ServedAfter(run.plan, run.domain)
      BY <2>1 DEF HostsInv, Changing
    <2>3. QED
      BY <2>1, <2>2 DEF HostsInv, Changing
  <1>10. CASE CommandStep
    <2>1. PICK d \in Disk, domain \in Domains \cup {NoDomain} : Command(d, domain)
      BY <1>10 DEF CommandStep
    <2>2. /\ disk' = d /\ due' = ServedToday(d) /\ torn' = (torn \/ Crossing)
          /\ base' = (IF Crossing THEN base ELSE d) /\ run'.at = run.at
      BY <2>1, CommandLeaves
    <2>3. QED
      BY <2>2, CrossingStages DEF HostsInv, Changing, Later
  <1>11. CASE Rebooted
    <2>1. run'.at = "idle" /\ torn' = (torn \/ run.at \in Writing) /\ UNCHANGED <<disk, due>>
      BY <1>11, IdleRun DEF Rebooted
    <2>2. ~torn' => due \subseteq ServedToday(disk)
      <3>1. CASE run.at \in {"idle", "plan", "stage", "keep"}
        BY <2>1, <3>1 DEF HostsInv
      <3>2. CASE run.at \in Later
        BY <2>1, <3>2, StillWritten DEF HostsInv
      <3>3. CASE run.at \in Writing
        BY <2>1, <3>3
      <3>4. QED
        BY <3>1, <3>2, <3>3 DEF TypeOK, Run, Later
    <2>3. QED
      BY <2>1, <2>2 DEF HostsInv, Changing, Later
  <1>12. CASE Quiet
    BY <1>12 DEF Quiet, HostsInv
  <1>13. QED
    BY <1>1, <1>2, <1>3, <1>4, <1>5, <1>6, <1>7, <1>8, <1>9, <1>10, <1>11, <1>12 DEF FileStep, RunEnds

LEMMA DomainInvKept ==
  ASSUME TypeOK, StageInv, DomainInv, FileStep
  PROVE  DomainInv'
  <1>1. CASE Begun
    <2>1. ASSUME run'.at # "idle", ~run'.given, RecordedDomain(disk) \notin {"none", "error"}
          PROVE  run'.domain = RecordedDomain(disk)
      <3>1. run'.domain = ResolveDomain("unset", disk, host) /\ run'.domain # "error"
        BY <1>1, <2>1 DEF Begun
      <3>2. disk \in Disk
        BY DEF TypeOK
      <3>3. QED
        BY <2>1, <3>1, <3>2, ResolvedIsRecorded
    <2>2. base' = disk
      BY <1>1 DEF Begun
    <2>3. QED
      BY <2>1, <2>2 DEF DomainInv
  <1>2. CASE RunEnds \/ Rebooted
    <2>1. run'.at = "idle"
      BY <1>2, IdleRun DEF RunEnds, RefusedEnd, PutBackEnd, TornEnd, LateEnd, GoodEnd, EndsAs, Rebooted
    <2>2. QED
      BY <2>1 DEF DomainInv
  <1>3. CASE RunSteps
    <2>1. SameRun(run') /\ run.at # "idle"
      BY <1>3, SteppedStages DEF Later
    <2>2. base' = base
      BY <1>3 DEF RunSteps, Stepped, StageInv
    <2>3. QED
      BY <2>1, <2>2 DEF SameRun, DomainInv
  <1>4. CASE Planning
    BY <1>4 DEF Planning, DomainInv
  <1>5. CASE WriteStep
    BY <1>5, WriteStages DEF SameRun, DomainInv, Changing
  <1>6. CASE CommandStep
    <2>1. PICK d \in Disk, domain \in Domains \cup {NoDomain} :
             Command(d, domain) /\ d.caddyfile = [disk.caddyfile EXCEPT !.domain = domain]
      BY <1>6 DEF CommandStep
    <2>2. /\ CaddyStatus(disk, host) = "managed" /\ base' = (IF Crossing THEN base ELSE d)
          /\ run'.at = run.at /\ run'.domain = run.domain /\ run'.given = run.given
          /\ run'.overtaken = (run.overtaken \/ (run.at # "idle" /\ domain # disk.caddyfile.domain))
      BY <2>1, CommandLeaves
    <2>3. CASE Crossing
      BY <2>2, <2>3 DEF DomainInv
    <2>4. CASE ~Crossing
      <3>1. ASSUME run.at # "idle", ~run.given, ~run'.overtaken, RecordedDomain(d) \notin {"none", "error"}
            PROVE  run.domain = RecordedDomain(d)
        <4>1. ~run.overtaken /\ domain = disk.caddyfile.domain /\ base = disk
          BY <2>2, <2>4, <3>1, CrossingStages DEF StageInv
        <4>2. disk.caddyfile \in Caddyfile /\ disk.caddyfile.by = "webspec" /\ disk.caddyfile.safe
          BY <2>2, Managed DEF TypeOK, Disk
        <4>3. d.caddyfile.domain = domain /\ d.caddyfile.by = "webspec" /\ d.caddyfile.safe
          BY <2>1, <4>2, DomainRecorded
        <4>4. domain # "unset" /\ domain \notin {"none", "error"}
          BY DomainNames
        <4>5. RecordedDomain(d) = domain /\ RecordedDomain(disk) = domain
          BY <4>1, <4>2, <4>3, <4>4 DEF RecordedDomain
        <4>6. QED
          BY <3>1, <4>1, <4>4, <4>5 DEF DomainInv
      <3>2. QED
        BY <2>2, <2>4, <3>1 DEF DomainInv
    <2>5. QED
      BY <2>3, <2>4
  <1>7. CASE Quiet
    BY <1>7 DEF Quiet, DomainInv
  <1>8. QED
    BY <1>1, <1>2, <1>3, <1>4, <1>5, <1>6, <1>7 DEF FileStep

LEMMA UniformKept ==
  ASSUME TypeOK, WritesInv, StageInv, UniformInv, FileStep
  PROVE  UniformInv'
  <1>1. CASE Begun
    BY <1>1 DEF Begun, UniformInv
  <1>2. CASE RefusedEnd \/ PutBackEnd \/ TornEnd
    BY <1>2 DEF RefusedEnd, PutBackEnd, TornEnd, EndsAs, UniformInv, StageInv, Writing
  <1>3. CASE LateEnd \/ GoodEnd
    <2>1. /\ run.at \in Later /\ run'.at = "idle" /\ UNCHANGED disk
          /\ ~torn' => ~torn \/ ~run.crossed
      BY <1>3 DEF LateEnd, GoodEnd, EndsAs, Later
    <2>2. QED
      BY <2>1, StillWritten DEF UniformInv
  <1>4. CASE RunSteps
    <2>1. run.at # "idle" /\ run'.at # "idle" /\ torn' = torn
      BY <1>4, SteppedStages DEF Later
    <2>2. base' = base
      BY <1>4 DEF RunSteps, Stepped, StageInv
    <2>3. QED
      BY <2>1, <2>2 DEF UniformInv
  <1>5. CASE Planning
    BY <1>5 DEF Planning, UniformInv
  <1>6. CASE WriteStep
    BY <1>6, WriteStages DEF UniformInv, Changing
  <1>7. CASE CommandStep
    <2>1. PICK d \in Disk, domain \in Domains \cup {NoDomain} :
             Command(d, domain) /\ (Uniform(disk) => Uniform(d))
      BY <1>7 DEF CommandStep
    <2>2. /\ disk' = d /\ torn' = (torn \/ Crossing)
          /\ base' = (IF Crossing THEN base ELSE d) /\ run'.at = run.at
      BY <2>1, CommandLeaves
    <2>3. ~torn' => Uniform(disk)
      BY <2>2, CrossingStages DEF UniformInv, StageInv
    <2>4. QED
      BY <2>1, <2>2, <2>3 DEF UniformInv
  <1>8. CASE Rebooted
    <2>1. run'.at = "idle" /\ torn' = (torn \/ run.at \in Writing) /\ UNCHANGED disk
      BY <1>8, IdleRun DEF Rebooted
    <2>2. ~torn' => Uniform(disk)
      <3>1. CASE run.at \in {"idle", "plan", "stage", "keep"}
        BY <2>1, <3>1 DEF UniformInv, StageInv
      <3>2. CASE run.at \in Later
        BY <2>1, <3>2, StillWritten
      <3>3. CASE run.at \in Writing
        BY <2>1, <3>3
      <3>4. QED
        BY <3>1, <3>2, <3>3 DEF TypeOK, Run, Later
    <2>3. QED
      BY <2>1, <2>2 DEF UniformInv
  <1>9. CASE Quiet
    BY <1>9 DEF Quiet, UniformInv, Uniform, Used
  <1>10. QED
    BY <1>1, <1>2, <1>3, <1>4, <1>5, <1>6, <1>7, <1>8, <1>9 DEF FileStep, RunEnds

-----------------------------------------------------------------------------
(* The inductive invariant: what Caddy runs.                               *)

RunsInv ==
    /\ run.at # "idle" \/ run.out = "ok" => run.layout = PlannedListeners(host)
    /\ run.out = "ok" => run.at = "idle" /\ switch = "none"
    /\ run.out = "ok" /\ ~torn =>
           /\ runs = Running(disk) /\ Used(disk) = {run.layout} /\ disk.caddyfile.by = "webspec"
           /\ sockets.from = "shipped" /\ Held = Families(run.layout)
    /\ run.at = "waiting" /\ switch = "ok" /\ ~run.crossed => runs = Running(disk)

\* What systemd holds for the layout that every file binds, Caddy can start with.
LEMMA FitsHeld ==
  ASSUME NEW layout \in {"ipv4", "dual"}, sockets.from = "shipped", Held = Families(layout),
         NEW d, d.caddyfile.by # "none", Used(d) = {layout}
  PROVE  Fits(d)
  <1>1. CASE layout = "dual"
    BY <1>1 DEF Families, Bindable, Fits
  <1>2. CASE layout = "ipv4"
    <2>1. Held = {4} /\ {4} # {4, 6}
      BY <1>2 DEF Families
    <2>2. "ipv4" \in Bindable
      BY <2>1 DEF Bindable
    <2>3. QED
      BY <1>2, <2>2 DEF Fits
  <1>3. QED
    BY <1>1, <1>2

\* A run that ends well has what it planned for: the sockets for all of its layout.
LEMMA HeldForLayout ==
  ASSUME TypeOK, SocketsInv, sockets.from = "shipped", Families(PlannedListeners(host)) \subseteq Held
  PROVE  Held = Families(PlannedListeners(host))
  <1>1. host \in Host
    BY DEF TypeOK
  <1>2. \A f \in Held : f \in {4, 6} /\ (f = 6 => host.v6)
    BY DEF Held, SocketsInv
  <1>3. QED
    BY <1>1, <1>2, ListenTyped, FourPassed

LEMMA RunsAlone ==
  ASSUME RunsInv, UNCHANGED <<disk, run, torn, host, runs>>,
         run.out = "ok" => switch' = switch /\ sockets'.from = sockets.from /\ Held' = Held,
         run.at = "waiting" /\ switch' = "ok" => switch = "ok"
  PROVE  RunsInv'
  BY DEF RunsInv, Used

\* A step after which the run has not ended well, and waits for no switch that has.
LEMMA RunsNotYet ==
  ASSUME RunsInv, run'.out # "ok", run'.at = "waiting" /\ ~run'.crossed => switch' # "ok",
         run'.at # "idle" => run'.layout = PlannedListeners(host')
  PROVE  RunsInv'
  BY DEF RunsInv

\* A stage of the script before the switch ends it, but not well, or leads to the next.
LEMMA BeforeSwitch ==
  ASSUME TypeOK, LeftPlanned, Look \/ KeepPrevious \/ Apply \/ WriteConfig \/ Install \/ Stop
  PROVE  /\ \/ run'.at = "idle" /\ run'.out # "ok"
            \/ /\ run.at # "idle" /\ run'.at \notin {"idle", "switch", "waiting"}
               /\ run'.out = run.out /\ run'.layout = run.layout
         /\ UNCHANGED <<host, switch>>
  <1>1. run \in Run /\ UNCHANGED <<host, switch>>
    BY ScriptStages DEF TypeOK
  <1>2. \A out \in Outs : run' = Ended(out) => run'.at = "idle" /\ run'.out = out
    BY <1>1, EndedRun
  <1>3. CASE Look
    <2>1. {"refused"} \subseteq Outs /\ {"stage", "keep"} \subseteq Stages
      BY DEF Outs, Stages
    <2>2. CASE Unasked
      BY <1>1, <1>2, <1>3, <2>1, <2>2 DEF Look
    <2>3. CASE ~Unasked
      <3>1. /\ run.at = "plan" => run' = [run EXCEPT !.at = "stage"]
            /\ run.at = "stage" => run' = [run EXCEPT !.at = "keep"]
            /\ run.at \in {"plan", "stage"}
        BY <1>1, <1>3, <2>3 DEF Look, Run
      <3>2. QED
        BY <1>1, <2>1, <3>1, StagedRun DEF SameRun
    <2>4. QED
      BY <2>2, <2>3
  <1>4. CASE KeepPrevious
    BY <1>1, <1>4, StagedRun DEF KeepPrevious, SameRun, Stages, Writing
  <1>5. CASE Apply
    <2>1. CASE PutBack
      BY <1>1, <1>2, <2>1 DEF PutBack, Outs
    <2>2. CASE Planning
      BY <1>1, <2>2 DEF Planning
    <2>3. CASE RunEnds
      <3>1. run.at = "apply"
        BY <1>5 DEF Apply
      <3>2. run'.at = "idle" /\ run'.out # "ok"
        BY <2>3, <3>1 DEF RunEnds, RefusedEnd, PutBackEnd, TornEnd, LateEnd, GoodEnd, EndsAs
      <3>3. QED
        BY <1>1, <3>2
    <2>4. QED
      BY <1>5, <2>2, <2>3, ApplyPlans
  <1>6. CASE WriteConfig
    <2>1. WriteStep
      BY <1>6, WriteSteps DEF WriteStep
    <2>2. QED
      BY <1>1, <2>1, WriteStages DEF SameRun, Changing
  <1>7. CASE Install
    <2>1. /\ run.at = "check" => run' = [run EXCEPT !.at = "binary"]
          /\ run.at = "binary" => run' = [run EXCEPT !.at = "units"]
          /\ run.at \in {"check", "binary"}
      BY <1>1, <1>7 DEF Install, Run
    <2>2. {"binary", "units"} \subseteq Stages
      BY DEF Stages, Writing
    <2>3. QED
      BY <1>1, <2>1, <2>2, StagedRun DEF SameRun
  <1>8. CASE Stop
    BY <1>1, <1>2, <1>8 DEF Stop, PutBack, LeaveTorn, Outs
  <1>9. QED
    BY <1>3, <1>4, <1>5, <1>6, <1>7, <1>8

\* Where Caddy runs the files on disk, on sockets for all of the layout, the run ends well.
LEMMA EndsWithAll ==
  ASSUME TypeOK, WritesInv, StageInv, SocketsInv, RunsInv, run.at \in {"switch", "waiting"},
         Finish, UNCHANGED <<disk, host, sockets>>, switch' = "none",
         sockets.from = "shipped", Families(run.layout) \subseteq Held,
         ~run.crossed => runs' = Running(disk)
  PROVE  RunsInv'
  <1>1. EndsAs("ok") /\ torn' = run.crossed
    BY FinishSteps
  <1>2. run.layout = PlannedListeners(host) /\ run'.layout = run.layout /\ run'.at = "idle" /\ run'.out = "ok"
    BY <1>1 DEF RunsInv, EndsAs
  <1>3. Held = Families(run.layout) /\ Held' = Held
    BY <1>2, HeldForLayout DEF Held
  <1>4. ~torn' => Used(disk) = {run.layout} /\ disk.caddyfile.by = "webspec"
    BY <1>1, StillWritten DEF Later
  <1>5. Used(disk)' = Used(disk)
    BY DEF Used
  <1>6. QED
    BY <1>1, <1>2, <1>3, <1>4, <1>5 DEF RunsInv

LEMMA RunsKept ==
  ASSUME TypeOK, LeftPlanned, WritesInv, StageInv, SocketsInv, UnitsInv, RunsInv, [Next]_vars
  PROVE  RunsInv'
  <1>1. run \in Run /\ host \in Host
    BY DEF TypeOK
  <1>2. run.out = "ok" => run.at = "idle" /\ switch = "none"
    BY DEF RunsInv
  <1>3. CASE Look \/ KeepPrevious \/ Apply \/ WriteConfig \/ Install \/ Stop
    <2>1. /\ \/ run'.at = "idle" /\ run'.out # "ok"
             \/ /\ run.at # "idle" /\ run'.at \notin {"idle", "switch", "waiting"}
                /\ run'.out = run.out /\ run'.layout = run.layout
          /\ UNCHANGED <<host, switch>>
      BY <1>3, BeforeSwitch
    <2>2. QED
      BY <1>2, <2>1 DEF RunsInv
  <1>4. ASSUME NEW given \in Gifts, NEW allowShrink \in BOOLEAN, NEW newBinary \in BOOLEAN,
               Begin(given, allowShrink, newBinary)
        PROVE  RunsInv'
    <2>1. /\ run'.out \in {"none", "refused"} /\ run'.at \in {"plan", "idle"}
          /\ run'.layout = PlannedListeners(host)
      BY <1>4, BeginBegins DEF Begun
    <2>2. host' = host
      BY <1>4 DEF Begin
    <2>3. QED
      BY <2>1, <2>2 DEF RunsInv
  <1>5. CASE Units
    <2>1. run.at = "units" /\ UNCHANGED switch /\ PlannedListeners(host') = PlannedListeners(host)
      BY <1>1, <1>5, HostUpdated DEF Units, PlannedListeners
    <2>2. RunSteps /\ run'.at \in {"switch", "units"}
      <3>1. RunSteps
        BY <1>5, StagesGo
      <3>2. QED
        BY <2>1, <3>1 DEF RunSteps, Stepped
    <2>3. run'.layout = run.layout /\ run'.out = run.out
      BY <2>2, SteppedStages DEF SameRun
    <2>4. QED
      BY <1>2, <2>1, <2>2, <2>3 DEF RunsInv
  <1>6. CASE RunCutover
    <2>1. /\ run.at = "switch" /\ run'.at = "waiting" /\ switch' = "start" /\ UNCHANGED host
          /\ run'.layout = run.layout /\ run'.out = run.out
      BY <1>1, <1>6, StagedRun DEF RunCutover, Stages, SameRun
    <2>2. QED
      BY <1>2, <2>1 DEF RunsInv
  <1>7. CASE Restart \/ Reload
    <2>1. /\ run.at = "switch" /\ sockets.from = "shipped" /\ Families(run.layout) \subseteq Held
          /\ UNCHANGED <<host, sockets, switch>> /\ switch = "none"
      BY <1>7 DEF Restart, Reload, MustSwitch, SystemdHolds, UnitsInv
    <2>2. CASE Finish /\ runs' = Running(disk) /\ UNCHANGED disk
      BY <2>1, <2>2, EndsWithAll
    <2>3. CASE run' = Ended("late") \/ run' = Ended("put back") \/ run' = Ended("torn")
      <3>1. run'.at = "idle" /\ run'.out # "ok"
        BY <1>1, <2>3, EndedRun DEF Outs
      <3>2. QED
        BY <2>1, <3>1 DEF RunsInv
    <2>4. QED
      BY <1>7, <2>2, <2>3 DEF Restart, Reload, PutBack, LeaveTorn
  <1>8. CASE Switched
    <2>1. run.at = "waiting" /\ UNCHANGED <<disk, host, sockets, runs>> /\ switch' = "none"
      BY <1>8 DEF Switched
    <2>2. CASE switch = "ok" /\ Finish
      <3>1. sockets.from = "shipped" /\ Held = Passed /\ host.unit = "shipped" /\ ~host.dropin
        BY <2>1, <2>2 DEF SocketsInv, UnitsInv
      <3>2. Families(run.layout) \subseteq Held
        BY <1>1, <2>1, <3>1, PassedFamilies DEF RunsInv
      <3>3. ~run.crossed => runs' = Running(disk)
        BY <2>1, <2>2 DEF RunsInv
      <3>4. QED
        BY <2>1, <2>2, <3>1, <3>2, <3>3, EndsWithAll
    <2>3. CASE run' = Ended("late")
      <3>1. run'.at = "idle" /\ run'.out # "ok"
        BY <1>1, <2>3, EndedRun DEF Outs
      <3>2. QED
        BY <2>1, <3>1 DEF RunsInv
    <2>4. QED
      BY <1>8, <2>2, <2>3 DEF Switched
  <1>9. CASE StopTunnel \/ StopSocket \/ StartSocket \/ Collected
    <2>1. /\ switch # "none" /\ UNCHANGED <<host, run>>
          /\ run.at = "waiting" => switch' # "ok"
      BY <1>9 DEF StopTunnel, StopSocket, StartSocket, Collected, Switching
    <2>2. QED
      BY <1>2, <2>1 DEF RunsInv
  <1>10. CASE StartUnit
    <2>1. /\ switch = "held" /\ UNCHANGED <<host, run, disk>>
          /\ switch' = "ok" => runs' = Running(disk)
      BY <1>10 DEF StartUnit, Switching
    <2>2. QED
      BY <1>2, <2>1 DEF RunsInv
  <1>11. CASE CaddySync \/ AddDirect
    <2>1. PICK d \in Disk, domain \in Domains \cup {NoDomain} : Command(d, domain)
      BY <1>11, Commanded
    <2>2. /\ run'.at = run.at /\ run'.out = "none" /\ run'.layout = run.layout
          /\ run'.crossed = (run.crossed \/ Crossing)
      BY <2>1, CommandLeaves
    <2>3. UNCHANGED host
      BY <2>1, Zenon DEF Command
    <2>4. run.at = "waiting" => Crossing
      BY DEF Crossing
    <2>5. QED
      BY <2>2, <2>3, <2>4 DEF RunsInv
  <1>12. CASE Edit \/ UNCHANGED vars
    BY <1>12, RunsAlone DEF Edit, vars, Held
  <1>13. CASE CaddyRestarts
    <2>1. switch = "none" /\ UNCHANGED <<disk, host, run, switch, torn>>
      BY <1>13 DEF CaddyRestarts
    <2>2. CASE run.out # "ok"
      BY <2>1, <2>2 DEF RunsInv
    <2>3. CASE run.out = "ok" /\ torn
      BY <2>1, <2>3 DEF RunsInv
    <2>4. CASE run.out = "ok" /\ ~torn
      <3>1. /\ Used(disk) = {run.layout} /\ disk.caddyfile.by = "webspec"
            /\ sockets.from = "shipped" /\ Held = Families(run.layout)
        BY <2>4 DEF RunsInv
      <3>2. run.layout \in {"ipv4", "dual"}
        BY <1>1 DEF Run
      <3>3. Fits(disk)
        BY <3>1, <3>2, FitsHeld
      <3>4. runs' = Running(disk) /\ UNCHANGED sockets
        BY <1>13, <3>1, <3>3 DEF CaddyRestarts
      <3>5. Used(disk)' = Used(disk) /\ Held' = Held
        BY <2>1, <3>4 DEF Used, Held
      <3>6. QED
        BY <2>1, <2>4, <3>1, <3>4, <3>5 DEF RunsInv
    <2>5. QED
      BY <2>2, <2>3, <2>4 DEF TypeOK
  <1>14. CASE Foreign
    <2>1. UNCHANGED <<disk, host, run, switch, torn, runs>>
      BY <1>14 DEF Foreign
    <2>2. Held' = Held /\ sockets'.from = sockets.from
      <3>1. CASE UNCHANGED sockets
        BY <3>1 DEF Held
      <3>2. CASE \E f \in {4, 6}, who \in {"free", "foreign"} :
                    OneSocket(f, who) /\ sockets.of[f] \in {"free", "foreign"}
        BY <3>2 DEF OneSocket, Held
      <3>3. CASE CaddyRestarts /\ sockets.from = "none"
        <4>1. PICK f \in {4, 6} : \/ sockets.of[f] = "free" /\ sockets' = [sockets EXCEPT !.of[f] = "foreign"]
                                  \/ sockets.of[f] = "foreign" /\ sockets' = [sockets EXCEPT !.of[f] = "free"]
          BY <1>14 DEF Foreign
        <4>2. sockets \in Sockets /\ {"free", "foreign"} \subseteq Holders
          BY DEF TypeOK, Holders
        <4>3. QED
          <5>1. CASE sockets.of[f] = "free" /\ sockets' = [sockets EXCEPT !.of[f] = "foreign"]
            BY <4>2, <5>1, SocketsUpdated DEF Held
          <5>2. CASE sockets.of[f] = "foreign" /\ sockets' = [sockets EXCEPT !.of[f] = "free"]
            BY <4>2, <5>2, SocketsUpdated DEF Held
          <5>3. QED
            BY <4>1, <5>1, <5>2
      <3>4. QED
        BY <1>14, <3>1, <3>2, <3>3, OneSocketChanges
    <2>3. QED
      BY <2>1, <2>2, RunsAlone
  <1>15. CASE Reboot
    <2>1. run'.at = "idle" /\ run'.out # "ok"
      BY <1>15, IdleRun DEF Reboot
    <2>2. QED
      BY <2>1 DEF RunsInv
  <1>16. QED
    BY <1>3, <1>4, <1>5, <1>6, <1>7, <1>8, <1>9, <1>10, <1>11, <1>12, <1>13, <1>14, <1>15 DEF Next, Script, Switch

-----------------------------------------------------------------------------
(* Theorems.                                                               *)

Inv ==
    /\ TypeOK /\ LeftPlanned
    /\ SocketsInv /\ UnitsInv
    /\ StageInv /\ WritesInv
    /\ HostsInv /\ DomainInv
    /\ RunsInv

LEMMA InitInv == Init => Inv
  <1> SUFFICES ASSUME Init PROVE Inv
    OBVIOUS
  <1>1. PICK m \in Machines : /\ disk = m.disk /\ host = m.host /\ services = m.services
                              /\ sockets = m.sockets /\ tunnel = m.tunnel
    BY DEF Init
  <1>2. /\ disk \in Disk /\ host \in Host /\ services \in Configurations
        /\ sockets \in Sockets /\ tunnel \in Tunnel
        /\ sockets.from # "none" => sockets.of[4] = "systemd"
        /\ sockets.of[6] = "systemd" => host.v6
        /\ sockets.from = "shipped" => host.unit = "shipped"
    BY <1>1, SetupAssumption
  <1>3. /\ runs = (IF Fits(disk) THEN Running(disk) ELSE Down) /\ run = Idle /\ switch = "none" /\ torn = FALSE
        /\ due = ServedToday(disk) /\ base = disk /\ done = [runs |-> 0, others |-> 0]
    BY DEF Init
  <1>4. run \in Run /\ run.at = "idle" /\ run.out = "none"
    BY <1>3, IdleRun
  <1>5. TypeOK
    <2>1. FilesTyped
      BY <1>2, <1>3, <1>4, ServedTyped DEF FilesTyped
    <2>2. runs \in Runs
      BY <1>2, <1>3, RunningTyped DEF Runs
    <2>3. done \in [runs: 0 .. MaxRuns, others: 0 .. MaxOthers]
      BY <1>3, SetupAssumption
    <2>4. HostTyped
      BY <1>2, <1>3, <2>2, <2>3 DEF HostTyped, Switches
    <2>5. QED
      BY <2>1, <2>4, TypeParts
  <1>6. LeftPlanned /\ UnitsInv /\ StageInv /\ WritesInv /\ DomainInv /\ RunsInv
    BY <1>3, <1>4 DEF LeftPlanned, UnitsInv, StageInv, WritesInv, DomainInv, RunsInv, Changing, Later
  <1>7. SocketsInv
    BY <1>2, <1>3 DEF SocketsInv, Downed, Freed
  <1>8. HostsInv
    BY <1>3, <1>4 DEF HostsInv, Changing, Later
  <1>9. QED
    BY <1>5, <1>6, <1>7, <1>8 DEF Inv

LEMMA NextInv == Inv /\ [Next]_vars => Inv'
  <1> SUFFICES ASSUME Inv, [Next]_vars PROVE Inv'
    OBVIOUS
  <1>1. /\ TypeOK /\ LeftPlanned /\ SocketsInv /\ UnitsInv /\ StageInv /\ WritesInv
        /\ HostsInv /\ DomainInv /\ RunsInv
    BY DEF Inv
  <1>2. FileStep
    BY <1>1, Kinds
  <1>3. TypeOK'
    <2>1. FilesTyped' /\ HostTyped'
      BY <1>1, <1>2, FilesTypeKept, HostTypeKept
    <2>2. QED
      BY <2>1 DEF TypeOK, FilesTyped, HostTyped, Switches, Runs
  <1>4. LeftPlanned' /\ StageInv' /\ WritesInv'
    BY <1>1, <1>2, LeftKept, StageKept, WritesKept
  <1>5. UnitsInv' /\ SocketsInv' /\ RunsInv'
    BY <1>1, <1>2, UnitsKept, SocketsKept, RunsKept
  <1>6. HostsInv' /\ DomainInv'
    BY <1>1, <1>2, HostsInvKept, DomainInvKept
  <1>7. QED
    BY <1>3, <1>4, <1>5, <1>6 DEF Inv

LEMMA AlwaysInv == Spec => []Inv
  BY InitInv, NextInv, PTL DEF Spec

\* The variables keep their types, whoever writes the files meanwhile.
THEOREM TypeCorrect == Spec => []TypeOK
  <1>1. Inv => TypeOK
    BY DEF Inv
  <1>2. QED
    BY <1>1, AlwaysInv, PTL

\* While the tunnel is up, no process but Caddy gets what cloudflared sends to Caddy's port
\* (run_cutover with its helper, which stop the tunnel first and start it last).
THEOREM TunnelIsSafe == Spec => []TunnelSafe
  <1>1. Inv => TunnelSafe
    <2> SUFFICES ASSUME Inv, tunnel = "up", sockets.from # "none" \/ switch \notin {"none", "start"}
                 PROVE  sockets.of[4] # "foreign"
      BY DEF TunnelSafe
    <2>1. SocketsInv /\ switch \in {"none", "start", "stopped", "stopped, tunnel", "free", "free, tunnel",
                                    "held", "ok", "failed"}
      BY DEF Inv, TypeOK
    <2>2. sockets.from # "none"
      BY <2>1 DEF SocketsInv, Downed
    <2>3. QED
      BY <2>1, <2>2 DEF SocketsInv
  <1>2. QED
    BY <1>1, AlwaysInv, PTL

\* Between runs every host that was served is served, unless the operator had it dropped or the
\* files were left torn (HostReport, which is asked again at each use of the plan).
THEOREM HostsAreKept == Spec => []HostsKept
  <1>1. Inv => HostsKept
    BY DEF Inv, HostsInv, HostsKept
  <1>2. QED
    BY <1>1, AlwaysInv, PTL

\* A run that was given no domain keeps the one that was recorded, and serves no other
\* (resolve_domain, with webspec-ctl changing what is recorded while the run plans).
THEOREM DomainIsKept == Spec => []DomainKept
  <1>1. Inv => DomainKept
    <2> SUFFICES ASSUME Inv, run.at \in {"check", "binary", "units", "switch", "waiting"},
                        ~run.given, ~run.overtaken, ~torn, RecordedDomain(base) \notin {"none", "error"}
                 PROVE  /\ disk.caddyfile.domain = RecordedDomain(base)
                        /\ \A x \in ServedToday(disk) : x[2] \in {"localhost", disk.caddyfile.domain}
      BY DEF DomainKept
    <2>1. run.at \in Later /\ run.domain = RecordedDomain(base)
      BY DEF Later, Inv, DomainInv
    <2>2. TypeOK /\ Written
      BY <2>1, StillWritten DEF Inv
    <2>3. QED
      BY <2>1, <2>2, WhatIsWritten
  <1>2. QED
    BY <1>1, AlwaysInv, PTL

\* A run that succeeds leaves Caddy with the files on disk and systemd with every socket; one that
\* refused or put back leaves what it found (keep_previous, put_back, the checks at the end).
THEOREM RunsEndWell == Spec => []EndsWell
  <1>1. Inv => EndsWell
    <2> SUFFICES ASSUME Inv PROVE EndsWell
      OBVIOUS
    <2>1. run.out = "ok" /\ ~torn =>
             /\ runs = Running(disk) /\ Used(disk) = {run.layout}
             /\ Families(PlannedListeners(host)) = Held
      BY DEF Inv, RunsInv
    <2>2. run.out \in {"refused", "put back"} => disk = base
      BY DEF Inv, StageInv
    <2>3. QED
      BY <2>1, <2>2 DEF EndsWell
  <1>2. QED
    BY <1>1, AlwaysInv, PTL

\* Files that do not fit the sockets, or leave one to others, are refused or reported
\* (caddy_status, listener_mismatch, unheld_listeners), whatever a reboot changed, on a machine
\* where nobody put a block for other sockets beside those of the Caddyfile.
THEOREM MisfitIsTold == (\A m \in Machines : Uniform(m.disk)) => (Spec => []MisfitTold)
  <1> SUFFICES ASSUME \A m \in Machines : Uniform(m.disk) PROVE Spec => []MisfitTold
    OBVIOUS
  <1>1. Init => UniformInv
    BY IdleRun DEF Init, UniformInv
  <1>2. Inv /\ UniformInv /\ [Next]_vars => UniformInv'
    BY Kinds, UniformKept DEF Inv
  <1>3. Inv /\ UniformInv => MisfitTold
    <2> SUFFICES ASSUME Inv, UniformInv, run.at = "idle", ~torn, disk.caddyfile.by = "webspec", disk.caddyfile.safe,
                        sockets.from = "shipped", Held = Passed, CaddyStatus(disk, host) = "managed",
                        ~UnheldListeners(host)
                 PROVE  Fits(disk) /\ Used(disk) = {SystemdListen(host)} /\ (host.v6 => 6 \in Held)
      BY DEF MisfitTold
    <2>1. host \in Host /\ host.unit = "shipped"
      BY DEF Inv, TypeOK, SocketsInv
    <2>2. SystemdListen(host) \in {"ipv4", "dual"} /\ InstalledListeners(host) = SystemdListen(host)
      BY <2>1, ListenTyped
    <2>3. disk.caddyfile.imports /\ disk.caddyfile.binds # "old" /\ disk.caddyfile.binds = SystemdListen(host)
      BY <2>2, Managed
    <2>4. Uniform(disk)
      BY DEF UniformInv
    <2>5. Used(disk) = {SystemdListen(host)}
      BY <2>3, <2>4 DEF Uniform
    <2>6. Held = Families(SystemdListen(host))
      BY DEF Passed
    <2>7. Fits(disk)
      BY <2>2, <2>5, <2>6, FitsHeld
    <2>8. host.v6 => 6 \in Held
      BY <2>1, <2>2, <2>6, FourPassed DEF UnheldListeners
    <2>9. QED
      BY <2>5, <2>7, <2>8
  <1>4. QED
    BY <1>1, <1>2, <1>3, AlwaysInv, PTL DEF Spec
================================================================================
