------------------------------- MODULE Publish -------------------------------
(***************************************************************************)
(* Public addresses: the routing table of publish.Proxy, the Caddyfile it  *)
(* is rendered to (internal/caddy), what the proxy container serves, and   *)
(* what state.yaml records as published.                                   *)
(*                                                                         *)
(* Everything that changes a route runs under the operation lock of        *)
(* ControlPlane, or while the web server starts and does not listen yet:   *)
(* one publisher call is under way at a time.  Between its steps the proxy *)
(* container may start, stop or be replaced and the web server may crash.  *)
(* The table is lost in a crash, the Caddyfile and the container are not.  *)
(***************************************************************************)
EXTENDS FiniteSets

CONSTANTS
  Apps,
  Routable,   \* apps whose cached definition names a container port
  Domains,    \* values of the challenge domain, a setting the Caddyfile holds
  Local,      \* config.Public.Transport is "local", not "direct"
  Faults,     \* what may go wrong in this instance
  None

AllFaults == {"crash",    \* the web process dies, systemd starts it again
              "write",    \* the Caddyfile cannot be written
              "reload",   \* a reload fails: the proxy refuses it, or stops before it
              "gateway",  \* the shared network has no gateway
              "proxy",    \* the proxy container stops
              "slow"}     \* a proxy that has just started refuses to reload

Auth  == "_auth"     \* authRouteKey
Admin == "_admin"    \* adminRouteKey
Caddy == "caddy"     \* the app that is the proxy
Keys  == Apps \cup {Auth, Admin}

\* Who calls the publisher: the handlers of the login, of the web UI, of apps
\* and of the settings, the install jobs of apps and of the proxy, and
\* Bootstrap.
Callers == {"auth", "admin", "app", "settings", "install", "caddy", "boot"}

ASSUME RoutableAssumption == Routable \subseteq Apps
ASSUME KeysAssumption     == Apps \cap {Auth, Admin, Caddy, None} = {}
ASSUME NoneAssumption     == None \notin Callers \cup {"add", "drop", "refresh"}
ASSUME DomainsAssumption  == Domains # {}
ASSUME ScopeAssumption    == Local \in BOOLEAN /\ Faults \subseteq AllFaults

\* A Caddyfile.  A route is known by its key: host and upstream follow from
\* the key and from settings that do not change here.
Config == [domain : Domains, routes : SUBSET Keys]

ASSUME ConfigAssumption == None \notin Config

VARIABLES
  up,         \* the web process runs
  domain,     \* cfg.Public.Local.ChallengeDomain
  table,      \* keys of Proxy.routes
  file,       \* the Caddyfile, or None
  proxy,      \* the container: "absent", "down", "starting", "ready"
  served,     \* the configuration of a container that runs, or None
  installed,  \* state.Containers
  pub,        \* the apps among them with PublicEnabled
  adminPub,   \* state.AdminPublished
  op          \* the publisher call under way

state == <<installed, pub, adminPub>>
vars  == <<up, domain, table, file, proxy, served, installed, pub, adminPub, op>>

Call == [who  : Callers \cup {None},
         call : {"add", "drop", "refresh", None},
         key  : Keys \cup {None},
         had  : BOOLEAN,       \* Enable, StartAdmin: the route existed before
         ok   : BOOLEAN,
         flag : BOOLEAN,       \* settings: the DNS token is a new one
         todo : SUBSET Keys,   \* boot: what is still to be published
         step : {"none", "wait", "apply", "running", "reload", "end", "compose"}]

NoCall == [who |-> None, call |-> None, key |-> None, had |-> FALSE, ok |-> TRUE,
           flag |-> FALSE, todo |-> {}, step |-> "none"]

TypeOK ==
  /\ up \in BOOLEAN
  /\ domain \in Domains
  /\ table \in SUBSET Keys
  /\ file \in Config \cup {None}
  /\ proxy \in {"absent", "down", "starting", "ready"}
  /\ served \in Config \cup {None}
  /\ installed \in SUBSET (Apps \cup {Caddy})
  /\ pub \in SUBSET (installed \ {Caddy})
  /\ adminPub \in BOOLEAN
  /\ op \in Call

Running == proxy \in {"starting", "ready"}    \* docker.IsRunning
Idle    == up /\ op = NoCall
Recorded == pub \cup (IF adminPub THEN {Admin} ELSE {})

\* The hosts that answer.
Sites == IF Running THEN served.routes ELSE {}

-----------------------------------------------------------------------------
\* A server that has been set up; nothing installed or published, and the web
\* process about to start.
Init ==
  /\ up = FALSE
  /\ domain \in Domains
  /\ table = {}
  /\ file = None
  /\ proxy = "absent"
  /\ served = None
  /\ installed = {}
  /\ pub = {}
  /\ adminPub = FALSE
  /\ op = NoCall

-----------------------------------------------------------------------------
\* Publisher calls: the change of the table, under Proxy.mu.

\* Enable, EnsureAuth, StartAdmin: the route is in the table before the proxy
\* has accepted it.
Add(w, k) ==
  /\ table' = table \cup {k}
  /\ op' = [NoCall EXCEPT !.who = w, !.call = "add", !.key = k,
                          !.had = k \in table, !.step = "apply"]

\* Variant: remove does not apply what it has changed.
DropUnapplied(w, k) ==
  /\ table' = table \ {k}
  /\ op' = [NoCall EXCEPT !.who = w, !.call = "drop", !.key = k, !.step = "end"]

\* remove: an unknown route is a success at once.
Drop(w, k) ==
  /\ table' = table \ {k}
  /\ op' = [NoCall EXCEPT !.who = w, !.call = "drop", !.key = k,
                          !.step = IF k \in table THEN "apply" ELSE "end"]

-----------------------------------------------------------------------------
\* Handlers and jobs up to their publisher call.

\* handleAuthPublishStart, handleAuthPublishStop
StartAuth ==
  /\ Idle
  /\ Add("auth", Auth)
  /\ UNCHANGED <<up, domain, file, proxy, served, state>>

StopAuth ==
  /\ Idle
  /\ Drop("auth", Auth)
  /\ UNCHANGED <<up, domain, file, proxy, served, state>>

\* handleAdminPublishStart: refused, with nothing changed, while the host has
\* no address on the shared network.
StartAdmin ==
  /\ Idle
  /\ Add("admin", Admin)
  /\ UNCHANGED <<up, domain, file, proxy, served, state>>

\* handleAdminPublishStop
StopAdmin ==
  /\ Idle
  /\ Drop("admin", Admin)
  /\ UNCHANGED <<up, domain, file, proxy, served, state>>

\* handleAppPublishEnable: refused for an app that is not installed or has no
\* container port.
EnableApp(a) ==
  /\ Idle
  /\ a \in installed \cap Routable
  /\ Add("app", a)
  /\ UNCHANGED <<up, domain, file, proxy, served, state>>

\* handleAppPublishDisable
DisableApp(a) ==
  /\ Idle
  /\ a \in installed
  /\ Drop("app", a)
  /\ UNCHANGED <<up, domain, file, proxy, served, state>>

\* An install job whose install has succeeded.  The app has a fresh entry, not
\* published.  With the local transport autoPublish enables it, and the job
\* commits afterwards; otherwise it commits the entry as it is.
InstallApp(a) ==
  /\ Idle
  /\ IF Local /\ a \in Routable
     THEN Add("install", a) /\ UNCHANGED state
     ELSE /\ installed' = installed \cup {a}
          /\ pub' = pub \ {a}
          /\ UNCHANGED <<table, op, adminPub>>
  /\ UNCHANGED <<up, domain, file, proxy, served>>

\* Variant: the flag outlives the app.
RemoveAppKeepsFlag(a) ==
  /\ Idle
  /\ a \in installed
  /\ installed' = installed \ {a}
  /\ UNCHANGED <<up, domain, table, file, proxy, served, pub, adminPub, op>>

\* handleAppRemove: no publisher call.
RemoveApp(a) ==
  /\ Idle
  /\ a \in installed
  /\ installed' = installed \ {a}
  /\ pub' = pub \ {a}
  /\ UNCHANGED <<up, domain, table, file, proxy, served, adminPub, op>>

\* handleSettingsPost with changed certificate settings: a new challenge
\* domain or a new DNS token, saved before the proxy hears of it.
SaveSettings(d, token) ==
  /\ Idle /\ Local
  /\ d # domain \/ token
  /\ domain' = d
  /\ op' = [NoCall EXCEPT !.who = "settings", !.call = "refresh",
                          !.flag = token, !.step = "apply"]
  /\ UNCHANGED <<up, table, file, proxy, served, state>>

\* The install job of the proxy itself has started the container.  With the
\* local transport autoPublishAdmin publishes the web UI, once, and the job
\* commits afterwards.
InstallProxy ==
  /\ Idle
  /\ proxy \in {"absent", "down"} /\ file # None
  /\ proxy' = IF "slow" \in Faults THEN "starting" ELSE "ready"
  /\ served' = file
  /\ IF Local /\ ~adminPub
     THEN /\ op' = [NoCall EXCEPT !.who = "caddy", !.step = "wait"]
          /\ UNCHANGED installed
     ELSE /\ installed' = installed \cup {Caddy}
          /\ UNCHANGED op
  /\ UNCHANGED <<up, domain, table, file, pub, adminPub>>

\* handleAppRemove for the proxy.
RemoveProxy ==
  /\ Idle
  /\ Caddy \in installed
  /\ installed' = installed \ {Caddy}
  /\ proxy' = "absent"
  /\ served' = None
  /\ UNCHANGED <<up, domain, table, file, pub, adminPub, op>>

\* waitForProxy: reloads until the proxy accepts, or gives up after 20 tries.
WaitForProxy ==
  /\ op.step = "wait"
  /\ \/ /\ proxy = "ready"
        /\ served' = file
        /\ Add("caddy", Admin)
        /\ UNCHANGED installed
     \/ /\ proxy # "ready"
        /\ installed' = installed \cup {Caddy}
        /\ op' = NoCall
        /\ UNCHANGED <<table, served>>
  /\ UNCHANGED <<up, domain, file, proxy, pub, adminPub>>

-----------------------------------------------------------------------------
\* Proxy.apply and caddy.Apply.

\* Variant: only the route of the call is rendered.
RenderOnlyKey ==
  /\ op.step = "apply"
  /\ file' = [domain |-> domain, routes |-> table \cap {op.key, Auth}]
  /\ op' = [op EXCEPT !.step = "running"]
  /\ UNCHANGED <<up, domain, table, proxy, served, state>>

\* The table is rendered as a whole; the file is replaced in one rename, and
\* left alone when it has the same content already: then nothing is reloaded.
Render ==
  /\ op.step = "apply"
  /\ LET new == [domain |-> domain, routes |-> table] IN
     IF file = new
     THEN op' = [op EXCEPT !.step = "end"] /\ UNCHANGED file
     ELSE \/ file' = new /\ op' = [op EXCEPT !.step = "running"]
          \/ /\ "write" \in Faults
             /\ op' = [op EXCEPT !.step = "end", !.ok = FALSE]
             /\ UNCHANGED file
  /\ UNCHANGED <<up, domain, table, proxy, served, state>>

\* A proxy that does not run reads the file when it starts.
CheckRunning ==
  /\ op.step = "running"
  /\ op' = [op EXCEPT !.step = IF Running THEN "reload" ELSE "end"]
  /\ UNCHANGED <<up, domain, table, file, proxy, served, state>>

\* caddy.Reload: the proxy swaps in the file, or keeps what it has.
Reload ==
  /\ op.step = "reload"
  /\ \/ /\ proxy = "ready"
        /\ served' = file
        /\ op' = [op EXCEPT !.step = "end"]
     \/ /\ proxy # "ready" \/ "reload" \in Faults
        /\ op' = [op EXCEPT !.step = "end", !.ok = FALSE]
        /\ UNCHANGED served
  /\ UNCHANGED <<up, domain, table, file, proxy, state>>

-----------------------------------------------------------------------------
\* The call returns: on an error Enable and StartAdmin put the table back,
\* EnsureAuth and remove do not; then its caller records the outcome.
PutBack ==
  IF ~op.ok /\ op.call = "add" /\ op.key # Auth /\ ~op.had
  THEN table \ {op.key}
  ELSE table

\* Login: nothing is recorded.
EndAuth ==
  /\ op.step = "end" /\ op.who = "auth"
  /\ table' = PutBack
  /\ op' = NoCall
  /\ UNCHANGED <<up, domain, file, proxy, served, state>>

\* The web UI, published by its handler or by the job that installed the
\* proxy.
EndAdmin ==
  /\ op.step = "end" /\ op.who \in {"admin", "caddy"}
  /\ table' = PutBack
  /\ adminPub' = IF op.ok THEN op.call = "add" ELSE adminPub
  /\ installed' = installed \cup (IF op.who = "caddy" THEN {Caddy} ELSE {})
  /\ op' = NoCall
  /\ UNCHANGED <<up, domain, file, proxy, served, pub>>

\* handleAppPublishEnable, handleAppPublishDisable
EndApp ==
  /\ op.step = "end" /\ op.who = "app"
  /\ table' = PutBack
  /\ pub' = CASE ~op.ok           -> pub
              [] op.call = "add"  -> pub \cup {op.key}
              [] op.call = "drop" -> pub \ {op.key}
  /\ op' = NoCall
  /\ UNCHANGED <<up, domain, file, proxy, served, installed, adminPub>>

\* The install job commits the app with or without its address.
EndInstall ==
  /\ op.step = "end" /\ op.who = "install"
  /\ table' = PutBack
  /\ installed' = installed \cup {op.key}
  /\ pub' = IF op.ok THEN pub \cup {op.key} ELSE pub \ {op.key}
  /\ op' = NoCall
  /\ UNCHANGED <<up, domain, file, proxy, served, adminPub>>

\* applyCertificateSettings: whatever became of the refresh, `docker compose
\* up` follows when the proxy is installed.  It replaces the container when
\* its environment, the token, has changed, and starts one that is down.
EndSettings ==
  /\ op.step = "end" /\ op.who = "settings"
  /\ op' = IF Caddy \in installed THEN [op EXCEPT !.step = "compose"] ELSE NoCall
  /\ UNCHANGED <<up, domain, table, file, proxy, served, state>>

ComposeProxy ==
  /\ op.step = "compose"
  /\ IF op.flag \/ proxy = "down"
     THEN /\ proxy' = IF "slow" \in Faults THEN "starting" ELSE "ready"
          /\ served' = file
     ELSE UNCHANGED <<proxy, served>>
  /\ op' = NoCall
  /\ UNCHANGED <<up, domain, table, file, state>>

-----------------------------------------------------------------------------
\* publish.Bootstrap, before the server listens: the login, then app after
\* app, then the web UI, on a table that is empty at first.

\* Variant: Bootstrap leaves the web UI to the admin.
BootForgetsAdmin ==
  /\ ~up
  /\ up' = TRUE
  /\ table' = {Auth}
  /\ op' = [NoCall EXCEPT !.who = "boot", !.call = "add", !.key = Auth,
                          !.step = "apply", !.todo = pub]
  /\ UNCHANGED <<domain, file, proxy, served, state>>

Boot ==
  /\ ~up
  /\ up' = TRUE
  /\ table' = {Auth}
  /\ op' = [NoCall EXCEPT !.who = "boot", !.call = "add", !.key = Auth,
                          !.step = "apply", !.todo = Recorded]
  /\ UNCHANGED <<domain, file, proxy, served, state>>

\* Variant: Restore stops at the first app that fails.
BootNextGivesUp ==
  /\ op.step = "end" /\ op.who = "boot"
  /\ IF op.todo = {} \/ op.key # Auth
     THEN table' = PutBack /\ op' = NoCall
     ELSE \E k \in op.todo :
            /\ table' = PutBack \cup {k}
            /\ op' = [op EXCEPT !.key = k, !.had = k \in PutBack, !.ok = TRUE,
                                !.step = "apply", !.todo = @ \ {k}]
  /\ UNCHANGED <<up, domain, file, proxy, served, state>>

\* One call is over; errors are only logged.
BootNext ==
  /\ op.step = "end" /\ op.who = "boot"
  /\ IF op.todo = {}
     THEN table' = PutBack /\ op' = NoCall
     ELSE \E k \in op.todo :
            /\ k = Admin => op.todo = {Admin}
            /\ \/ /\ table' = PutBack \cup {k}
                  /\ op' = [op EXCEPT !.key = k, !.had = k \in PutBack,
                                      !.ok = TRUE, !.step = "apply",
                                      !.todo = @ \ {k}]
               \/ /\ k = Admin /\ "gateway" \in Faults
                  /\ table' = PutBack
                  /\ op' = NoCall
  /\ UNCHANGED <<up, domain, file, proxy, served, state>>

\* The web process dies; with it the table and what was under way.
Crash ==
  /\ up /\ "crash" \in Faults
  /\ up' = FALSE
  /\ table' = {}
  /\ op' = NoCall
  /\ UNCHANGED <<domain, file, proxy, served, state>>

-----------------------------------------------------------------------------
\* The proxy container, by itself or by way of Docker.

ProxyStart ==
  /\ proxy = "down"
  /\ proxy' = IF "slow" \in Faults THEN "starting" ELSE "ready"
  /\ served' = file
  /\ UNCHANGED <<up, domain, table, file, state, op>>

ProxyReady ==
  /\ proxy = "starting"
  /\ proxy' = "ready"
  /\ UNCHANGED <<up, domain, table, file, served, state, op>>

\* Between docker.IsRunning and the reload, a moment later, only where reloads
\* may fail.
ProxyStop ==
  /\ Running /\ "proxy" \in Faults
  /\ op.step = "reload" => "reload" \in Faults
  /\ proxy' = "down"
  /\ served' = None
  /\ UNCHANGED <<up, domain, table, file, state, op>>

-----------------------------------------------------------------------------
Request ==
  \/ StartAuth \/ StopAuth \/ StartAdmin \/ StopAdmin
  \/ InstallProxy \/ RemoveProxy
  \/ \E a \in Apps : EnableApp(a) \/ DisableApp(a) \/ InstallApp(a) \/ RemoveApp(a)
  \/ \E d \in Domains, token \in BOOLEAN : SaveSettings(d, token)

\* The steps of the call under way.
Step ==
  \/ WaitForProxy \/ Render \/ CheckRunning \/ Reload
  \/ EndAuth \/ EndAdmin \/ EndApp \/ EndInstall \/ EndSettings \/ ComposeProxy
  \/ BootNext

Next ==
  \/ Request \/ Step \/ Boot \/ Crash
  \/ ProxyStart \/ ProxyReady \/ ProxyStop

Spec == Init /\ [][Next]_vars

\* The process goes on with its call, systemd restarts it (Restart=always),
\* Docker restarts the container (restart: unless-stopped) and it gets ready.
Fairness ==
  /\ WF_vars(Step)
  /\ WF_vars(Boot)
  /\ WF_vars(ProxyStart)
  /\ WF_vars(ProxyReady)

FairSpec == Spec /\ Fairness

-----------------------------------------------------------------------------
\* While nothing is under way the proxy serves exactly the routing table,
\* with the settings in force, even though it may have started or stopped
\* between any two steps of a call: a call that found it down relies on its
\* start, one that found it running on the reload.  (In the absence of
\* crashes and refused reloads; see RunningIsServed.)
ServedIsTable ==
  Idle /\ Running => served = [domain |-> domain, routes |-> table]

\* What state.yaml records as published is in the routing table whenever
\* nothing is under way, crashes at any point included: the publisher call
\* comes before the commit, and a restart brings back all of it.
RecordedIsRouted == Idle => Recorded \subseteq table

\* A site that is routed and served is not disturbed by a call for another
\* site, whichever of that call's steps fail: rewriting the whole file costs
\* no other site, and a refused configuration leaves the old one in place.
OtherSitesStay ==
  [][\A k \in (table \cap Sites) \ {op.key} :
        op.who # "boot" /\ Running /\ Running' /\ op.step # "compose"
        => k \in Sites']_vars

\* Once the web server and the proxy stay up, everything recorded as published is
\* served again. (It is not where a reload meets a proxy that has just started and
\* refuses it, as after a reboot: Bootstrap does not wait for the proxy
\* (publish.go:118-121) as autoPublishAdmin does (adminaddress.go:30-31), Enable
\* puts the route back (proxy.go:162-168), and nobody tries again before the next
\* restart.)
PublishedComesBack == <>[](up /\ Running) => []<>(Idle /\ Recorded \subseteq Sites)

\* The Caddyfile can be written, a proxy that runs is ready and refuses no reload,
\* and the shared network has a gateway.
Reliable == Faults \cap {"write", "reload", "slow", "gateway"} = {}

\* That premise granted it holds, however often the web server has crashed and the
\* proxy has stopped, in the middle of a restart too.
RestartRestores == Reliable => PublishedComesBack

\* publish.StatusRunning is "published and believed reachable", and on an error
\* Enable and StartAdmin put the table back "so it keeps describing what the
\* proxy is actually serving" (proxy.go:160).
RunningIsServed == Idle /\ proxy = "ready" => table \ {Auth} \subseteq Sites

\* The other way round, for the same comment: what is neither in the table nor
\* recorded as published is not served.
WithdrawnIsGone ==
  Idle /\ Running => Sites \ {Auth} \subseteq table \cup Recorded

\* "stackctl restarting must not take every published app offline with it"
\* (proxy.go:192).
RestartKeepsSites ==
  [][\A a \in pub \cap Sites : op.who = "boot" /\ Running' => a \in Sites']_vars

\* "Every name under the base resolves here, published or not", with a plain
\* answer for "an app that was removed" (caddy.go:155): no app is served that
\* is not installed.
RemovedIsUnserved == Idle => Sites \subseteq installed \cup {Auth, Admin}
=============================================================================
