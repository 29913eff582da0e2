--------------------------- MODULE Publish_proofs ---------------------------
(***************************************************************************)
(* Theorems about Publish: its types, that a call for one site leaves the  *)
(* other sites alone whatever fails, and that what is recorded as          *)
(* published is routed as long as no write or reload fails, and that the   *)
(* proxy serves the routing table.                                         *)
(***************************************************************************)
EXTENDS Publish, TLAPS

-----------------------------------------------------------------------------
\* Types.

\* Which calls there are: what a caller asks for fits the caller.  An app that
\* is being published or withdrawn stays installed during the call.
CallShape ==
  /\ op.who = None       => op = NoCall
  /\ op.who = "auth"     => op.call \in {"add", "drop"} /\ op.key = Auth
  /\ op.who = "admin"    => op.call \in {"add", "drop"} /\ op.key = Admin
  /\ op.who = "app"      => op.call \in {"add", "drop"} /\ op.key \in installed \cap Apps
  /\ op.who = "settings" => op.call = "refresh"
  /\ op.who = "install"  => op.call = "add" /\ op.key \in Apps
  /\ op.who = "caddy"    => \/ op.call = None /\ op.step = "wait"
                            \/ op.call = "add" /\ op.key = Admin /\ op.step # "wait"
  /\ op.who = "boot"     => op.call = "add"
  /\ op.step = "wait"    => op.who = "caddy"
  /\ op.step = "compose" => op.who = "settings"

\* The call record of a table change is well typed.
LEMMA AddTypes ==
  ASSUME TypeOK, NEW w \in {"auth", "admin", "app", "install", "caddy"},
         NEW k \in Keys, Add(w, k)
  PROVE  table' \in SUBSET Keys /\ op' \in Call
<1> DEFINE h == k \in table
<1>1. h \in BOOLEAN
  OBVIOUS
<1>2. op' = [who |-> w, call |-> "add", key |-> k, had |-> h, ok |-> TRUE,
             flag |-> FALSE, todo |-> {}, step |-> "apply"]
  BY DEF Add, NoCall
<1>3. table' \in SUBSET Keys
  BY DEF TypeOK, Add
<1> HIDE DEF h
<1> QED  BY <1>1, <1>2, <1>3 DEF Call, Callers

\* The call record of a withdrawal is well typed.
LEMMA DropTypes ==
  ASSUME TypeOK, NEW w \in {"auth", "admin", "app"}, NEW k \in Keys, Drop(w, k)
  PROVE  table' \in SUBSET Keys /\ op' \in Call
BY DEF TypeOK, Drop, Call, Callers, NoCall

\* Putting the table back keeps it a set of keys.
LEMMA PutBackTypes ==
  ASSUME TypeOK
  PROVE  PutBack \in SUBSET Keys
BY DEF TypeOK, PutBack

\* The absence of a call is well typed.
LEMMA NoCallTypes == NoCall \in Call
BY DEF NoCall, Call, Callers

\* Types and the shape of a call hold initially.
LEMMA TypeInit == Init => TypeOK /\ CallShape
<1>1. Init => TypeOK
  BY NoCallTypes DEF Init, TypeOK
<1>2. Init => CallShape
  BY NoneAssumption DEF Init, CallShape, NoCall, Callers
<1> QED  BY <1>1, <1>2

\* A request keeps the types.
LEMMA TypeRequest == TypeOK /\ Request => TypeOK'
<1> SUFFICES ASSUME TypeOK, Request PROVE TypeOK'
  OBVIOUS
<1> USE NoCallTypes
<1>0. Auth \in Keys /\ Admin \in Keys /\ Apps \subseteq Keys
  BY DEF Keys
<1>1. CASE StartAuth
  <2>1. table' \in SUBSET Keys /\ op' \in Call
    BY <1>0, <1>1, AddTypes DEF StartAuth
  <2> QED  BY <2>1, <1>1 DEF StartAuth, TypeOK, state
<1>2. CASE StopAuth
  <2>1. table' \in SUBSET Keys /\ op' \in Call
    BY <1>0, <1>2, DropTypes DEF StopAuth
  <2> QED  BY <2>1, <1>2 DEF StopAuth, TypeOK, state
<1>3. CASE StartAdmin
  <2>1. table' \in SUBSET Keys /\ op' \in Call
    BY <1>0, <1>3, AddTypes DEF StartAdmin
  <2> QED  BY <2>1, <1>3 DEF StartAdmin, TypeOK, state
<1>4. CASE StopAdmin
  <2>1. table' \in SUBSET Keys /\ op' \in Call
    BY <1>0, <1>4, DropTypes DEF StopAdmin
  <2> QED  BY <2>1, <1>4 DEF StopAdmin, TypeOK, state
<1>5. CASE InstallProxy
  <2>1. op' \in Call
    BY <1>5 DEF InstallProxy, TypeOK, Call, Callers, NoCall
  <2> QED  BY <2>1, <1>5, KeysAssumption DEF InstallProxy, TypeOK, Caddy
<1>6. CASE RemoveProxy
  BY <1>6 DEF RemoveProxy, TypeOK
<1>7. ASSUME NEW a \in Apps, EnableApp(a) PROVE TypeOK'
  <2>1. table' \in SUBSET Keys /\ op' \in Call
    BY <1>0, <1>7, AddTypes DEF EnableApp
  <2> QED  BY <2>1, <1>7 DEF EnableApp, TypeOK, state
<1>8. ASSUME NEW a \in Apps, DisableApp(a) PROVE TypeOK'
  <2>1. table' \in SUBSET Keys /\ op' \in Call
    BY <1>0, <1>8, DropTypes DEF DisableApp
  <2> QED  BY <2>1, <1>8 DEF DisableApp, TypeOK, state
<1>9. ASSUME NEW a \in Apps, InstallApp(a) PROVE TypeOK'
  <2>1. CASE Local /\ a \in Routable
    <3>1. table' \in SUBSET Keys /\ op' \in Call
      BY <1>0, <1>9, <2>1, AddTypes DEF InstallApp
    <3> QED  BY <3>1, <2>1, <1>9 DEF InstallApp, TypeOK, state
  <2>2. CASE ~(Local /\ a \in Routable)
    BY <2>2, <1>9 DEF InstallApp, TypeOK
  <2> QED  BY <2>1, <2>2
<1>10. ASSUME NEW a \in Apps, RemoveApp(a) PROVE TypeOK'
  BY <1>10, KeysAssumption DEF RemoveApp, TypeOK
<1>11. ASSUME NEW d \in Domains, NEW token \in BOOLEAN, SaveSettings(d, token)
       PROVE  TypeOK'
  <2>1. op' \in Call
    BY <1>11 DEF SaveSettings, TypeOK, Call, Callers, NoCall
  <2> QED  BY <2>1, <1>11 DEF SaveSettings, TypeOK, state
<1> QED
  BY <1>1, <1>2, <1>3, <1>4, <1>5, <1>6, <1>7, <1>8, <1>9, <1>10, <1>11
  DEF Request

\* A step of the call under way keeps the types.
LEMMA TypeStep == TypeOK /\ CallShape /\ Step => TypeOK'
<1> SUFFICES ASSUME TypeOK, CallShape, Step PROVE TypeOK'
  OBVIOUS
<1> USE NoCallTypes
<1>0. Auth \in Keys /\ Admin \in Keys /\ Apps \subseteq Keys
  BY DEF Keys
<1>1. CASE WaitForProxy
  <2>1. CASE proxy = "ready"
    <3>1. table' \in SUBSET Keys /\ op' \in Call
      BY <1>0, <1>1, <2>1, AddTypes DEF WaitForProxy
    <3> QED  BY <3>1, <2>1, <1>1 DEF WaitForProxy, TypeOK
  <2>2. CASE proxy # "ready"
    BY <2>2, <1>1, KeysAssumption DEF WaitForProxy, TypeOK, Caddy
  <2> QED  BY <2>1, <2>2
<1>2. CASE Render
  <2>1. op' \in Call
    <3>1. \/ op' = [op EXCEPT !.step = "end"]
          \/ op' = [op EXCEPT !.step = "running"]
          \/ op' = [op EXCEPT !.step = "end", !.ok = FALSE]
      BY <1>2 DEF Render
    <3> QED  BY <3>1 DEF TypeOK, Call
  <2>2. file' \in Config \cup {None}
    BY <1>2 DEF Render, TypeOK, Config
  <2> QED  BY <2>1, <2>2, <1>2 DEF Render, TypeOK, state
<1>3. CASE CheckRunning
  BY <1>3 DEF CheckRunning, TypeOK, Call, state
<1>4. CASE Reload
  <2>1. op' \in Call
    BY <1>4 DEF Reload, TypeOK, Call
  <2> QED  BY <2>1, <1>4 DEF Reload, TypeOK, state
<1>5. CASE EndAuth
  BY <1>5, PutBackTypes DEF EndAuth, TypeOK, state
<1>6. CASE EndAdmin
  <2>1. installed' \in SUBSET (Apps \cup {Caddy}) /\ installed \subseteq installed'
    BY <1>6 DEF EndAdmin, TypeOK
  <2>2. adminPub' \in BOOLEAN
    BY <1>6 DEF EndAdmin, TypeOK
  <2> QED  BY <2>1, <2>2, <1>6, PutBackTypes DEF EndAdmin, TypeOK
<1>7. CASE EndApp
  <2>1. op.key \in installed \ {Caddy}
    BY <1>7, KeysAssumption DEF EndApp, CallShape
  <2>2. pub' \in SUBSET (installed' \ {Caddy})
    BY <2>1, <1>7 DEF EndApp, TypeOK, CallShape
  <2> QED  BY <2>2, <1>7, PutBackTypes DEF EndApp, TypeOK
<1>8. CASE EndInstall
  <2>1. op.key \in Apps \ {Caddy}
    BY <1>8, KeysAssumption DEF EndInstall, CallShape
  <2>2. /\ installed' \in SUBSET (Apps \cup {Caddy})
        /\ pub' \in SUBSET (installed' \ {Caddy})
    BY <2>1, <1>8 DEF EndInstall, TypeOK
  <2> QED  BY <2>2, <1>8, PutBackTypes DEF EndInstall, TypeOK
<1>9. CASE EndSettings
  BY <1>9 DEF EndSettings, TypeOK, Call, state
<1>10. CASE ComposeProxy
  BY <1>10 DEF ComposeProxy, TypeOK, state
<1>11. CASE BootNext
  <2>1. CASE op' = NoCall /\ table' = PutBack
    BY <2>1, <1>11, PutBackTypes DEF BootNext, TypeOK, state
  <2>2. CASE \E k \in op.todo :
               /\ table' = PutBack \cup {k}
               /\ op' = [op EXCEPT !.key = k, !.had = k \in PutBack,
                                   !.ok = TRUE, !.step = "apply",
                                   !.todo = @ \ {k}]
    <3>1. PICK k \in op.todo :
               /\ table' = PutBack \cup {k}
               /\ op' = [op EXCEPT !.key = k, !.had = k \in PutBack,
                                   !.ok = TRUE, !.step = "apply",
                                   !.todo = @ \ {k}]
      BY <2>2
    <3>2. k \in Keys
      BY <3>1 DEF TypeOK, Call
    <3> DEFINE h == k \in PutBack
    <3>3. h \in BOOLEAN
      OBVIOUS
    <3>4. op' = [op EXCEPT !.key = k, !.had = h, !.ok = TRUE, !.step = "apply",
                           !.todo = op.todo \ {k}]
      BY <3>1
    <3>5. table' \in SUBSET Keys
      BY <3>1, <3>2, PutBackTypes
    <3> HIDE DEF h
    <3>6. op' \in Call
      BY <3>2, <3>3, <3>4 DEF TypeOK, Call
    <3> QED  BY <3>5, <3>6, <1>11 DEF BootNext, TypeOK, state
  <2> QED  BY <2>1, <2>2, <1>11 DEF BootNext
<1> QED
  BY <1>1, <1>2, <1>3, <1>4, <1>5, <1>6, <1>7, <1>8, <1>9, <1>10, <1>11 DEF Step

\* What is not part of a call: the web process and the container.
LEMMA TypeOther ==
  TypeOK /\ (Boot \/ Crash \/ ProxyStart \/ ProxyReady \/ ProxyStop) => TypeOK'
<1> SUFFICES ASSUME TypeOK, Boot \/ Crash \/ ProxyStart \/ ProxyReady \/ ProxyStop
             PROVE  TypeOK'
  OBVIOUS
<1> USE NoCallTypes
<1>1. CASE Boot
  <2>1. Recorded \in SUBSET Keys
    BY DEF TypeOK, Recorded, Keys
  <2>2. op' = [who |-> "boot", call |-> "add", key |-> Auth, had |-> FALSE,
               ok |-> TRUE, flag |-> FALSE, todo |-> Recorded, step |-> "apply"]
    BY <1>1 DEF Boot, NoCall
  <2>3. op' \in Call
    BY <2>1, <2>2 DEF Call, Callers, Keys
  <2> QED  BY <2>3, <1>1 DEF Boot, TypeOK, state, Keys
<1>2. CASE Crash
  BY <1>2 DEF Crash, TypeOK, state
<1>3. CASE ProxyStart
  BY <1>3 DEF ProxyStart, TypeOK, state
<1>4. CASE ProxyReady
  BY <1>4 DEF ProxyReady, TypeOK, state
<1>5. CASE ProxyStop
  BY <1>5 DEF ProxyStop, TypeOK, state
<1> QED
  BY <1>1, <1>2, <1>3, <1>4, <1>5

\* Every step keeps the shape of the calls.
LEMMA ShapeNext == TypeOK /\ CallShape /\ Next => CallShape'
<1> SUFFICES ASSUME TypeOK, CallShape, Next PROVE CallShape'
  OBVIOUS
<1> USE KeysAssumption, NoneAssumption DEF Callers
<1>1. ASSUME op' = NoCall PROVE CallShape'
  BY <1>1 DEF CallShape, NoCall
<1>2. CASE Request
  <2>1. CASE StartAuth \/ StopAuth \/ StartAdmin \/ StopAdmin
    BY <2>1 DEF StartAuth, StopAuth, StartAdmin, StopAdmin, Add, Drop, NoCall, CallShape
  <2>2. CASE InstallProxy
    BY <2>2 DEF InstallProxy, Idle, NoCall, CallShape
  <2>3. CASE RemoveProxy
    BY <2>3, <1>1 DEF RemoveProxy, Idle
  <2>4. ASSUME NEW a \in Apps, EnableApp(a) \/ DisableApp(a) PROVE CallShape'
    BY <2>4 DEF EnableApp, DisableApp, Add, Drop, NoCall, CallShape, state
  <2>5. ASSUME NEW a \in Apps, InstallApp(a) PROVE CallShape'
    BY <2>5 DEF InstallApp, Idle, Add, NoCall, CallShape
  <2>6. ASSUME NEW a \in Apps, RemoveApp(a) PROVE CallShape'
    BY <2>6, <1>1 DEF RemoveApp, Idle
  <2>7. ASSUME NEW d \in Domains, NEW token \in BOOLEAN, SaveSettings(d, token)
        PROVE  CallShape'
    BY <2>7 DEF SaveSettings, NoCall, CallShape
  <2> QED  BY <1>2, <2>1, <2>2, <2>3, <2>4, <2>5, <2>6, <2>7 DEF Request
<1>3. CASE Step
  <2>1. CASE WaitForProxy
    BY <2>1, <1>1 DEF WaitForProxy, Add, NoCall, CallShape
  <2>2. CASE Render
    <3>1. \/ op' = [op EXCEPT !.step = "end"]
          \/ op' = [op EXCEPT !.step = "running"]
          \/ op' = [op EXCEPT !.step = "end", !.ok = FALSE]
      BY <2>2 DEF Render
    <3>2. op.step = "apply" /\ installed' = installed
      BY <2>2 DEF Render, state
    <3>3. /\ op'.who = op.who /\ op'.call = op.call /\ op'.key = op.key
          /\ op'.step \notin {"wait", "compose"}
      BY <3>1 DEF TypeOK, Call
    <3>4. op.who # None /\ op.step # "wait"
      BY <3>2 DEF CallShape, NoCall
    <3> QED  BY <3>2, <3>3, <3>4 DEF CallShape
  <2>3. CASE CheckRunning
    BY <2>3 DEF CheckRunning, CallShape, TypeOK, Call, Callers, NoCall, state
  <2>4. CASE Reload
    <3>1. \/ op' = [op EXCEPT !.step = "end"]
          \/ op' = [op EXCEPT !.step = "end", !.ok = FALSE]
      BY <2>4 DEF Reload
    <3>2. op.step = "reload" /\ installed' = installed
      BY <2>4 DEF Reload, state
    <3>3. /\ op'.who = op.who /\ op'.call = op.call /\ op'.key = op.key
          /\ op'.step \notin {"wait", "compose"}
      BY <3>1 DEF TypeOK, Call
    <3>4. op.who # None /\ op.step # "wait"
      BY <3>2 DEF CallShape, NoCall
    <3> QED  BY <3>2, <3>3, <3>4 DEF CallShape
  <2>5. CASE EndAuth \/ EndAdmin \/ EndApp \/ EndInstall \/ ComposeProxy
    BY <2>5, <1>1 DEF EndAuth, EndAdmin, EndApp, EndInstall, ComposeProxy
  <2>6. CASE EndSettings
    BY <2>6, <1>1 DEF EndSettings, CallShape, TypeOK, Call, Callers, NoCall, state
  <2>7. CASE BootNext
    <3>1. CASE op' = NoCall
      BY <3>1, <1>1
    <3>2. CASE op' # NoCall
      <4>1. PICK k \in op.todo :
               op' = [op EXCEPT !.key = k, !.had = k \in PutBack, !.ok = TRUE,
                                !.step = "apply", !.todo = @ \ {k}]
        BY <2>7, <3>2 DEF BootNext
      <4>2. op'.who = "boot" /\ op'.call = "add" /\ op'.step = "apply"
        BY <2>7, <4>1 DEF BootNext, CallShape, TypeOK, Call
      <4> QED  BY <4>2 DEF CallShape
    <3> QED  BY <3>1, <3>2
  <2> QED  BY <1>3, <2>1, <2>2, <2>3, <2>4, <2>5, <2>6, <2>7 DEF Step
<1>4. CASE Boot
  BY <1>4 DEF Boot, NoCall, CallShape
<1>5. CASE Crash
  BY <1>5, <1>1 DEF Crash
<1>6. CASE ProxyStart \/ ProxyReady \/ ProxyStop
  BY <1>6 DEF ProxyStart, ProxyReady, ProxyStop, CallShape, state
<1> QED
  BY <1>2, <1>3, <1>4, <1>5, <1>6 DEF Next

\* Every variable keeps its type, and calls keep their shape.
LEMMA TypeInvariant == Spec => [](TypeOK /\ CallShape)
<1>1. TypeOK /\ CallShape /\ [Next]_vars => TypeOK' /\ CallShape'
  <2> SUFFICES ASSUME TypeOK, CallShape, [Next]_vars PROVE TypeOK' /\ CallShape'
    OBVIOUS
  <2>1. CASE Next
    BY <2>1, TypeRequest, TypeStep, TypeOther, ShapeNext DEF Next
  <2>2. CASE UNCHANGED vars
    BY <2>2 DEF vars, TypeOK, CallShape
  <2> QED  BY <2>1, <2>2
<1> QED  BY <1>1, TypeInit, PTL DEF Spec

\* The variables of Publish keep their types; what is recorded as published is
\* always an installed app, the proxy itself never among them.
THEOREM PublishTypeCorrect == Spec => []TypeOK
BY TypeInvariant, PTL

-----------------------------------------------------------------------------
\* A call for one site leaves the others alone.

\* Between the writing of the Caddyfile and the reload the file is the table,
\* with the settings in force; a proxy somebody waits for serves the file; and
\* there is a Caddyfile as soon as there is a proxy.
SitesInv ==
  /\ proxy # "absent" => file # None
  /\ Running => served \in Config
  /\ op.step \in {"running", "reload"} => file = [domain |-> domain, routes |-> table]
  /\ op.step = "wait" /\ Running => served = file
  /\ Caddy \in installed => proxy # "absent"
  /\ op.who = "caddy" => proxy # "absent"
  /\ op.step = "compose" => Caddy \in installed

\* Adding to and dropping from the table starts a call that has rendered
\* nothing yet.
LEMMA CallStarts ==
  ASSUME NEW w, NEW k, Add(w, k) \/ Drop(w, k)
  PROVE  op'.step \in {"apply", "end"} /\ op'.who = w
BY DEF Add, Drop, NoCall

\* A request establishes the facts about its call.
LEMMA SitesRequest == TypeOK /\ CallShape /\ SitesInv /\ Request => SitesInv'
<1> SUFFICES ASSUME TypeOK, CallShape, SitesInv, Request PROVE SitesInv'
  OBVIOUS
<1> USE KeysAssumption, NoneAssumption DEF Callers
<1>0. ASSUME UNCHANGED <<domain, file, proxy, served, installed>>,
             op'.step \in {"apply", "end"}, op'.who # "caddy"
      PROVE  SitesInv'
  BY <1>0 DEF SitesInv, Running
<1>1. CASE StartAuth \/ StopAuth \/ StartAdmin \/ StopAdmin
  <2>1. op'.step \in {"apply", "end"} /\ op'.who \in {"auth", "admin"}
    BY <1>1 DEF StartAuth, StopAuth, StartAdmin, StopAdmin, Add, Drop, NoCall
  <2> QED
    BY <1>0, <1>1, <2>1 DEF StartAuth, StopAuth, StartAdmin, StopAdmin, state
<1>2. CASE InstallProxy
  <2>1. file \in Config
    BY <1>2 DEF InstallProxy, TypeOK
  <2>2. proxy' \in {"starting", "ready"} /\ served' = file /\ file' = file
    BY <1>2 DEF InstallProxy
  <2>3. op'.step \in {"wait", "none"}
    <3>1. \/ op' = [NoCall EXCEPT !.who = "caddy", !.step = "wait"]
          \/ op' = NoCall
      BY <1>2 DEF InstallProxy, Idle
    <3>2. CASE op' = [NoCall EXCEPT !.who = "caddy", !.step = "wait"]
      BY <3>2 DEF NoCall
    <3>3. CASE op' = NoCall
      BY <3>3 DEF NoCall
    <3> QED  BY <3>1, <3>2, <3>3
  <2> QED  BY <2>1, <2>2, <2>3, ConfigAssumption DEF SitesInv
<1>3. CASE RemoveProxy
  BY <1>3 DEF RemoveProxy, Idle, NoCall, SitesInv, Running
<1>4. ASSUME NEW a \in Apps, EnableApp(a) \/ DisableApp(a) PROVE SitesInv'
  <2>1. op'.step \in {"apply", "end"} /\ op'.who = "app"
    BY <1>4, CallStarts DEF EnableApp, DisableApp
  <2> QED  BY <1>0, <1>4, <2>1 DEF EnableApp, DisableApp, state
<1>5. ASSUME NEW a \in Apps, InstallApp(a) PROVE SitesInv'
  <2>1. CASE Local /\ a \in Routable
    <3>1. op'.step \in {"apply", "end"} /\ op'.who = "install"
      BY <1>5, <2>1, CallStarts DEF InstallApp
    <3> QED  BY <1>0, <1>5, <2>1, <3>1 DEF InstallApp, state
  <2>2. CASE ~(Local /\ a \in Routable)
    BY <2>2, <1>5 DEF InstallApp, Idle, NoCall, SitesInv, Running
  <2> QED  BY <2>1, <2>2
<1>6. ASSUME NEW a \in Apps, RemoveApp(a) PROVE SitesInv'
  BY <1>6 DEF RemoveApp, Idle, NoCall, SitesInv, Running
<1>7. ASSUME NEW d \in Domains, NEW token \in BOOLEAN, SaveSettings(d, token)
      PROVE  SitesInv'
  <2>1. op'.step = "apply" /\ op'.who = "settings"
    BY <1>7 DEF SaveSettings, NoCall
  <2> QED  BY <1>7, <2>1 DEF SaveSettings, SitesInv, Running, state
<1> QED
  BY <1>1, <1>2, <1>3, <1>4, <1>5, <1>6, <1>7 DEF Request

\* So does every step of the call under way.
LEMMA SitesStep == TypeOK /\ CallShape /\ SitesInv /\ Step => SitesInv'
<1> SUFFICES ASSUME TypeOK, CallShape, SitesInv, Step PROVE SitesInv'
  OBVIOUS
<1> USE KeysAssumption, NoneAssumption DEF Callers
<1>1. CASE WaitForProxy
  <2>1. op.who = "caddy" /\ op.step = "wait"
    BY <1>1 DEF WaitForProxy, CallShape
  <2>2. CASE proxy = "ready"
    <3>1. served' = file /\ served = file /\ served \in Config
      BY <1>1, <2>1, <2>2 DEF WaitForProxy, SitesInv, Running
    <3>2. op'.step \in {"apply", "end"}
      BY <1>1, <2>2, CallStarts DEF WaitForProxy
    <3> QED  BY <1>1, <2>1, <2>2, <3>1, <3>2 DEF WaitForProxy, SitesInv, Running
  <2>3. CASE proxy # "ready"
    BY <1>1, <2>1, <2>3 DEF WaitForProxy, SitesInv, NoCall, Running
  <2> QED  BY <2>2, <2>3
<1>2. CASE Render
  <2>1. \/ op' = [op EXCEPT !.step = "end"] /\ file' = file
        \/ /\ op' = [op EXCEPT !.step = "running"]
           /\ file' = [domain |-> domain, routes |-> table]
        \/ op' = [op EXCEPT !.step = "end", !.ok = FALSE] /\ file' = file
    BY <1>2 DEF Render
  <2>2. [domain |-> domain, routes |-> table] \in Config
    BY DEF TypeOK, Config
  <2>3. op'.who = op.who
    BY <2>1 DEF TypeOK, Call
  <2>4. \/ op'.step = "end" /\ file' = file
        \/ op'.step = "running" /\ file' = [domain |-> domain, routes |-> table]
    BY <2>1 DEF TypeOK, Call
  <2>5. UNCHANGED <<domain, table, proxy, served, installed>>
    BY <1>2 DEF Render, state
  <2> QED  BY <2>2, <2>3, <2>4, <2>5, ConfigAssumption DEF SitesInv, Running
<1>3. CASE CheckRunning
  BY <1>3 DEF CheckRunning, TypeOK, Call, SitesInv, Running, state
<1>4. CASE Reload
  <2>1. op'.step = "end" /\ op'.who = op.who
    BY <1>4 DEF Reload, TypeOK, Call
  <2>2. file \in Config
    BY <1>4 DEF Reload, SitesInv, TypeOK, Config
  <2>3. served' \in {served, file} /\ UNCHANGED <<domain, table, file, proxy, installed>>
    BY <1>4 DEF Reload, state
  <2> QED  BY <2>1, <2>2, <2>3 DEF SitesInv, Running
<1>5. CASE EndAuth \/ EndApp \/ EndInstall
  <2>1. op' = NoCall /\ UNCHANGED <<domain, file, proxy, served>>
    BY <1>5 DEF EndAuth, EndApp, EndInstall
  <2>2. Caddy \in installed' => Caddy \in installed
    BY <1>5 DEF EndAuth, EndApp, EndInstall, CallShape, state
  <2> QED  BY <2>1, <2>2 DEF SitesInv, NoCall, Running
<1>6. CASE EndAdmin
  BY <1>6 DEF EndAdmin, SitesInv, NoCall, Running
<1>7. CASE EndSettings
  BY <1>7 DEF EndSettings, TypeOK, Call, SitesInv, NoCall, Running, state
<1>8. CASE ComposeProxy
  <2>1. proxy # "absent" /\ file \in Config
    BY <1>8 DEF ComposeProxy, SitesInv, TypeOK
  <2>2. \/ proxy' \in {"starting", "ready"} /\ served' = file
        \/ UNCHANGED <<proxy, served>>
    BY <1>8 DEF ComposeProxy
  <2> QED  BY <1>8, <2>1, <2>2 DEF ComposeProxy, SitesInv, NoCall, Running, state
<1>9. CASE BootNext
  <2>1. UNCHANGED <<domain, file, proxy, served, installed>>
    BY <1>9 DEF BootNext, state
  <2>2. op'.step \in {"none", "apply"} /\ op'.who # "caddy"
    <3>1. CASE op' = NoCall
      BY <3>1 DEF NoCall
    <3>2. CASE op' # NoCall
      <4>1. PICK k \in op.todo :
               op' = [op EXCEPT !.key = k, !.had = k \in PutBack, !.ok = TRUE,
                                !.step = "apply", !.todo = @ \ {k}]
        BY <1>9, <3>2 DEF BootNext
      <4> QED  BY <1>9, <4>1 DEF BootNext, TypeOK, Call
    <3> QED  BY <3>1, <3>2
  <2> QED  BY <2>1, <2>2 DEF SitesInv, Running
<1> QED
  BY <1>1, <1>2, <1>3, <1>4, <1>5, <1>6, <1>7, <1>8, <1>9 DEF Step

\* Restarts, crashes and the container do not disturb them either.
LEMMA SitesOther ==
  TypeOK /\ SitesInv /\ (Boot \/ Crash \/ ProxyStart \/ ProxyReady \/ ProxyStop)
  => SitesInv'
<1> SUFFICES ASSUME TypeOK, SitesInv,
                    Boot \/ Crash \/ ProxyStart \/ ProxyReady \/ ProxyStop
             PROVE  SitesInv'
  OBVIOUS
<1> USE KeysAssumption, NoneAssumption DEF Callers
<1>1. CASE Boot \/ Crash
  <2>1. op'.step \in {"apply", "none"} /\ op'.who # "caddy"
    <3>1. CASE Boot
      BY <3>1 DEF Boot, NoCall
    <3>2. CASE Crash
      BY <3>2 DEF Crash, NoCall
    <3> QED  BY <1>1, <3>1, <3>2
  <2>2. UNCHANGED <<domain, file, proxy, served, installed>>
    BY <1>1 DEF Boot, Crash, state
  <2> QED  BY <2>1, <2>2 DEF SitesInv, Running
<1>2. CASE ProxyStart
  <2>1. file \in Config
    BY <1>2 DEF ProxyStart, SitesInv, TypeOK
  <2>2. proxy' # "absent"
    BY <1>2 DEF ProxyStart
  <2> QED  BY <1>2, <2>1, <2>2 DEF ProxyStart, SitesInv, Running, state
<1>3. CASE ProxyReady
  BY <1>3 DEF ProxyReady, SitesInv, Running, state
<1>4. CASE ProxyStop
  BY <1>4 DEF ProxyStop, SitesInv, Running, state
<1> QED
  BY <1>1, <1>2, <1>3, <1>4

\* The facts hold in every state.
LEMMA SitesInvariant == Spec => [](TypeOK /\ CallShape /\ SitesInv)
<1>1. Init => SitesInv
  BY KeysAssumption, NoneAssumption DEF Init, SitesInv, NoCall, Running, Callers
<1>2. TypeOK /\ CallShape /\ SitesInv /\ [Next]_vars => SitesInv'
  <2> SUFFICES ASSUME TypeOK, CallShape, SitesInv, [Next]_vars PROVE SitesInv'
    OBVIOUS
  <2>1. CASE Next
    BY <2>1, SitesRequest, SitesStep, SitesOther DEF Next
  <2>2. CASE UNCHANGED vars
    BY <2>2 DEF vars, SitesInv, Running
  <2> QED  BY <2>1, <2>2
<1> QED  BY <1>1, <1>2, TypeInvariant, PTL DEF Spec

\* Whatever the faults, a site that is in the table and served stays served
\* through every step of a call for another site.
THEOREM OtherSitesUndisturbed == Spec => OtherSitesStay
<1> DEFINE Stay ==
      \A k \in (table \cap Sites) \ {op.key} :
        op.who # "boot" /\ Running /\ Running' /\ op.step # "compose" => k \in Sites'
<1>1. TypeOK /\ CallShape /\ SitesInv /\ [Next]_vars => [Stay]_vars
  <2> SUFFICES ASSUME TypeOK, CallShape, SitesInv, Next,
                      NEW k \in (table \cap Sites) \ {op.key},
                      op.who # "boot", Running, Running', op.step # "compose"
               PROVE  k \in Sites'
    OBVIOUS
  <2>1. k \in table /\ k \in served.routes
    BY DEF Sites
  <2>2. ASSUME served' = served PROVE k \in Sites'
    BY <2>1, <2>2 DEF Sites
  <2>3. CASE WaitForProxy
    BY <2>2, <2>3 DEF WaitForProxy, SitesInv
  <2>4. CASE Reload
    <3>1. file.routes = table
      BY <2>4 DEF Reload, SitesInv
    <3>2. served' = served \/ served' = file
      BY <2>4 DEF Reload
    <3> QED  BY <2>1, <2>2, <3>1, <3>2 DEF Sites
  <2>5. CASE Request
    <3>1. ~InstallProxy /\ ~RemoveProxy
      BY DEF InstallProxy, RemoveProxy, Running
    <3>2. served' = served
      BY <2>5, <3>1 DEF Request, StartAuth, StopAuth, StartAdmin, StopAdmin,
         EnableApp, DisableApp, InstallApp, RemoveApp, SaveSettings
    <3> QED  BY <2>2, <3>2
  <2>6. CASE Step /\ ~WaitForProxy /\ ~Reload
    <3>1. ~ComposeProxy
      BY DEF ComposeProxy
    <3>2. served' = served
      BY <2>6, <3>1 DEF Step, Render, CheckRunning, EndAuth, EndAdmin, EndApp,
         EndInstall, EndSettings, BootNext
    <3> QED  BY <2>2, <3>2
  <2>7. CASE Boot \/ Crash \/ ProxyStart \/ ProxyReady \/ ProxyStop
    <3>1. ~ProxyStart /\ ~ProxyStop
      BY DEF ProxyStart, ProxyStop, Running
    <3>2. served' = served
      BY <2>7, <3>1 DEF Boot, Crash, ProxyReady
    <3> QED  BY <2>2, <3>2
  <2> QED  BY <2>3, <2>4, <2>5, <2>6, <2>7 DEF Next
<1> QED  BY <1>1, SitesInvariant, PTL DEF Spec, OtherSitesStay

-----------------------------------------------------------------------------
\* What is recorded is routed, while writes and reloads succeed.

\* What Reliable leaves are crashes and a proxy that stops and starts. Every call
\* succeeds; the record runs ahead of the table only by the route a call is
\* withdrawing and by what a restart has still to do.
RouteInv ==
  /\ op.ok
  /\ proxy # "starting"
  /\ op.step = "reload" => proxy = "ready"
  /\ op.call = "add" => op.key \in table
  /\ up /\ op.who # "boot" /\ op.call # "drop" => Recorded \subseteq table
  /\ up /\ op.who # "boot" /\ op.call = "drop" => Recorded \subseteq table \cup {op.key}
  /\ op.who = "boot" => Recorded \subseteq table \cup op.todo

\* Only apps and the web UI are recorded.
LEMMA RecordedKeys ==
  ASSUME TypeOK
  PROVE  pub \subseteq Apps /\ Recorded \subseteq Apps \cup {Admin} /\ Auth \notin Recorded
         /\ Admin \notin pub
BY KeysAssumption DEF TypeOK, Recorded, Auth, Admin

\* A call that adds a route starts with the facts.
LEMMA RouteAdd ==
  ASSUME RouteInv, NEW w \in Callers \ {"boot"}, NEW k, Add(w, k), op.who # "boot",
         op.call # "drop", UNCHANGED <<up, pub, adminPub, proxy>>
  PROVE  RouteInv'
<1>1. /\ op'.ok /\ op'.step = "apply" /\ op'.call = "add" /\ op'.key = k
      /\ op'.who = w /\ table' = table \cup {k}
  BY DEF Add, NoCall
<1>2. w # "boot" /\ Recorded' = Recorded
  BY DEF Recorded
<1> QED  BY <1>1, <1>2 DEF RouteInv

\* And a call that drops one.
LEMMA RouteDrop ==
  ASSUME RouteInv, NEW w \in Callers \ {"boot"}, NEW k, Drop(w, k), op.who # "boot",
         op.call # "drop", UNCHANGED <<up, pub, adminPub, proxy>>
  PROVE  RouteInv'
<1>1. /\ op'.ok /\ op'.step \in {"apply", "end"} /\ op'.call = "drop" /\ op'.key = k
      /\ op'.who = w /\ table' = table \ {k}
  BY DEF Drop, NoCall
<1>2. w # "boot" /\ Recorded' = Recorded
  BY DEF Recorded
<1> QED  BY <1>1, <1>2 DEF RouteInv

\* Requests establish them.
LEMMA RouteRequest ==
  ASSUME Reliable, TypeOK, CallShape, RouteInv, Request
  PROVE  RouteInv'
<1> USE KeysAssumption, NoneAssumption DEF Callers
<1>0. ASSUME Idle
      PROVE  op.who # "boot" /\ op.call # "drop" /\ op.call # "add" /\ op.ok
             /\ Recorded \subseteq table /\ op.step = "none"
  <2>1. op.who = None /\ op.call = None /\ op.ok /\ op.step = "none"
    BY <1>0 DEF Idle, NoCall
  <2> QED  BY <1>0, <2>1 DEF Idle, RouteInv
<1>1. CASE StartAuth \/ StartAdmin
  BY <1>0, <1>1, RouteAdd DEF StartAuth, StartAdmin, state
<1>2. CASE StopAuth \/ StopAdmin
  BY <1>0, <1>2, RouteDrop DEF StopAuth, StopAdmin, state
<1>3. CASE InstallProxy
  <2>1. \/ op' = [NoCall EXCEPT !.who = "caddy", !.step = "wait"]
        \/ op' = NoCall
    BY <1>3 DEF InstallProxy, Idle
  <2>2. CASE op' = [NoCall EXCEPT !.who = "caddy", !.step = "wait"]
    <3>1. op'.ok /\ op'.step = "wait" /\ op'.call = None /\ op'.who = "caddy"
      BY <2>2 DEF NoCall
    <3> QED
      BY <1>0, <1>3, <3>1 DEF InstallProxy, RouteInv, Recorded, Reliable
  <2>3. CASE op' = NoCall
    <3>1. op'.ok /\ op'.step = "none" /\ op'.call = None /\ op'.who = None
      BY <2>3 DEF NoCall
    <3> QED
      BY <1>0, <1>3, <3>1 DEF InstallProxy, RouteInv, Recorded, Reliable
  <2> QED  BY <2>1, <2>2, <2>3
<1>4. CASE RemoveProxy
  BY <1>0, <1>4 DEF RemoveProxy, RouteInv, Recorded
<1>5. ASSUME NEW a \in Apps, EnableApp(a) PROVE RouteInv'
  BY <1>0, <1>5, RouteAdd DEF EnableApp, state
<1>6. ASSUME NEW a \in Apps, DisableApp(a) PROVE RouteInv'
  BY <1>0, <1>6, RouteDrop DEF DisableApp, state
<1>7. ASSUME NEW a \in Apps, InstallApp(a) PROVE RouteInv'
  <2>1. CASE Local /\ a \in Routable
    BY <1>0, <1>7, <2>1, RouteAdd DEF InstallApp, state
  <2>2. CASE ~(Local /\ a \in Routable)
    BY <1>0, <1>7, <2>2 DEF InstallApp, RouteInv, Recorded
  <2> QED  BY <2>1, <2>2
<1>8. ASSUME NEW a \in Apps, RemoveApp(a) PROVE RouteInv'
  BY <1>0, <1>8 DEF RemoveApp, RouteInv, Recorded
<1>9. ASSUME NEW d \in Domains, NEW token \in BOOLEAN, SaveSettings(d, token)
      PROVE  RouteInv'
  <2>1. op'.ok /\ op'.step = "apply" /\ op'.call = "refresh" /\ op'.who = "settings"
    BY <1>9 DEF SaveSettings, NoCall
  <2> QED  BY <1>0, <1>9, <2>1 DEF SaveSettings, RouteInv, Recorded, state
<1> QED
  BY <1>1, <1>2, <1>3, <1>4, <1>5, <1>6, <1>7, <1>8, <1>9 DEF Request

\* A call that is over leaves the table to match the record.
LEMMA RouteIdle ==
  ASSUME Recorded' \subseteq table' \/ ~up', op' = NoCall, proxy' # "starting"
  PROVE  RouteInv'
<1>1. op'.ok /\ op'.step = "none" /\ op'.call = None /\ op'.who = None
  BY DEF NoCall
<1> QED  BY <1>1, NoneAssumption DEF RouteInv, Callers

\* Steps of a call keep them.
LEMMA RouteStep ==
  ASSUME Reliable, TypeOK, CallShape, RouteInv, Step
  PROVE  RouteInv'
<1> USE KeysAssumption, NoneAssumption DEF Callers
<1>0. PutBack = table
  BY DEF PutBack, RouteInv
<1>1. CASE WaitForProxy
  <2>1. op.who = "caddy" /\ op.call = None
    BY <1>1 DEF WaitForProxy, CallShape
  <2>2. CASE proxy = "ready"
    BY <1>1, <2>1, <2>2, RouteAdd DEF WaitForProxy
  <2>3. CASE proxy # "ready"
    <3>1. up => Recorded \subseteq table
      BY <2>1 DEF RouteInv
    <3> QED
      BY <1>1, <2>3, <3>1, RouteIdle DEF WaitForProxy, RouteInv, Recorded
  <2> QED  BY <2>2, <2>3
<1>2. CASE Render
  <2>1. \/ op' = [op EXCEPT !.step = "end"]
        \/ op' = [op EXCEPT !.step = "running"]
    BY <1>2 DEF Render, Reliable
  <2>2. /\ op'.ok = op.ok /\ op'.who = op.who /\ op'.call = op.call /\ op'.key = op.key
        /\ op'.todo = op.todo /\ op'.step # "reload"
    BY <2>1 DEF TypeOK, Call
  <2> QED  BY <1>2, <2>2 DEF Render, RouteInv, Recorded, state
<1>3. CASE CheckRunning
  <2>1. op'.step = "reload" => proxy = "ready"
    BY <1>3 DEF CheckRunning, Running, RouteInv, TypeOK, Call
  <2>2. /\ op'.ok = op.ok /\ op'.who = op.who /\ op'.call = op.call /\ op'.key = op.key
        /\ op'.todo = op.todo
    BY <1>3 DEF CheckRunning, TypeOK, Call
  <2> QED  BY <1>3, <2>1, <2>2 DEF CheckRunning, RouteInv, Recorded, state
<1>4. CASE Reload
  <2>1. op' = [op EXCEPT !.step = "end"]
    BY <1>4 DEF Reload, RouteInv, Reliable
  <2>2. /\ op'.ok = op.ok /\ op'.who = op.who /\ op'.call = op.call /\ op'.key = op.key
        /\ op'.todo = op.todo /\ op'.step = "end"
    BY <2>1 DEF TypeOK, Call
  <2> QED  BY <1>4, <2>2 DEF Reload, RouteInv, Recorded, state
<1>5. CASE EndAuth
  <2>1. up => Recorded \subseteq table
    BY <1>5, RecordedKeys DEF EndAuth, CallShape, RouteInv
  <2> QED  BY <1>0, <1>5, <2>1, RouteIdle DEF EndAuth, RouteInv, Recorded, state
<1>6. CASE EndAdmin
  <2>1. CASE op.call = "add"
    <3>1. op.key = Admin /\ Admin \in table /\ adminPub'
      BY <1>6, <2>1 DEF EndAdmin, CallShape, RouteInv
    <3>2. up => Recorded' \subseteq table
      BY <1>6, <2>1, <3>1 DEF EndAdmin, RouteInv, Recorded
    <3> QED  BY <1>0, <1>6, <3>2, RouteIdle DEF EndAdmin, RouteInv
  <2>2. CASE op.call # "add"
    <3>1. op.call = "drop" /\ op.key = Admin /\ ~adminPub'
      BY <1>6, <2>2 DEF EndAdmin, CallShape, RouteInv
    <3>2. up => Recorded' \subseteq table
      BY <1>6, <3>1, RecordedKeys DEF EndAdmin, RouteInv, Recorded
    <3> QED  BY <1>0, <1>6, <3>2, RouteIdle DEF EndAdmin, RouteInv
  <2> QED  BY <2>1, <2>2
<1>7. CASE EndApp
  <2>1. op.key \in Apps
    BY <1>7 DEF EndApp, CallShape
  <2>2. CASE op.call = "add"
    <3>1. pub' = pub \cup {op.key} /\ op.key \in table
      BY <1>7, <2>2 DEF EndApp, RouteInv
    <3>2. up => Recorded' \subseteq table
      BY <1>7, <2>2, <3>1 DEF EndApp, RouteInv, Recorded
    <3> QED  BY <1>0, <1>7, <3>2, RouteIdle DEF EndApp, RouteInv
  <2>3. CASE op.call = "drop"
    <3>1. pub' = pub \ {op.key}
      BY <1>7, <2>3 DEF EndApp, RouteInv
    <3>2. up => Recorded' \subseteq table
      BY <1>7, <2>1, <2>3, <3>1 DEF EndApp, RouteInv, Recorded, Admin
    <3> QED  BY <1>0, <1>7, <3>2, RouteIdle DEF EndApp, RouteInv
  <2> QED  BY <1>7, <2>2, <2>3 DEF EndApp, CallShape
<1>8. CASE EndInstall
  <2>1. pub' = pub \cup {op.key} /\ op.key \in table /\ op.call = "add"
    BY <1>8 DEF EndInstall, RouteInv, CallShape
  <2>2. up => Recorded' \subseteq table
    BY <1>8, <2>1 DEF EndInstall, RouteInv, Recorded
  <2> QED  BY <1>0, <1>8, <2>2, RouteIdle DEF EndInstall, RouteInv
<1>9. CASE EndSettings
  <2>1. op.call = "refresh" /\ op.who = "settings"
    BY <1>9 DEF EndSettings, CallShape
  <2>2. CASE op' = NoCall
    BY <1>9, <2>1, <2>2, RouteIdle DEF EndSettings, RouteInv, Recorded, state
  <2>3. CASE op' = [op EXCEPT !.step = "compose"]
    <3>1. /\ op'.ok = op.ok /\ op'.who = op.who /\ op'.call = op.call /\ op'.key = op.key
          /\ op'.todo = op.todo /\ op'.step = "compose"
      BY <2>3 DEF TypeOK, Call
    <3>2. UNCHANGED <<up, table, proxy, pub, adminPub>>
      BY <1>9 DEF EndSettings, state
    <3> QED  BY <2>1, <3>1, <3>2 DEF RouteInv, Recorded
  <2> QED  BY <1>9, <2>2, <2>3 DEF EndSettings
<1>10. CASE ComposeProxy
  <2>1. op.call = "refresh" /\ op.who = "settings"
    BY <1>10 DEF ComposeProxy, CallShape
  <2>2. up => Recorded \subseteq table
    BY <2>1 DEF RouteInv
  <2>3. proxy' # "starting"
    BY <1>10 DEF ComposeProxy, RouteInv, Reliable
  <2> QED
    BY <1>10, <2>2, <2>3, RouteIdle DEF ComposeProxy, Recorded, state
<1>11. CASE BootNext
  <2>1. CASE op.todo = {}
    BY <1>0, <1>11, <2>1, RouteIdle DEF BootNext, RouteInv, Recorded, state
  <2>2. CASE \E k \in op.todo :
               /\ table' = PutBack \cup {k}
               /\ op' = [op EXCEPT !.key = k, !.had = k \in PutBack, !.ok = TRUE,
                                   !.step = "apply", !.todo = @ \ {k}]
    <3>1. PICK k \in op.todo :
               /\ table' = PutBack \cup {k}
               /\ op' = [op EXCEPT !.key = k, !.had = k \in PutBack, !.ok = TRUE,
                                   !.step = "apply", !.todo = @ \ {k}]
      BY <2>2
    <3>2. /\ op'.ok /\ op'.who = "boot" /\ op'.call = "add" /\ op'.key = k
          /\ op'.todo = op.todo \ {k} /\ op'.step = "apply"
      BY <1>11, <3>1 DEF BootNext, CallShape, TypeOK, Call
    <3> QED  BY <1>0, <1>11, <3>1, <3>2 DEF BootNext, RouteInv, Recorded, state
  <2> QED  BY <1>11, <2>1, <2>2 DEF BootNext, Reliable
<1> QED
  BY <1>1, <1>2, <1>3, <1>4, <1>5, <1>6, <1>7, <1>8, <1>9, <1>10, <1>11 DEF Step

\* Restarts, crashes and the container keep them.
LEMMA RouteOther ==
  ASSUME Reliable, TypeOK, RouteInv,
         Boot \/ Crash \/ ProxyStart \/ ProxyReady \/ ProxyStop
  PROVE  RouteInv'
<1>1. CASE Boot
  <2>1. /\ op'.ok /\ op'.who = "boot" /\ op'.call = "add" /\ op'.key = Auth
        /\ op'.todo = Recorded /\ op'.step = "apply"
    BY <1>1 DEF Boot, NoCall
  <2> QED  BY <1>1, <2>1 DEF Boot, RouteInv, Recorded, state
<1>2. CASE Crash
  BY <1>2, RouteIdle DEF Crash, RouteInv
<1>3. CASE ProxyStart
  BY <1>3 DEF ProxyStart, RouteInv, Recorded, Reliable, state
<1>4. CASE ProxyReady
  BY <1>4 DEF ProxyReady, RouteInv, Recorded, state
<1>5. CASE ProxyStop
  BY <1>5 DEF ProxyStop, RouteInv, Recorded, Reliable, state
<1> QED
  BY <1>1, <1>2, <1>3, <1>4, <1>5

\* While writes and reloads succeed, whatever the web server crashes in the
\* middle of: what state.yaml records as published is in the routing table
\* whenever no call is under way.
THEOREM RecordedRoutesPresent ==
  ASSUME Reliable
  PROVE  Spec => []RecordedIsRouted
<1>1. Init => RouteInv
  BY NoneAssumption DEF Init, RouteInv, NoCall, Callers
<1>2. TypeOK /\ CallShape /\ RouteInv /\ [Next]_vars => RouteInv'
  <2> SUFFICES ASSUME TypeOK, CallShape, RouteInv, [Next]_vars PROVE RouteInv'
    OBVIOUS
  <2>1. CASE Next
    BY <2>1, Reliable, RouteRequest, RouteStep, RouteOther DEF Next
  <2>2. CASE UNCHANGED vars
    BY <2>2 DEF vars, RouteInv, Recorded
  <2> QED  BY <2>1, <2>2
<1>3. RouteInv => RecordedIsRouted
  BY NoneAssumption DEF RouteInv, RecordedIsRouted, Idle, NoCall, Callers
<1> QED  BY <1>1, <1>2, <1>3, TypeInvariant, PTL DEF Spec
-----------------------------------------------------------------------------
\* What the proxy serves.

\* The faults under which a call can rely on the file it finds.
Steady == Faults \cap {"crash", "write", "reload", "slow"} = {}

\* Outside the steps that change them the file is the table and the container
\* serves the file: it has started from it, or a reload follows.
ServeInv ==
  /\ op.ok
  /\ proxy # "starting"
  /\ op.step = "reload" => proxy = "ready"
  /\ proxy = "ready" /\ op.step \notin {"running", "reload"} => served = file
  /\ up /\ op.step # "apply" => file = [domain |-> domain, routes |-> table]

\* A call that changes the table or the settings has rendered nothing yet.
LEMMA ServeBegins ==
  ASSUME ServeInv, op'.ok, op'.step = "apply", op.step \notin {"running", "reload"},
         UNCHANGED <<file, proxy, served>>
  PROVE  ServeInv'
BY DEF ServeInv

\* A withdrawal of an unknown route has nothing to render.
LEMMA ServeDrop ==
  ASSUME ServeInv, Idle, NEW w, NEW k, Drop(w, k), UNCHANGED <<up, domain, file, proxy, served>>
  PROVE  ServeInv'
<1>0. op.step = "none"
  BY DEF Idle, NoCall
<1>1. op'.ok /\ op'.step = IF k \in table THEN "apply" ELSE "end"
  BY DEF Drop, NoCall
<1>2. CASE k \in table
  BY <1>0, <1>1, <1>2, ServeBegins
<1>3. CASE k \notin table
  <2>1. table' = table
    BY <1>3 DEF Drop
  <2> QED  BY <1>0, <1>1, <1>3, <2>1 DEF ServeInv, Idle
<1> QED  BY <1>2, <1>3

LEMMA ServeAdd ==
  ASSUME ServeInv, op.step \notin {"running", "reload"}, NEW w, NEW k, Add(w, k),
         UNCHANGED <<file, proxy, served>>
  PROVE  ServeInv'
<1>1. op'.ok /\ op'.step = "apply"
  BY DEF Add, NoCall
<1> QED  BY <1>1, ServeBegins

\* Between two calls, and at the end of one, file and table are as they were.
LEMMA ServeRests ==
  ASSUME ServeInv, up, op.step \notin {"apply", "running", "reload"}, op'.ok,
         op'.step \notin {"apply", "reload"},
         UNCHANGED <<domain, table, file>>,
         \/ UNCHANGED <<proxy, served>>
         \/ proxy' \in {"absent", "down"}
         \/ proxy' = "ready" /\ served' = file
  PROVE  ServeInv'
BY DEF ServeInv

\* Requests wait until nothing is under way; steps belong to a call.
LEMMA RequestIdle == Request => Idle /\ op.step = "none"
<1>1. Idle => op.step = "none"
  BY DEF Idle, NoCall
<1>2. StartAuth \/ StopAuth \/ StartAdmin \/ StopAdmin \/ InstallProxy \/ RemoveProxy => Idle
  BY DEF StartAuth, StopAuth, StartAdmin, StopAdmin, InstallProxy, RemoveProxy
<1>3. ASSUME NEW a \in Apps
      PROVE  EnableApp(a) \/ DisableApp(a) \/ InstallApp(a) \/ RemoveApp(a) => Idle
  BY DEF EnableApp, DisableApp, InstallApp, RemoveApp
<1>4. ASSUME NEW d \in Domains, NEW token \in BOOLEAN
      PROVE  SaveSettings(d, token) => Idle
  BY DEF SaveSettings
<1> QED  BY <1>1, <1>2, <1>3, <1>4 DEF Request

LEMMA StepCalls == Step => op # NoCall
<1>1. NoCall.step = "none"
  BY DEF NoCall
<1>2. Step => op.step \in {"wait", "apply", "running", "reload", "end", "compose"}
  BY DEF Step, WaitForProxy, Render, CheckRunning, Reload, EndAuth, EndAdmin, EndApp,
         EndInstall, EndSettings, ComposeProxy, BootNext
<1> QED  BY <1>1, <1>2

LEMMA ServeRequest ==
  ASSUME Steady, ServeInv, Request
  PROVE  ServeInv'
<1>0. Idle /\ up /\ op.step = "none" /\ op.ok
  BY RequestIdle DEF Idle, ServeInv
<1>1. CASE StartAuth \/ StartAdmin
  BY <1>0, <1>1, ServeAdd DEF StartAuth, StartAdmin
<1>2. CASE StopAuth \/ StopAdmin
  BY <1>0, <1>2, ServeDrop DEF StopAuth, StopAdmin
<1>3. CASE InstallProxy
  <2>1. op'.ok /\ op'.step \in {"none", "wait"}
    BY <1>0, <1>3 DEF InstallProxy, NoCall
  <2>2. proxy' = "ready" /\ served' = file
    BY <1>3 DEF InstallProxy, Steady
  <2> QED  BY <1>0, <1>3, <2>1, <2>2, ServeRests DEF InstallProxy
<1>4. CASE RemoveProxy
  BY <1>0, <1>4, ServeRests DEF RemoveProxy
<1>5. ASSUME NEW a \in Apps, EnableApp(a) PROVE ServeInv'
  BY <1>0, <1>5, ServeAdd DEF EnableApp
<1>6. ASSUME NEW a \in Apps, DisableApp(a) PROVE ServeInv'
  BY <1>0, <1>6, ServeDrop DEF DisableApp
<1>7. ASSUME NEW a \in Apps, InstallApp(a) PROVE ServeInv'
  <2>1. CASE Local /\ a \in Routable
    BY <1>0, <1>7, <2>1, ServeAdd DEF InstallApp
  <2>2. CASE ~(Local /\ a \in Routable)
    BY <1>0, <1>7, <2>2, ServeRests DEF InstallApp
  <2> QED  BY <2>1, <2>2
<1>8. ASSUME NEW a \in Apps, RemoveApp(a) PROVE ServeInv'
  BY <1>0, <1>8, ServeRests DEF RemoveApp
<1>9. ASSUME NEW d \in Domains, NEW token \in BOOLEAN, SaveSettings(d, token)
      PROVE  ServeInv'
  <2>1. op'.ok /\ op'.step = "apply"
    BY <1>9 DEF SaveSettings, NoCall
  <2> QED  BY <1>0, <1>9, <2>1, ServeBegins DEF SaveSettings
<1> QED
  BY <1>1, <1>2, <1>3, <1>4, <1>5, <1>6, <1>7, <1>8, <1>9 DEF Request

LEMMA ServeStep ==
  ASSUME Steady, TypeOK, ServeInv, up, Step
  PROVE  ServeInv'
<1>0. PutBack = table /\ NoCall.ok /\ NoCall.step = "none"
  BY DEF PutBack, ServeInv, NoCall
<1>1. CASE WaitForProxy
  <2>1. CASE proxy = "ready"
    <3>1. served' = served
      BY <1>1, <2>1 DEF WaitForProxy, ServeInv
    <3> QED  BY <1>1, <2>1, <3>1, ServeAdd DEF WaitForProxy
  <2>2. CASE proxy # "ready"
    BY <1>0, <1>1, <2>2, ServeRests DEF WaitForProxy
  <2> QED  BY <2>1, <2>2
<1>2. CASE Render
  <2>1. op.step = "apply" /\ UNCHANGED <<up, domain, table, proxy, served>>
    BY <1>2 DEF Render
  <2>2. CASE op' = [op EXCEPT !.step = "end"] /\ file = [domain |-> domain, routes |-> table]
             /\ UNCHANGED file
    <3>1. op'.ok = op.ok /\ op'.step = "end"
      BY <2>2 DEF TypeOK, Call
    <3> QED  BY <2>1, <2>2, <3>1 DEF ServeInv
  <2>3. CASE file' = [domain |-> domain, routes |-> table] /\ op' = [op EXCEPT !.step = "running"]
    <3>1. op'.ok = op.ok /\ op'.step = "running"
      BY <2>3 DEF TypeOK, Call
    <3> QED  BY <2>1, <2>3, <3>1 DEF ServeInv
  <2> QED  BY <1>2, <2>2, <2>3 DEF Render, Steady
<1>3. CASE CheckRunning
  <2>1. op'.ok = op.ok /\ op'.step = IF Running THEN "reload" ELSE "end"
    BY <1>3 DEF CheckRunning, TypeOK, Call
  <2> QED  BY <1>3, <2>1 DEF CheckRunning, ServeInv, Running
<1>4. CASE Reload
  <2>1. proxy = "ready" /\ served' = file /\ op' = [op EXCEPT !.step = "end"]
    BY <1>4 DEF Reload, ServeInv, Steady
  <2>2. op'.ok = op.ok /\ op'.step = "end"
    BY <2>1 DEF TypeOK, Call
  <2> QED  BY <1>4, <2>1, <2>2 DEF Reload, ServeInv
<1>5. CASE EndAuth \/ EndAdmin \/ EndApp \/ EndInstall
  BY <1>0, <1>5, ServeRests DEF EndAuth, EndAdmin, EndApp, EndInstall
<1>6. CASE EndSettings
  <2>1. op'.ok /\ op'.step \in {"compose", "none"}
    BY <1>0, <1>6 DEF EndSettings, TypeOK, Call, ServeInv
  <2> QED  BY <1>6, <2>1, ServeRests DEF EndSettings
<1>7. CASE ComposeProxy
  <2>1. UNCHANGED <<proxy, served>> \/ (proxy' = "ready" /\ served' = file)
    BY <1>7 DEF ComposeProxy, Steady
  <2> QED  BY <1>0, <1>7, <2>1, ServeRests DEF ComposeProxy
<1>8. CASE BootNext
  <2>1. CASE table' = PutBack /\ op' = NoCall
    BY <1>0, <1>8, <2>1, ServeRests DEF BootNext
  <2>2. ASSUME NEW k \in op.todo,
               op' = [op EXCEPT !.key = k, !.had = k \in PutBack, !.ok = TRUE,
                                !.step = "apply", !.todo = @ \ {k}]
        PROVE  ServeInv'
    <3>1. op'.ok /\ op'.step = "apply"
      BY <2>2 DEF TypeOK, Call
    <3> QED  BY <1>8, <3>1, ServeBegins DEF BootNext
  <2> QED  BY <1>8, <2>1, <2>2 DEF BootNext
<1> QED
  BY <1>1, <1>2, <1>3, <1>4, <1>5, <1>6, <1>7, <1>8 DEF Step

LEMMA ServeOther ==
  ASSUME Steady, ServeInv, up \/ op = NoCall,
         Boot \/ Crash \/ ProxyStart \/ ProxyReady \/ ProxyStop
  PROVE  ServeInv'
<1>1. CASE Boot
  <2>1. op'.ok /\ op'.step = "apply" /\ op.step = "none"
    BY <1>1 DEF Boot, NoCall
  <2> QED  BY <1>1, <2>1, ServeBegins DEF Boot
<1>2. CASE Crash
  BY <1>2 DEF Crash, Steady
<1>3. CASE ProxyStart
  BY <1>3 DEF ProxyStart, ServeInv, Steady
<1>4. CASE ProxyReady
  BY <1>4 DEF ProxyReady, ServeInv
<1>5. CASE ProxyStop
  BY <1>5 DEF ProxyStop, ServeInv, Steady
<1> QED
  BY <1>1, <1>2, <1>3, <1>4, <1>5

\* The web server works on a call only while it is up.
LEMMA CallsWhileUp ==
  ASSUME Steady
  PROVE  Spec => [](up \/ op = NoCall)
<1>1. Init => op = NoCall
  BY DEF Init
<1>2. (up \/ op = NoCall) /\ [Next]_vars => (up \/ op = NoCall)'
  <2> SUFFICES ASSUME up \/ op = NoCall, [Next]_vars PROVE up' \/ op' = NoCall
    OBVIOUS
  <2>1. CASE Request
    <3>1. StartAuth \/ StopAuth \/ StartAdmin \/ StopAdmin \/ InstallProxy \/ RemoveProxy
            => up' = up
      BY DEF StartAuth, StopAuth, StartAdmin, StopAdmin, InstallProxy, RemoveProxy
    <3>2. ASSUME NEW a \in Apps
          PROVE  EnableApp(a) \/ DisableApp(a) \/ InstallApp(a) \/ RemoveApp(a) => up' = up
      BY DEF EnableApp, DisableApp, InstallApp, RemoveApp
    <3>3. ASSUME NEW d \in Domains, NEW token \in BOOLEAN
          PROVE  SaveSettings(d, token) => up' = up
      BY DEF SaveSettings
    <3> QED  BY <2>1, <3>1, <3>2, <3>3, RequestIdle DEF Request, Idle
  <2>2. CASE Step
    <3>1. op # NoCall
      BY <2>2, StepCalls
    <3>2. up' = up
      BY <2>2 DEF Step, WaitForProxy, Render, CheckRunning, Reload, EndAuth, EndAdmin, EndApp,
             EndInstall, EndSettings, ComposeProxy, BootNext
    <3> QED  BY <3>1, <3>2
  <2>3. CASE Boot
    BY <2>3 DEF Boot
  <2>4. CASE Crash
    BY <2>4 DEF Crash
  <2>5. CASE ProxyStart \/ ProxyReady \/ ProxyStop
    BY <2>5 DEF ProxyStart, ProxyReady, ProxyStop
  <2>6. CASE UNCHANGED vars
    BY <2>6 DEF vars
  <2> QED  BY <2>1, <2>2, <2>3, <2>4, <2>5, <2>6 DEF Next
<1> QED  BY <1>1, <1>2, PTL DEF Spec

\* While the process lives and writes and reloads succeed, for every set of apps
\* and however the container starts and stops between the steps of a call: the
\* proxy serves the routing table with the settings in force whenever nothing is
\* under way (proxy.go:159-228, caddy.go:169-190).
THEOREM ServesTheTable ==
  ASSUME Steady
  PROVE  Spec => []ServedIsTable
<1>1. Init => ServeInv
  BY DEF Init, ServeInv, NoCall
<1>2. TypeOK /\ (up \/ op = NoCall) /\ ServeInv /\ [Next]_vars => ServeInv'
  <2> SUFFICES ASSUME TypeOK, up \/ op = NoCall, ServeInv, [Next]_vars PROVE ServeInv'
    OBVIOUS
  <2>1. CASE Step
    BY <2>1, Steady, StepCalls, ServeStep
  <2>2. CASE Next /\ ~Step
    BY <2>2, Steady, ServeRequest, ServeOther DEF Next
  <2>3. CASE UNCHANGED vars
    BY <2>3 DEF vars, ServeInv
  <2> QED  BY <2>1, <2>2, <2>3
<1>3. ServeInv => ServedIsTable
  BY DEF ServeInv, ServedIsTable, Idle, NoCall, Running
<1> QED  BY <1>1, <1>2, <1>3, TypeInvariant, CallsWhileUp, PTL DEF Spec
=============================================================================
