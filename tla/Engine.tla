------------------------------- MODULE Engine -------------------------------
(***************************************************************************)
(* The plugin engine (pkg/storm): options, construction of the plugins in  *)
(* priority order, registration by hand, and Build with its validation,    *)
(* the connections between plugins, the discovery document and the layers  *)
(* of middleware.  One variable per field of Engine that these steps       *)
(* change; a plugin instance is known by its place in e.plugins.           *)
(***************************************************************************)
EXTENDS Integers, FiniteSets, SequencesExt

CONSTANTS Offered,      \* names passed to WithPlugins
          Doubled,      \* names that may be passed to WithPlugins twice
          ByHand,       \* names that may be added with Register
          Disableable,  \* names that may be passed to Disable
          MaxDisabled,  \* bound on the names passed to Disable
          MaxMissing,   \* bound on the store interfaces the storage lacks
          MaxRegister   \* bound on the calls of Register

-----------------------------------------------------------------------------
(* The built-in plugins: priority, category, the stores they declare, what *)
(* New does without them ("panic": an unchecked type assertion; "nil": it  *)
(* declines), and the endpoints Register routes.                           *)

Decl(priority, category, requires, absent, routes) ==
    [priority |-> priority, category |-> category, requires |-> requires,
     absent |-> absent, routes |-> routes]

authorization == Decl(100, "core", {"Auth"}, "panic",
                      {"authorize", "authorize_callback", "authorize_accept", "authorize_reject"})

token == Decl(200, "core", {"Token", "Auth"}, "panic", {"token"})

keys == Decl(300, "core", {}, "panic", {"keys"})

discovery == Decl(400, "none", {}, "nil", {})

userinfo == Decl(500, "standard", {"Userinfo"}, "panic", {"userinfo"})

introspection == Decl(600, "standard", {"Introspect"}, "panic", {"introspection"})

revocation == Decl(700, "standard", {"Revocation"}, "panic", {"revocation"})

endsession == Decl(800, "standard", {"Session"}, "panic", {"endsession"})

backchannel == Decl(850, "standard", {"BackChannel"}, "panic", {"backchannel"})

device == Decl(900, "standard", {"DeviceAuth"}, "nil", {"device", "device_page"})

par == Decl(950, "standard", {"PAR"}, "nil", {"par"})

dpop == Decl(960, "standard", {}, "never", {})

jarm == Decl(975, "standard", {}, "panic", {})

dcr == Decl(1000, "none", {"DCR"}, "nil", {"dcr"})

ciba == Decl(1050, "standard", {"CIBA"}, "nil", {"ciba"})

\* mtls registered before par, dcr and ciba.
Mutmtls == Decl(940, "standard", {}, "never", {})

mtls == Decl(1060, "standard", {}, "never", {})

webfinger == Decl(1100, "none", {}, "never", {"webfinger"})

\* A plugin of the deployer that is Optional: New skips it unless Enable names it.
extension == Decl(2000, "optional", {}, "never", {"extension"})

Plugin ==
    [authorization |-> authorization, token |-> token, keys |-> keys,
     discovery |-> discovery, userinfo |-> userinfo, introspection |-> introspection,
     revocation |-> revocation, endsession |-> endsession, backchannel |-> backchannel,
     device |-> device, par |-> par, dpop |-> dpop, jarm |-> jarm, dcr |-> dcr,
     ciba |-> ciba, mtls |-> mtls, webfinger |-> webfinger, extension |-> extension]

Names == DOMAIN Plugin

ASSUME EngineAssumption ==
    /\ Offered \subseteq Names /\ Doubled \subseteq Offered /\ ByHand \subseteq Names
    /\ MaxDisabled \in Nat /\ MaxMissing \in Nat /\ MaxRegister \in Nat

StorageCapability == UNION {Plugin[n].requires : n \in Names}

\* Plugins of these names implement CategorizablePlugin, so Validate asks them for Requires.
Categorizable == {n \in Names : Plugin[n].category # "none"}

MiddlewareProviders == {"dpop", "mtls"}

Endpoints == UNION {Plugin[n].routes : n \in Names}

Owner(ep) == CHOOSE n \in Names : ep \in Plugin[n].routes

-----------------------------------------------------------------------------

VARIABLES stores,          \* the store interfaces the storage implements
          configs,         \* WithEndpointConfigs: endpoint -> [route, url]
          disabled,        \* names passed to Disable
          enabled,         \* names passed to Enable
          limiter,         \* WithRateLimiter was given
          candidates,      \* bag of factories not yet called: name -> count
          plugins,         \* e.plugins: sequence of [name, configured]
          router,          \* path -> index in plugins (the latest Register wins)
          logoutHook,      \* endsession instance -> backchannel instance
          jarmSigner,      \* authorization instance -> jarm instance
          nonceSender,     \* token instance -> dpop instance
          contributors,    \* snapshot taken by installDiscovery at the last Build
          layers,          \* e.handler, innermost first; << >> before Build
          phase,           \* "new" (in New), "open" (New returned), "panic"
          byHand           \* calls of Register so far

engineVars == <<stores, configs, disabled, enabled, limiter, candidates, plugins, router,
                logoutHook, jarmSigner, nonceSender, contributors, layers, phase, byHand>>

option == <<stores, configs, disabled, enabled, limiter>>

built == <<logoutHook, jarmSigner, nonceSender, contributors, layers>>

\* A configured endpoint has a route path, a discovery URL, or both.
EndpointConfig == [route : {"default", "moved"}, url : {"default", "moved"}]

NoConfig == [ep \in Endpoints |-> [route |-> "default", url |-> "default"]]

\* The options of New: what the deployer asks for.
EngineInit ==
    /\ stores \in {s \in SUBSET StorageCapability :
                        Cardinality(StorageCapability \ s) <= MaxMissing}
    /\ configs \in {[NoConfig EXCEPT !["token"] = c] : c \in EndpointConfig}
    /\ disabled \in {d \in SUBSET Disableable : Cardinality(d) <= MaxDisabled}
    /\ enabled \in SUBSET {"extension"}
    /\ limiter \in BOOLEAN
    /\ \E twice \in SUBSET Doubled :
           candidates = [n \in Offered |-> IF n \in twice THEN 2 ELSE 1]
    /\ plugins = << >>
    /\ router = << >>
    /\ logoutHook = << >> /\ jarmSigner = << >> /\ nonceSender = << >>
    /\ contributors = << >> /\ layers = << >>
    /\ phase = "new" /\ byHand = 0

-----------------------------------------------------------------------------
(* Routes.  A path is the endpoint's default or configured one; two        *)
(* endpoints are never configured to one path here.                        *)

\* The discovery URL is looked up, the route path is not.
MutGetRoutePath(p, ep) == <<ep, "default">>

GetRoutePath(p, ep) ==
    <<ep, IF p.configured THEN configs[ep].route ELSE "default">>

GetDiscoveryURL(p, ep) ==
    <<ep, IF p.configured THEN configs[ep].url ELSE "default">>

\* g where it is defined, f elsewhere.
Overridden(f, g) ==
    [x \in DOMAIN f \cup DOMAIN g |-> IF x \in DOMAIN g THEN g[x] ELSE f[x]]

Paths(p) == {GetRoutePath(p, ep) : ep \in Plugin[p.name].routes}

\* chi keeps the handler that was registered last for a pattern.
Routed(rt, p, i) == Overridden(rt, [path \in Paths(p) |-> i])

-----------------------------------------------------------------------------
(* New: autoRegisterPlugins calls the factories in priority order; the     *)
(* order among equal priorities is up to sort.Slice, which does not matter *)
(* for factories of one name.                                              *)

Left == {n \in Offered : candidates[n] > 0}

Next_(n) == n \in Left /\ \A m \in Left : Plugin[n].priority <= Plugin[m].priority

\* FactoryOf(New): what the constructor does with a storage.
Factory(n) ==
    IF Plugin[n].requires \subseteq stores \/ Plugin[n].absent = "never"
    THEN "plugin" ELSE Plugin[n].absent

Taken(n) == candidates' = [candidates EXCEPT ![n] = @ - 1]

Skipped(n) ==
    \/ n \in disabled
    \/ Factory(n) = "nil"
    \/ Factory(n) = "plugin" /\ Plugin[n].category = "optional" /\ n \notin enabled

Install(p) ==
    /\ plugins' = Append(plugins, p)
    /\ router' = Routed(router, p, Len(plugins) + 1)

AutoRegister(n) ==
    /\ phase = "new" /\ Next_(n)
    /\ ~Skipped(n) /\ Factory(n) = "plugin"
    /\ Taken(n)
    /\ Install([name |-> n, configured |-> TRUE])
    /\ UNCHANGED <<option, built, phase, byHand>>

AutoSkip(n) ==
    /\ phase = "new" /\ Next_(n) /\ Skipped(n)
    /\ Taken(n)
    /\ UNCHANGED <<option, built, phase, byHand, plugins, router>>

\* The type assertion in the plugin's constructor fails inside New.
AutoPanic(n) ==
    /\ phase = "new" /\ Next_(n)
    /\ n \notin disabled /\ Factory(n) = "panic"
    /\ phase' = "panic"
    /\ UNCHANGED <<option, built, candidates, byHand, plugins, router>>

NewReturns ==
    /\ phase = "new" /\ Left = {}
    /\ phase' = "open"
    /\ UNCHANGED <<option, built, candidates, byHand, plugins, router>>

\* Register: no check at all, before as well as after Build.  The caller built
\* the plugin itself, with or without endpoint configurations, over any store.
Register(n, c) ==
    /\ phase = "open" /\ byHand < MaxRegister
    /\ byHand' = byHand + 1
    /\ Install([name |-> n, configured |-> c])
    /\ UNCHANGED <<option, built, candidates, phase>>

-----------------------------------------------------------------------------
(* Build. *)

Registered == {plugins[i].name : i \in DOMAIN plugins}

Places(n) == {i \in DOMAIN plugins : plugins[i].name = n}

LastOf(n) == CHOOSE i \in Places(n) : \A j \in Places(n) : j <= i

\* A connection made by Build: the last plugin of one name is given the last of the other.
Connect(conn, to, from) ==
    IF to \in Registered /\ from \in Registered
    THEN Overridden(conn, [i \in {LastOf(to)} |-> LastOf(from)])
    ELSE conn

\* Connected at the first Build only.
MutconnectLogoutHooks ==
    IF {"endsession", "backchannel"} \subseteq Registered /\ logoutHook = << >>
    THEN [i \in {LastOf("endsession")} |-> LastOf("backchannel")] ELSE logoutHook

connectLogoutHooks == Connect(logoutHook, "endsession", "backchannel")

connectJARMSigner == Connect(jarmSigner, "authorization", "jarm")

\* The token plugin's SetDPoPNonceSender takes a parameter of a named interface
\* type, dpopNonceSetter asks for one of an anonymous type: no plugin matches.
connectDPoPNonceSender == nonceSender

storageImplements(caps) == caps \subseteq stores

\* Every Requires() is satisfied; the protocol constraints hold.
ProtocolConstraints ==
    "authorization" \in Registered => {"token", "userinfo", "keys", "endsession"} \subseteq Registered

\* Validation of the plugins that New built only.
MutValidate ==
    /\ \A i \in DOMAIN plugins : plugins[i].configured =>
           storageImplements(Plugin[plugins[i].name].requires)
    /\ ProtocolConstraints

Validate ==
    /\ \A i \in DOMAIN plugins :
           plugins[i].name \in Categorizable => storageImplements(Plugin[plugins[i].name].requires)
    /\ ProtocolConstraints

Inner == <<"router">> \o (IF limiter THEN <<"ratelimiter">> ELSE << >>) \o <<"otel">>

Wrapped(h, p) == IF p.name \in MiddlewareProviders THEN Append(h, p.name) ELSE h

\* The middleware of the plugins known at the previous Build.
MutLayers ==
    LET h[i \in 0..Len(contributors)] == IF i = 0 THEN Inner ELSE Wrapped(h[i - 1], contributors[i])
    IN  h[Len(contributors)]

\* Router, rate limiter, tracing, then each plugin's middleware around the former.
Layers ==
    LET h[i \in 0..Len(plugins)] == IF i = 0 THEN Inner ELSE Wrapped(h[i - 1], plugins[i])
    IN  h[Len(plugins)]

Build ==
    /\ phase = "open"
    /\ logoutHook' = connectLogoutHooks
    /\ jarmSigner' = connectJARMSigner
    /\ nonceSender' = connectDPoPNonceSender
    /\ contributors' = plugins
    /\ IF Validate THEN layers' = Layers /\ UNCHANGED phase
                   ELSE phase' = "panic" /\ UNCHANGED layers
    /\ UNCHANGED <<option, candidates, plugins, router, byHand>>

-----------------------------------------------------------------------------
(* The discovery document: the contributors are called in the order of     *)
(* registration, and some look at what the earlier ones have left.         *)

EmptyDocument ==
    [endpoints |-> << >>, grants |-> {}, modes |-> {}, features |-> {}, aliases |-> {}]

\* An endpoint field of the document is set to this plugin's idea of its URL.
WithEndpoint(doc, p, ep) ==
    [doc EXCEPT !.endpoints = Overridden(@, [x \in {ep} |-> GetDiscoveryURL(p, ep)])]

ContributeAuthorization(doc, p) ==
    [WithEndpoint(doc, p, "authorize") EXCEPT
        !.grants = @ \cup {"authorization_code"}, !.modes = @ \cup {"query", "fragment", "form_post"}]

ContributeToken(doc, p) ==
    [WithEndpoint(doc, p, "token") EXCEPT
        !.grants = @ \cup {"client_credentials", "refresh_token", "jwt-bearer", "token-exchange"}]

ContributeKeys(doc, p) == WithEndpoint(doc, p, "keys")

ContributeDiscovery(doc, p) == [doc EXCEPT !.features = @ \cup {"request_object_algs"}]

ContributeUserinfo(doc, p) == WithEndpoint(doc, p, "userinfo")

ContributeIntrospection(doc, p) == WithEndpoint(doc, p, "introspection")

ContributeRevocation(doc, p) == WithEndpoint(doc, p, "revocation")

ContributeEndsession(doc, p) == WithEndpoint(doc, p, "endsession")

ContributeBackchannel(doc, p) ==
    [WithEndpoint(doc, p, "backchannel") EXCEPT !.features = @ \cup {"backchannel_logout"}]

ContributeDevice(doc, p) ==
    [WithEndpoint(doc, p, "device") EXCEPT !.grants = @ \cup {"device_code"}]

ContributePar(doc, p) == WithEndpoint(doc, p, "par")

ContributeDpop(doc, p) == [doc EXCEPT !.features = @ \cup {"dpop"}]

\* The algorithms of signed responses are copied from the request object's, if there already.
ContributeJarm(doc, p) ==
    [doc EXCEPT
        !.modes = @ \cup {"jwt"},
        !.features = @ \cup (IF "request_object_algs" \in @ THEN {"jarm_algs"} ELSE {})]

ContributeDcr(doc, p) == WithEndpoint(doc, p, "dcr")

ContributeCiba(doc, p) ==
    [WithEndpoint(doc, p, "ciba") EXCEPT
        !.grants = @ \cup {"ciba"},
        !.features = @ \cup (IF "request_object_algs" \in @ THEN {"ciba_algs"} ELSE {})]

\* Four aliases always, four more for the endpoints that are there already, and
\* the TLS methods of introspection and revocation if those are.
ContributeMtls(doc, p) ==
    [doc EXCEPT
        !.aliases = {"token", "userinfo", "revocation", "introspection"}
                        \cup ({"dcr", "device", "par", "ciba"} \cap DOMAIN doc.endpoints),
        !.features = @ \cup {"mtls"} \cup ({"introspection", "revocation"} \cap DOMAIN doc.endpoints)]

Contribute(doc, p) ==
    CASE p.name = "authorization" -> ContributeAuthorization(doc, p)
      [] p.name = "token" -> ContributeToken(doc, p)
      [] p.name = "keys" -> ContributeKeys(doc, p)
      [] p.name = "discovery" -> ContributeDiscovery(doc, p)
      [] p.name = "userinfo" -> ContributeUserinfo(doc, p)
      [] p.name = "introspection" -> ContributeIntrospection(doc, p)
      [] p.name = "revocation" -> ContributeRevocation(doc, p)
      [] p.name = "endsession" -> ContributeEndsession(doc, p)
      [] p.name = "backchannel" -> ContributeBackchannel(doc, p)
      [] p.name = "device" -> ContributeDevice(doc, p)
      [] p.name = "par" -> ContributePar(doc, p)
      [] p.name = "dpop" -> ContributeDpop(doc, p)
      [] p.name = "jarm" -> ContributeJarm(doc, p)
      [] p.name = "dcr" -> ContributeDcr(doc, p)
      [] p.name = "ciba" -> ContributeCiba(doc, p)
      [] p.name = "mtls" -> ContributeMtls(doc, p)
      [] OTHER -> doc

Document ==
    LET doc[i \in 0..Len(contributors)] ==
            IF i = 0 THEN EmptyDocument ELSE Contribute(doc[i - 1], contributors[i])
    IN  doc[Len(contributors)]

-----------------------------------------------------------------------------

EngineNext ==
    \/ \E n \in Offered : AutoRegister(n) \/ AutoSkip(n) \/ AutoPanic(n)
    \/ NewReturns
    \/ \E n \in ByHand, c \in BOOLEAN : Register(n, c)
    \/ Build

EngineSpec == EngineInit /\ [][EngineNext]_engineVars

-----------------------------------------------------------------------------

Built == phase = "open" /\ layers # << >>

\* No plugin was registered since the last Build.
UpToDate == Built /\ contributors = plugins

EngineTypeOK ==
    /\ stores \subseteq StorageCapability
    /\ plugins \in Seq([name : Names, configured : BOOLEAN])
    /\ \A path \in DOMAIN router : router[path] \in DOMAIN plugins
    /\ \A f \in {logoutHook, jarmSigner, nonceSender} :
           \A i \in DOMAIN f : {i, f[i]} \subseteq DOMAIN plugins
    /\ IsPrefix(contributors, plugins)
    /\ phase \in {"new", "open", "panic"}

\* engine.go Build and Validate: an engine that came out of Build has, for every plugin
\* that declares its stores, a storage that implements them, and next to the authorization
\* plugin the four others the protocol needs - whatever was disabled, declined or added by hand.
BuiltIsComplete ==
    Built => \A p \in ToSet(contributors) :
        /\ p.name \in Categorizable => Plugin[p.name].requires \subseteq stores
        /\ p.name = "authorization" => \A n \in {"token", "userinfo", "keys", "endsession"} :
               \E q \in ToSet(contributors) : q.name = n

\* shared/issuer.go GetRoutePath and GetDiscoveryURL: when each configured endpoint has both
\* a path and a URL or neither, every endpoint of the discovery document leads to a plugin
\* that owns it, also while plugins are replaced by hand after Build.
AdvertisedIsServed ==
    Built /\ (\A ep \in Endpoints : configs[ep].route = configs[ep].url) =>
        LET doc == Document IN
        \A ep \in DOMAIN doc.endpoints :
            /\ doc.endpoints[ep] \in DOMAIN router
            /\ ep \in Plugin[plugins[router[doc.endpoints[ep]]].name].routes

\* engine.go connectLogoutHooks, connectJARMSigner: with several plugins of one name, the
\* instance that got the connection is the one that serves the route: back-channel logout
\* is not advertised and then left out by end_session, nor jwt response modes by authorize.
ConnectedIsServing ==
    UpToDate =>
        LET doc == Document IN
        /\ "backchannel_logout" \in doc.features /\ "endsession" \in DOMAIN doc.endpoints =>
               router[GetRoutePath(plugins[LastOf("endsession")], "endsession")] \in DOMAIN logoutHook
        /\ "jwt" \in doc.modes /\ "authorize" \in DOMAIN doc.endpoints =>
               router[GetRoutePath(plugins[LastOf("authorization")], "authorize")] \in DOMAIN jarmSigner

\* The conditional contributions of mtls.go, jarm.go and ciba.go ("the discovery plugin sets
\* this first"): the priorities let each see what it depends on, so that in an engine without
\* plugins added by hand the document depends on which plugins there are, not on their order.
DocumentOrderSafe ==
    Built /\ byHand = 0 =>
        LET doc == Document
            Has(n) == \E p \in ToSet(contributors) : p.name = n
        IN /\ Has("discovery") /\ Has("jarm") => "jarm_algs" \in doc.features
           /\ Has("discovery") /\ Has("ciba") => "ciba_algs" \in doc.features
           /\ Has("mtls") =>
                  /\ {"dcr", "device", "par", "ciba"} \cap DOMAIN doc.endpoints \subseteq doc.aliases
                  /\ {"introspection", "revocation"} \cap DOMAIN doc.endpoints \subseteq doc.features

\* plugin.go MiddlewareProvider: sender constraining is advertised only by a handler whose
\* requests pass the middleware that implements it, also after late registrations.
AdvertisedIsEnforced ==
    Built => LET doc == Document IN
        /\ "dpop" \in doc.features => Contains(layers, "dpop")
        /\ "mtls" \in doc.features => Contains(layers, "mtls")

\* The discovery document of a built engine tells the truth: what it announces is complete,
\* routed, connected and enforced, whatever was disabled, doubled, declined or added late.
DocumentTruthful ==
    EngineTypeOK /\ BuiltIsComplete /\ AdvertisedIsServed /\ AdvertisedIsEnforced /\ ConnectedIsServing
=============================================================================
