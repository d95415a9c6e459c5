----------------------------- MODULE ClientManager -----------------------------
(***************************************************************************)
(* How the operator keeps an API client per AIStore cluster: GetClient of  *)
(* AISClientManager, the tokens that AuthNClient fetches for it, its TLS   *)
(* settings, and what the calls of AIStoreClient learn about the token.    *)
(*                                                                         *)
(* One cluster.  A reconcile reads the CR (mem), then alternates GetClient *)
(* and calls.  A token is refreshed in place when it expires soon; a       *)
(* client that was refused, or no longer fits the CR, is replaced.  The    *)
(* endpoint, secrets, profiles, CAs and the auth service are read live.    *)
(***************************************************************************)
EXTENDS Naturals, Sequences, FiniteSets

CONSTANTS
    Hosts,      \* addresses of the nodes that proxies run on
    Buffer,     \* TokenExpiryBuffer, in ticks
    Lifetime,   \* the lifetime of a token, where the auth service states one
    MaxTime,    \* bound: the clock stops there
    MaxKey,     \* bound: signing keys and CAs that follow one another
    MaxCalls,   \* bound: calls to the cluster in one reconcile
    Scenarios   \* what happens around the operator, one step after the other

(***************************************************************************)
(* spec.auth and the deprecated authNSecretName: where the settings come   *)
(* from and how a token is got.  "unset": neither method, or no secret.    *)
(***************************************************************************)
Auth ==
    [source : {"none", "legacy", "inline", "profile"},
     method : {"unset", "nosecret", "authn", "oauth", "exchange"}, tls : BOOLEAN]

CR == [auth : Auth, mode : {"service", "balancer", "public"}, https : BOOLEAN,
       skip : BOOLEAN]

(* What a reconcile may find.                                              *)
World ==
    [cr : CR,
     profile : BOOLEAN,                       \* the AIStoreAuthProfile exists
     authCA  : {"none", "bad", "good"},       \* the CA for the auth service
     secret  : {"missing", "incomplete", "good"},
     subject : BOOLEAN,                       \* a subject token can be had
     up      : BOOLEAN,                       \* the auth service answers
     states  : BOOLEAN,                       \* and states a lifetime
     key     : 1..MaxKey,                     \* the key that tokens are signed with
     guarded : BOOLEAN,                       \* the cluster checks tokens
     ready   : SUBSET Hosts,                  \* where ready proxies run
     ingress : BOOLEAN,                       \* the load balancer has an address
     serves  : BOOLEAN,                       \* the daemons serve HTTPS
     ca      : 1..MaxKey,                     \* the CA of their certificates
     caFile  : 0..MaxKey,                     \* the CA file of the operator, 0 none
     badFile : BOOLEAN]                       \* it cannot be read or parsed

ASSUME ClientBoundAssumption ==
    /\ Buffer \in Nat \ {0} /\ Lifetime \in Nat /\ Lifetime > Buffer
    /\ MaxTime \in Nat /\ MaxKey \in Nat /\ MaxCalls \in Nat \ {0}
ASSUME ClientScenarioAssumption == Scenarios \subseteq Seq(World) \ {<<>>}

VARIABLES
    scenario,  \* the scenario that is played
    step,      \* where in it the world is
    now,       \* the clock
    pc,        \* the next step of the running reconcile
    mem,       \* the CR in the memory of the running reconcile
    url,       \* the endpoint that GetClient found
    client,    \* the client in clientMap
    age,       \* ticks since GetClient last looked at the token
    calls,     \* calls of the running reconcile
    last       \* the outcome of the last call

vars == <<scenario, step, now, pc, mem, url, client, age, calls, last>>

world == scenario[step]

(* key 0: no token.  expires: what the client believes, 0 never.  dies:    *)
(* when the cluster stops to accept it, 0 never.                           *)
Token == [key : 0..MaxKey, expires : 0..(MaxTime + Lifetime), dies : 0..(MaxTime + Lifetime)]

NoToken == [key |-> 0, expires |-> 0, dies |-> 0]

URL == [https : BOOLEAN, at : {"service", "balancer"} \cup Hosts]

(* trust: 0 plain HTTP or verification skipped, else the CA that was read. *)
Client ==
    [exists : BOOLEAN, url : URL, mode : {"service", "balancer", "public"},
     token : Token, failed : BOOLEAN, skip : BOOLEAN, trust : 0..MaxKey]

SomeURL == [https |-> FALSE, at |-> "service"]

NoClient ==
    [exists |-> FALSE, url |-> SomeURL, mode |-> "service", token |-> NoToken,
     failed |-> FALSE, skip |-> FALSE, trust |-> 0]

(* The types of the state.                                                 *)
TypeOK ==
    /\ scenario \in Scenarios /\ step \in DOMAIN scenario
    /\ now \in 0..MaxTime
    /\ pc \in {"idle", "refresh", "endpoint", "validate", "create", "call"}
    /\ mem \in CR /\ url \in URL /\ client \in Client /\ age \in 0..Buffer
    /\ calls \in 0..MaxCalls
    /\ last \in {"none", "ok", "down", "untrusted", "refused"}

Init ==
    /\ scenario \in Scenarios /\ step = 1 /\ now = 0
    /\ pc = "idle" /\ mem = scenario[1].cr
    /\ url = SomeURL /\ client = NoClient
    /\ age = 0 /\ calls = 0 /\ last = "none"

-----------------------------------------------------------------------------
(***************************************************************************)
(* AuthNClient: the token for a cluster.  A result is an error or a token, *)
(* which may be none.                                                      *)
(***************************************************************************)
Failure   == [ok |-> FALSE, token |-> NoToken]
Result(t) == [ok |-> TRUE, token |-> t]

(* caCertPaths, trustStoreConfig, NewCertPool: a CA that a profile refers  *)
(* to must exist and parse; a CA file may be missing or bad.               *)
AuthTLSWorks(a, w) == a.tls /\ a.source = "profile" => w.authCA # "bad"

(* The handshake with the auth service, whose CA is a private one.         *)
AuthServiceAnswers(a, w) == w.up /\ (a.tls => w.authCA = "good")

(* exchangeTokenWithAuthSvc: without a stated lifetime a token is kept.    *)
GetTokenViaExchange(a, w) ==
    IF ~w.subject \/ ~AuthServiceAnswers(a, w) THEN Failure
    ELSE LET t == IF w.states THEN now + Lifetime ELSE 0
         IN  Result([key |-> w.key, expires |-> t, dies |-> t])

(* Mutation: the lifetime of an OAuth token in the wrong unit.             *)
MutantGetTokenViaPassword(a, w) ==
    IF a.method = "nosecret" THEN Result(NoToken)
    ELSE IF w.secret # "good" \/ ~AuthServiceAnswers(a, w) THEN Failure
    ELSE Result([key |-> w.key, expires |-> now + 60 * Lifetime, dies |-> now + Lifetime])

(* getTokenViaPassword.  AuthN: a token that never expires.  OAuth: the    *)
(* lifetime counts from now, and an omitted one is a lifetime of zero.     *)
GetTokenViaPassword(a, w) ==
    IF a.method = "nosecret" THEN Result(NoToken)
    ELSE IF w.secret # "good" \/ ~AuthServiceAnswers(a, w) THEN Failure
    ELSE IF a.method = "authn" THEN Result([key |-> w.key, expires |-> 0, dies |-> 0])
    ELSE Result([key     |-> w.key,
                 expires |-> IF w.states THEN now + Lifetime ELSE now,
                 dies    |-> IF w.states THEN now + Lifetime ELSE 0])

(* ResolveAuthConfig and getAdminToken.  authNSecretName alone gets none.  *)
GetAdminToken(a, w) ==
    IF a.source \in {"none", "legacy"} THEN Result(NoToken)
    ELSE IF \/ a.source = "profile" /\ ~w.profile
            \/ a.source = "inline" /\ a.method = "unset"
            \/ ~AuthTLSWorks(a, w) THEN Failure
    ELSE IF a.method = "exchange" THEN GetTokenViaExchange(a, w)
    ELSE GetTokenViaPassword(a, w)

(* Mutation: a token is used until it expires.                             *)
MutantIsTokenExpired(t) == t.expires # 0 /\ now > t.expires

IsTokenExpired(t) == t.expires # 0 /\ now + Buffer > t.expires

-----------------------------------------------------------------------------
(***************************************************************************)
(* GetClient.                                                              *)
(***************************************************************************)
StartGetClient == pc' = "refresh" /\ age' = 0

GiveUp == pc' = "idle"

(* A reconcile that needs the cluster.                                     *)
Reconcile ==
    /\ pc = "idle" /\ mem' = world.cr /\ calls' = 0 /\ StartGetClient
    /\ UNCHANGED <<scenario, step, now, url, client, last>>

(* The token of a cached client is refreshed in place if it expires soon.  *)
RefreshToken ==
    /\ pc = "refresh"
    /\ IF client.exists /\ IsTokenExpired(client.token)
          THEN LET got == GetAdminToken(mem.auth, world)
               IN  IF got.ok THEN pc' = "endpoint" /\ client' = [client EXCEPT !.token = got.token]
                             ELSE GiveUp /\ UNCHANGED client
          ELSE pc' = "endpoint" /\ UNCHANGED client
    /\ age' = 0
    /\ UNCHANGED <<scenario, step, now, mem, url, calls, last>>

(* getAISAPIEndpoint: any ready proxy, the load balancer or the service.   *)
Endpoints(c, w) ==
    CASE c.mode = "public"   -> w.ready
      [] c.mode = "balancer" -> IF w.ingress THEN {"balancer"} ELSE {}
      [] c.mode = "service"  -> {"service"}

GetAISAPIEndpoint ==
    /\ pc = "endpoint"
    /\ IF Endpoints(mem, world) = {} THEN GiveUp /\ UNCHANGED url
       ELSE \E at \in Endpoints(mem, world) :
                url' = [https |-> mem.https, at |-> at] /\ pc' = "validate"
    /\ UNCHANGED <<scenario, step, now, mem, client, age, calls, last>>

(* A call over the network: what the cluster makes of client c.            *)
Reaches(c, w) ==
    CASE c.url.at = "service"  -> w.ready # {}
      [] c.url.at = "balancer" -> w.ingress /\ w.ready # {}
      [] OTHER                 -> c.url.at \in w.ready

TokenAccepted(t, w) == t.key = w.key /\ (t.dies # 0 => now < t.dies)

Outcome(c, w) ==
    IF ~Reaches(c, w) \/ c.url.https # w.serves THEN "down"
    ELSE IF c.url.https /\ ~c.skip /\ c.trust # w.ca THEN "untrusted"
    ELSE IF w.guarded /\ ~TokenAccepted(c.token, w) THEN "refused"
    ELSE "ok"

HasAuthConfig(c) == c.auth.source # "none"

(* Mutation: a refusal is forgotten.                                       *)
MutantFits(c) ==
    /\ client.exists
    /\ client.url = url /\ client.mode = c.mode
    /\ (client.token.key # 0) <=> HasAuthConfig(c)

(* HasValidBaseParams, but for the health check and the expiry.            *)
Fits(c) ==
    /\ client.exists /\ ~client.failed
    /\ client.url = url /\ client.mode = c.mode
    /\ (client.token.key # 0) <=> HasAuthConfig(c)

(* HasValidBaseParams.  In public mode there is no service in front of the *)
(* proxies: the client must pass a health check, whose refusal counts.     *)
HasValidBaseParams ==
    /\ pc = "validate"
    /\ LET health == Outcome(client, world)
           asks   == client.exists /\ ~client.failed /\ client.mode = "public"
                     /\ client.url = url /\ client.mode = mem.mode
           valid  == Fits(mem) /\ (asks => health = "ok") /\ ~IsTokenExpired(client.token)
       IN  /\ client' = [client EXCEPT !.failed = @ \/ (asks /\ health = "refused")]
           /\ pc' = IF valid THEN "call" ELSE "create"
    /\ age' = 0
    /\ UNCHANGED <<scenario, step, now, mem, url, calls, last>>

(* getTLSConfig, configureCAVerification: the CA file that the operator    *)
(* has now, which may be missing but not bad.                              *)
TLSConfigWorks(c, w) == c.https /\ ~c.skip => ~w.badFile
TrustOf(c, w) == IF c.https /\ ~c.skip THEN w.caFile ELSE 0

NewAIStoreClient(t, w) ==
    [exists |-> TRUE, url |-> url, mode |-> mem.mode, token |-> t, failed |-> FALSE,
     skip |-> mem.https /\ mem.skip, trust |-> TrustOf(mem, w)]

CreateClient ==
    /\ pc = "create"
    /\ LET got == GetAdminToken(mem.auth, world)
       IN  IF got.ok /\ TLSConfigWorks(mem, world)
           THEN client' = NewAIStoreClient(got.token, world) /\ pc' = "call"
           ELSE GiveUp /\ UNCHANGED client
    /\ age' = 0
    /\ UNCHANGED <<scenario, step, now, mem, url, calls, last>>

GetClient ==
    RefreshToken \/ GetAISAPIEndpoint \/ HasValidBaseParams \/ CreateClient

(* Mutation: a 403 is like any other failed call.                          *)
MutantIsAuthError(outcome) == FALSE

IsAuthError(outcome) == outcome = "refused"

(* A call of AIStoreClient; checkAuthErr marks the client.  The reconcile  *)
(* ends, goes on with this client, or gets the client again.               *)
Call ==
    /\ pc = "call"
    /\ last' = Outcome(client, world)
    /\ client' = [client EXCEPT !.failed = @ \/ IsAuthError(last')]
    /\ calls' = calls + 1
    /\ \/ pc' = "idle" /\ UNCHANGED age
       \/ calls' < MaxCalls /\ StartGetClient
       \/ calls' < MaxCalls /\ pc' = "call" /\ UNCHANGED age
    /\ UNCHANGED <<scenario, step, now, mem, url>>

-----------------------------------------------------------------------------
(* The world changes: an edit of the CR, a rotated key or CA, proxies that *)
(* move, secrets, profiles and services that come and go.                  *)
WorldChanges ==
    /\ step < Len(scenario) /\ step' = step + 1
    /\ UNCHANGED <<scenario, now, pc, mem, url, client, age, calls, last>>

(* The time between the look at the token and its use is shorter than the  *)
(* buffer, which is 5 minutes while a call times out after 10 seconds.     *)
Tick ==
    /\ now < MaxTime
    /\ pc # "idle" => age + 1 < Buffer
    /\ now' = now + 1 /\ age' = IF pc = "idle" THEN 0 ELSE age + 1
    /\ UNCHANGED <<scenario, step, pc, mem, url, client, calls, last>>

Next == Reconcile \/ GetClient \/ Call \/ WorldChanges \/ Tick

Spec == Init /\ [][Next]_vars

(* The cluster is reconciled again and again, and a reconcile goes on.     *)
FairSpec == Spec /\ WF_vars(Reconcile) /\ WF_vars(GetClient) /\ WF_vars(Call)

-----------------------------------------------------------------------------
(***************************************************************************)
(* Properties.                                                             *)
(***************************************************************************)
(* A token that the cluster refused is not used again: GetClient hands out *)
(* no client that a call has marked (checkAuthErr, HasValidBaseParams),    *)
(* also where the token was refreshed in place after the refusal.          *)
NoRefusedClient ==
    [][pc # "call" /\ pc' = "call" => ~client'.failed]_vars

(* No call carries a token that has expired, for every lifetime above the  *)
(* buffer: it is replaced early enough (isTokenExpired), whatever time     *)
(* passes until the call.                                                  *)
NoExpiredToken ==
    pc = "call" /\ client.token.dies # 0 => now < client.token.dies

(* What the operator can do no more about: the world as it is lets a new   *)
(* client of the CR through.                                               *)
Passable(w) ==
    LET c == w.cr
        got == GetAdminToken(c.auth, w)
    IN  /\ w.ready # {} /\ w.serves = c.https
        /\ c.mode = "balancer" => w.ingress
        /\ c.https /\ ~c.skip => w.caFile = w.ca /\ ~w.badFile
        /\ got.ok /\ (w.guarded => got.token.key # 0)

(* Calls succeed for ever from some point on, once the world lets them:    *)
(* no cached client, endpoint or token keeps the operator out (GetClient). *)
CallsRecover == <>[]Passable(world) => <>[](last = "ok")
=============================================================================
