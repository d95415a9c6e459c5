-------------------------- MODULE ClientManagerProofs --------------------------
(***************************************************************************)
(* Proofs about ClientManager, for every set of hosts, every lifetime      *)
(* above the buffer, and every history of the CR, the cluster and the auth *)
(* service: the types, that no call carries an expired token, and that no  *)
(* client is handed out that a call has marked.                            *)
(***************************************************************************)
EXTENDS ClientManager, TLAPS

(* The world is one of the scenario's.                                     *)
LEMMA WorldType ==
    ASSUME TypeOK
    PROVE  world \in World
BY ClientScenarioAssumption DEF TypeOK, world

(* What GetAdminToken answers: a token of the type, and it expires for the *)
(* client when it dies for the cluster, not before the buffer has passed.  *)
Sound(t) ==
    /\ t \in Token
    /\ t.dies # 0 => t.expires = t.dies /\ now + Buffer < t.dies

LEMMA AdminTokenSound ==
    ASSUME NEW a, NEW w \in World, now \in 0..MaxTime
    PROVE  Sound(GetAdminToken(a, w).token)
<1> USE ClientBoundAssumption
<1>1. Sound(NoToken)
  BY DEF Sound, Token, NoToken
<1>2. w.key \in 0..MaxKey
  BY DEF World
<1>3. now \in 0..(MaxTime + Lifetime) /\ now + Lifetime \in 0..(MaxTime + Lifetime)
      /\ 0 \in 0..(MaxTime + Lifetime)
  OBVIOUS
<1>4. now + Buffer < now + Lifetime
  OBVIOUS
<1>5. Sound(GetTokenViaExchange(a, w).token)
  BY <1>1, <1>2, <1>3, <1>4 DEF Sound, Token, GetTokenViaExchange, Failure, Result
<1>6. Sound(GetTokenViaPassword(a, w).token)
  BY <1>1, <1>2, <1>3, <1>4 DEF Sound, Token, GetTokenViaPassword, Failure, Result
<1> QED
  BY <1>1, <1>5, <1>6 DEF GetAdminToken, Failure, Result

-----------------------------------------------------------------------------
(* Within a reconcile there is room for another call.                      *)
CallsBounded == pc # "idle" => calls < MaxCalls

LEMMA TypeInit == Init => TypeOK /\ CallsBounded
<1> SUFFICES ASSUME Init PROVE TypeOK /\ CallsBounded
  OBVIOUS
<1>1. scenario \in Seq(World) /\ Len(scenario) > 0
  BY ClientScenarioAssumption DEF Init
<1>2. scenario[1] \in World /\ 1 \in DOMAIN scenario
  BY <1>1
<1>3. scenario[1].cr \in CR
  BY <1>2 DEF World
<1>4. client \in Client /\ url \in URL
  BY ClientBoundAssumption DEF Init, Client, NoClient, URL, SomeURL, NoToken, Token
<1> QED
  BY <1>1, <1>2, <1>3, <1>4, ClientBoundAssumption DEF Init, TypeOK, CallsBounded

(* A refreshed, a marked and a new client are clients.                     *)
LEMMA ClientType ==
    ASSUME TypeOK, NEW t \in Token, NEW b \in BOOLEAN
    PROVE  /\ [client EXCEPT !.token = t] \in Client
           /\ [client EXCEPT !.failed = b] \in Client
           /\ NewAIStoreClient(t, world) \in Client
<1>1. client \in Client /\ url \in URL /\ mem \in CR
  BY DEF TypeOK
<1>2. TrustOf(mem, world) \in 0..MaxKey
  BY WorldType, ClientBoundAssumption DEF TrustOf, World
<1>3. (mem.https /\ mem.skip) \in BOOLEAN /\ mem.mode \in {"service", "balancer", "public"}
  BY <1>1 DEF CR
<1>4. [client EXCEPT !.token = t] \in Client /\ [client EXCEPT !.failed = b] \in Client
  BY <1>1 DEF Client
<1>5. NewAIStoreClient(t, world) \in Client
  BY <1>1, <1>2, <1>3 DEF NewAIStoreClient, Client
<1> QED
  BY <1>4, <1>5

(* Every step keeps the types and leaves room for the next call.           *)
LEMMA TypeStep ==
    ASSUME TypeOK, CallsBounded, [Next]_vars
    PROVE  TypeOK' /\ CallsBounded'
<1> USE ClientBoundAssumption
<1>0. /\ world \in World /\ mem \in CR /\ client \in Client /\ calls \in 0..MaxCalls
      /\ 0 \in 0..Buffer
  BY WorldType DEF TypeOK
<1>1. CASE Reconcile
  <2>1. world.cr \in CR
    BY <1>0 DEF World
  <2> QED
    BY <1>0, <1>1, <2>1 DEF Reconcile, StartGetClient, TypeOK, CallsBounded
<1>2. CASE RefreshToken
  <2>1. client' \in Client
    <3>1. GetAdminToken(mem.auth, world).token \in Token
      BY <1>0, AdminTokenSound DEF Sound, TypeOK
    <3> QED
      BY <1>0, <1>2, <3>1, ClientType DEF RefreshToken, GiveUp
  <2> QED
    BY <1>0, <1>2, <2>1 DEF RefreshToken, GiveUp, TypeOK, CallsBounded
<1>3. CASE GetAISAPIEndpoint
  <2>1. Endpoints(mem, world) \subseteq {"service", "balancer"} \cup Hosts
    BY <1>0 DEF Endpoints, World, CR
  <2>2. mem.https \in BOOLEAN
    BY <1>0 DEF CR
  <2>3. url' \in URL
    BY <1>3, <2>1, <2>2 DEF GetAISAPIEndpoint, GiveUp, URL, TypeOK
  <2> QED
    BY <1>0, <1>3, <2>3 DEF GetAISAPIEndpoint, GiveUp, TypeOK, CallsBounded
<1>4. CASE HasValidBaseParams
  <2>1. client' \in Client
    BY <1>0, <1>4, ClientType DEF HasValidBaseParams, Client
  <2> QED
    BY <1>0, <1>4, <2>1 DEF HasValidBaseParams, TypeOK, CallsBounded
<1>5. CASE CreateClient
  <2>1. client' \in Client
    <3>1. GetAdminToken(mem.auth, world).token \in Token
      BY <1>0, AdminTokenSound DEF Sound, TypeOK
    <3> QED
      BY <1>0, <1>5, <3>1, ClientType DEF CreateClient, GiveUp
  <2> QED
    BY <1>0, <1>5, <2>1 DEF CreateClient, GiveUp, TypeOK, CallsBounded
<1>6. CASE Call
  <2>1. client' \in Client
    BY <1>0, <1>6, ClientType DEF Call, Client
  <2>2. last' \in {"none", "ok", "down", "untrusted", "refused"}
    BY <1>6 DEF Call, Outcome
  <2>3. calls' \in 0..MaxCalls /\ CallsBounded'
    BY <1>0, <1>6 DEF Call, StartGetClient, CallsBounded
  <2> QED
    BY <1>0, <1>6, <2>1, <2>2, <2>3 DEF Call, StartGetClient, TypeOK
<1>7. CASE WorldChanges
  <2>1. step' \in DOMAIN scenario
    BY <1>7, ClientScenarioAssumption DEF WorldChanges, TypeOK
  <2> QED
    BY <1>7, <2>1 DEF WorldChanges, TypeOK, CallsBounded
<1>8. CASE Tick
  BY <1>8 DEF Tick, TypeOK, CallsBounded
<1>9. CASE UNCHANGED vars
  BY <1>9 DEF vars, TypeOK, CallsBounded
<1> QED
  BY <1>1, <1>2, <1>3, <1>4, <1>5, <1>6, <1>7, <1>8, <1>9 DEF Next, GetClient

(***************************************************************************)
(* THEOREM.  The client, the clock and the reconcile keep their types      *)
(* through every history of the world, and no reconcile makes more calls   *)
(* than the bound (GetClient and the methods of AIStoreClient).            *)
(***************************************************************************)
THEOREM ClientTypes == Spec => []TypeOK
<1>1. Init => TypeOK /\ CallsBounded
  BY TypeInit
<1>2. TypeOK /\ CallsBounded /\ [Next]_vars => TypeOK' /\ CallsBounded'
  BY TypeStep
<1> QED
  BY <1>1, <1>2, PTL DEF Spec

-----------------------------------------------------------------------------
(***************************************************************************)
(* No expired token.                                                       *)
(***************************************************************************)
(* The client knows when its token dies.                                   *)
ExpiryKnown == client.token.dies # 0 => client.token.expires = client.token.dies

(* When the token was last looked at, age ticks ago, it had the buffer     *)
(* before it, and less than the buffer has passed since.                   *)
LookedAtInTime ==
    pc = "call" => /\ age < Buffer
                   /\ client.token.dies # 0 => now + Buffer <= client.token.dies + age

TokenInv == ExpiryKnown /\ LookedAtInTime

LEMMA TokenInvInit == Init => TokenInv
BY DEF Init, NoClient, NoToken, TokenInv, ExpiryKnown, LookedAtInTime

LEMMA TokenInvStep ==
    ASSUME TypeOK, TokenInv, [Next]_vars
    PROVE  TokenInv'
<1> USE ClientBoundAssumption DEF TokenInv
<1>0. /\ world \in World /\ client \in Client /\ client.token \in Token /\ now \in 0..MaxTime
      /\ age \in 0..Buffer
  BY WorldType DEF TypeOK, Client
<1> DEFINE got == GetAdminToken(mem.auth, world).token
<1>1. /\ got \in Token
      /\ got.dies # 0 => got.expires = got.dies /\ now + Buffer < got.dies
  BY <1>0, AdminTokenSound DEF Sound
<1> HIDE DEF got
<1>2. CASE RefreshToken
  <2>1. client'.token \in {client.token, got} /\ pc' # "call"
    BY <1>0, <1>2 DEF RefreshToken, GiveUp, got, Client
  <2> QED
    BY <1>1, <2>1 DEF ExpiryKnown, LookedAtInTime
<1>3. CASE HasValidBaseParams
  <2>1. client'.token = client.token /\ now' = now /\ age' = 0
    BY <1>0, <1>3 DEF HasValidBaseParams, Client
  <2>2. pc' = "call" => ~IsTokenExpired(client.token)
    BY <1>3 DEF HasValidBaseParams
  <2>3. pc' = "call" /\ client.token.dies # 0 => now + Buffer <= client.token.dies
    BY <1>0, <2>2 DEF IsTokenExpired, ExpiryKnown, Token
  <2> QED
    BY <1>0, <2>1, <2>3 DEF ExpiryKnown, LookedAtInTime, Token
<1>4. CASE CreateClient
  <2>1. CASE pc' = "call"
    <3>1. client'.token = got /\ now' = now /\ age' = 0
      BY <1>4, <2>1 DEF CreateClient, GiveUp, NewAIStoreClient, got
    <3> QED
      BY <1>0, <1>1, <3>1 DEF ExpiryKnown, LookedAtInTime, Token
  <2>2. CASE pc' # "call"
    <3>1. UNCHANGED client
      BY <1>4, <2>2 DEF CreateClient, GiveUp
    <3> QED
      BY <2>2, <3>1 DEF ExpiryKnown, LookedAtInTime
  <2> QED
    BY <2>1, <2>2
<1>5. CASE Call
  <2>1. client'.token = client.token /\ UNCHANGED now
    BY <1>0, <1>5 DEF Call, Client
  <2>2. pc' = "call" => UNCHANGED <<pc, age>>
    BY <1>5 DEF Call, StartGetClient
  <2> QED
    BY <2>1, <2>2 DEF ExpiryKnown, LookedAtInTime
<1>6. CASE Tick
  <2>1. UNCHANGED client /\ UNCHANGED pc /\ now' = now + 1
    BY <1>6 DEF Tick
  <2>2. pc = "call" => age' = age + 1 /\ age + 1 < Buffer
    BY <1>6 DEF Tick
  <2> QED
    BY <1>0, <2>1, <2>2 DEF ExpiryKnown, LookedAtInTime, Token
<1>7. CASE Reconcile \/ GetAISAPIEndpoint
  BY <1>7 DEF Reconcile, StartGetClient, GetAISAPIEndpoint, GiveUp, ExpiryKnown, LookedAtInTime
<1>8. CASE WorldChanges \/ UNCHANGED vars
  BY <1>8 DEF WorldChanges, vars, ExpiryKnown, LookedAtInTime
<1> QED
  BY <1>2, <1>3, <1>4, <1>5, <1>6, <1>7, <1>8 DEF Next, GetClient

(***************************************************************************)
(* THEOREM.  No call carries a token that the cluster no longer accepts    *)
(* for its age, for every buffer, every lifetime above it and whatever     *)
(* time passes between GetClient and the call (isTokenExpired).            *)
(***************************************************************************)
THEOREM TokensInTime == Spec => []NoExpiredToken
<1>1. TypeOK /\ TokenInv => NoExpiredToken
  <2> SUFFICES ASSUME TypeOK, TokenInv, pc = "call", client.token.dies # 0
               PROVE  now < client.token.dies
    BY DEF NoExpiredToken
  <2>1. client.token.dies \in Nat /\ now \in Nat /\ age \in Nat /\ Buffer \in Nat
    BY ClientBoundAssumption DEF TypeOK, Client, Token
  <2> QED
    BY <2>1 DEF TokenInv, LookedAtInTime
<1>2. TypeOK /\ TokenInv /\ [Next]_vars => TokenInv'
  BY TokenInvStep
<1> QED
  BY <1>1, <1>2, TokenInvInit, ClientTypes, PTL DEF Spec

-----------------------------------------------------------------------------
(***************************************************************************)
(* THEOREM.  A client that a call has marked as refused is not handed out  *)
(* again, in every step of every history: GetClient either finds a client  *)
(* unmarked, also by its own health check, or makes a new one              *)
(* (checkAuthErr, HasValidBaseParams).                                     *)
(***************************************************************************)
THEOREM RefusedIsReplaced == Spec => NoRefusedClient
<1>1. ASSUME TypeOK, [Next]_vars, pc # "call", pc' = "call"
      PROVE  ~client'.failed
  <2>0. client \in Client
    BY <1>1 DEF TypeOK
  <2>1. HasValidBaseParams \/ CreateClient
    BY <1>1 DEF Next, GetClient, Reconcile, StartGetClient, RefreshToken, GetAISAPIEndpoint,
                GiveUp, Call, WorldChanges, Tick, vars
  <2>2. CASE HasValidBaseParams
    <3> DEFINE asks == client.exists /\ ~client.failed /\ client.mode = "public"
                       /\ client.url = url /\ client.mode = mem.mode
    <3>1. Fits(mem) /\ (asks => Outcome(client, world) = "ok")
      BY <1>1, <2>2 DEF HasValidBaseParams
    <3>2. ~client.failed /\ ~(asks /\ Outcome(client, world) = "refused")
      BY <3>1 DEF Fits
    <3>3. client' = [client EXCEPT !.failed =
                        client.failed \/ (asks /\ Outcome(client, world) = "refused")]
      BY <2>2 DEF HasValidBaseParams
    <3> HIDE DEF asks
    <3> QED
      BY <2>0, <3>2, <3>3 DEF Client
  <2>3. CASE CreateClient
    BY <1>1, <2>3 DEF CreateClient, GiveUp, NewAIStoreClient
  <2> QED
    BY <2>1, <2>2, <2>3
<1>2. TypeOK /\ [Next]_vars => [pc # "call" /\ pc' = "call" => ~client'.failed]_vars
  BY <1>1
<1> QED
  BY <1>2, ClientTypes, PTL DEF Spec, NoRefusedClient
=============================================================================
