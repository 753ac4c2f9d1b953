------------------------- MODULE TokenManagerProofs -------------------------
(***************************************************************************)
(* Proofs about the token manager, for any number of clients, tenants and  *)
(* lifetimes and any timing constants.                                     *)
(***************************************************************************)
EXTENDS TokenManager, TLAPS

\* What the settings are.
LEMMA SettingsFacts ==
    /\ GrantType \in {"pkce", "implicit"}
    /\ RenewalBuffer \in Int
  BY SettingsAssumption DEF TokenManagerSettings

\* The facts about setTimeout's delay that the proofs use: it is a natural
\* number, a delay that fits in 32 bits is never shortened, and with a buffer of
\* at most 2^31 milliseconds no delay is lengthened, whatever the overflow.
LEMMA DelayFacts ==
    ASSUME NEW e \in Lifetimes
    PROVE  /\ Delay(e) \in Nat
           /\ Fits(e) => Delay(e) >= e - RenewalBuffer
           /\ RenewalBuffer <= HalfRange
                => Delay(e) <= e - RenewalBuffer \/ Delay(e) = 0
<1> DEFINE d == e - RenewalBuffer
           n == 2 * HalfRange
<1>1. /\ e \in Nat
      /\ d \in Int
      /\ HalfRange \in Nat /\ HalfRange > 0
      /\ n \in Nat /\ n > 0
  BY TimesAssumption, SettingsFacts
<1>2. d % n \in 0 .. (n - 1)
  BY <1>1
<1>3. ASSUME d >= 0, d < HalfRange
      PROVE  d % n = d
  BY <1>1, <1>3
<1>4. ASSUME d >= 0
      PROVE  d % n <= d
  BY <1>1, <1>4
<1>5. ASSUME d < 0, -d <= HalfRange
      PROVE  d % n = d + n
  BY <1>1, <1>5
<1>6. /\ Delay(e) \in Nat
      /\ Fits(e) => Delay(e) >= d
  BY <1>1, <1>2, <1>3 DEF Delay, Fits
<1>7. ASSUME RenewalBuffer <= HalfRange
      PROVE  Delay(e) <= d \/ Delay(e) = 0
  <2>1. Delay(e) = IF d % n < HalfRange THEN d % n ELSE 0
    BY DEF Delay
  <2>2. CASE d >= 0
    BY <2>1, <2>2, <1>4
  <2>3. CASE d < 0
    <3>1. -d <= HalfRange
      BY <1>1, <1>7, TimesAssumption, SettingsFacts
    <3>2. d + n >= HalfRange
      BY <1>1, <3>1
    <3> QED
      BY <1>1, <2>1, <2>3, <1>5, <3>1, <3>2
  <2> QED
    BY <1>1, <2>2, <2>3
<1> QED
  BY <1>6, <1>7

-----------------------------------------------------------------------------
(***************************************************************************)
(* Type correctness.                                                       *)
(***************************************************************************)

\* Tokens that arrive now or earlier are tokens.
LEMMA MintedTokenType ==
    ASSUME NEW tenant \in Slots, NEW scope \in Slots, NEW e \in Lifetimes,
           NEW received \in Nat, NEW age \in Nat, age <= received
    PROVE  MintedToken(tenant, scope, e, received, age) \in Token
<1>1. e \in Nat
  BY TimesAssumption
<1> QED
  BY <1>1 DEF MintedToken, Token

\* Setting a token keeps the cache and the timers well typed.
LEMMA SetTokenType ==
    ASSUME TMTypeOK, NEW c \in Clients, NEW token \in Token, SetToken(c, token)
    PROVE  /\ store' \in [Slots -> Token \cup {NoToken}]
           /\ timer' \in [Clients -> Timeout \cup {NoTimer}]
<1>1. store' \in [Slots -> Token \cup {NoToken}]
  BY DEF TMTypeOK, SetToken, Token
<1>2. [token |-> token, armedAt |-> now,
           dueAt |-> now + Delay(token.expiresIn)] \in Timeout
  <2>1. token.expiresIn \in Lifetimes
    BY DEF Token
  <2>2. now \in Nat /\ now + Delay(token.expiresIn) \in Nat
    BY <2>1, DelayFacts DEF TMTypeOK
  <2> QED
    BY <2>2 DEF Timeout
<1>3. timer' \in [Clients -> Timeout \cup {NoTimer}]
  BY <1>2 DEF TMTypeOK, SetToken
<1> QED
  BY <1>1, <1>3

\* Renewals ask for a tenant, or for none.
LEMMA RenewalTenantType ==
    ASSUME NEW token \in Token
    PROVE  RenewalTenant(token) \in Slots
  BY DEF RenewalTenant, Token, Slots

\* What the two actions that set a token do: the token is well typed, and it
\* is the one of the client, or the one the answered request renews.
LEMMA ClientSetsFacts ==
    ASSUME TMTypeOK, NEW c \in Clients, ClientSets(c)
    PROVE  \E e \in Lifetimes, received \in 0 .. now, age \in Nat :
             LET token == MintedToken(TenantOf[c], TenantOf[c], e, received, age)
             IN  /\ GrantType = "pkce" => age <= ResponseTime
                 /\ token \in Token
                 /\ SetToken(c, token)
<1>1. PICK e \in Lifetimes, received \in 0 .. now :
         \E age \in 0 .. received :
            /\ GrantType = "pkce" => age <= ResponseTime
            /\ SetToken(c, MintedToken(TenantOf[c], TenantOf[c], e, received, age))
  BY DEF ClientSets
<1>2. PICK age \in 0 .. received :
         /\ GrantType = "pkce" => age <= ResponseTime
         /\ SetToken(c, MintedToken(TenantOf[c], TenantOf[c], e, received, age))
  BY <1>1
<1>3. received \in Nat /\ age \in Nat /\ age <= received
  BY DEF TMTypeOK
<1>4. TenantOf[c] \in Slots
  BY TenantsAssumption
<1>5. MintedToken(TenantOf[c], TenantOf[c], e, received, age) \in Token
  BY <1>3, <1>4, MintedTokenType
<1> QED
  BY <1>2, <1>3, <1>5

LEMMA RefreshSucceedsFacts ==
    ASSUME TMTypeOK, NEW r \in requests, RefreshSucceeds(r)
    PROVE  \E e \in Lifetimes, age \in 0 .. (now - r.sentAt) :
             LET token == MintedToken(RenewalTenant(r.timeout.token),
                                      RenewalTenant(r.timeout.token), e, now, age)
             IN  token \in Token /\ SetToken(r.client, token)
<1>1. PICK e \in Lifetimes, age \in 0 .. (now - r.sentAt) :
         SetToken(r.client, MintedToken(RenewalTenant(r.timeout.token),
                                        RenewalTenant(r.timeout.token), e, now, age))
  BY DEF RefreshSucceeds
<1>2. r.timeout.token \in Token /\ r.sentAt \in Nat
  BY DEF TMTypeOK, Request, Timeout
<1>3. RenewalTenant(r.timeout.token) \in Slots
  BY <1>2, RenewalTenantType
<1>4. now \in Nat /\ age \in Nat /\ age <= now
  BY <1>2 DEF TMTypeOK
<1>5. MintedToken(RenewalTenant(r.timeout.token), RenewalTenant(r.timeout.token), e, now, age)
        \in Token
  BY <1>3, <1>4, MintedTokenType
<1> QED
  BY <1>1, <1>5

\* The cache, the timers and the requests are always well typed.
THEOREM TypeCorrect == TMSpec => []TMTypeOK
<1>1. TMInit => TMTypeOK
  BY DEF TMInit, TMTypeOK, EmptyStore
<1>2. TMTypeOK /\ [TMNext]_tmVars => TMTypeOK'
  <2> SUFFICES ASSUME TMTypeOK, [TMNext]_tmVars
               PROVE  TMTypeOK'
    OBVIOUS
  <2>1. ASSUME NEW c \in Clients, ClientSets(c)
        PROVE  TMTypeOK'
    <3>1. /\ store' \in [Slots -> Token \cup {NoToken}]
          /\ timer' \in [Clients -> Timeout \cup {NoTimer}]
      BY <2>1, ClientSetsFacts, SetTokenType
    <3> QED
      BY <2>1, <3>1 DEF ClientSets, TMTypeOK
  <2>2. ASSUME NEW c \in Clients, Clear(c)
        PROVE  TMTypeOK'
    BY <2>2 DEF Clear, TMTypeOK, EmptyStore
  <2>3. ASSUME NEW c \in Clients, TimerFires(c)
        PROVE  TMTypeOK'
    <3>1. timer[c] \in Timeout
      BY <2>3 DEF TimerFires, TMTypeOK
    <3>2. [client |-> c, timeout |-> timer[c], sentAt |-> now] \in Request
      BY <3>1 DEF Timeout, Request, TMTypeOK
    <3> QED
      BY <2>3, <3>2 DEF TimerFires, TMTypeOK
  <2>4. ASSUME NEW r \in requests, RefreshSucceeds(r)
        PROVE  TMTypeOK'
    <3>1. r.client \in Clients
      BY DEF TMTypeOK, Request
    <3>2. /\ store' \in [Slots -> Token \cup {NoToken}]
          /\ timer' \in [Clients -> Timeout \cup {NoTimer}]
      BY <2>4, <3>1, RefreshSucceedsFacts, SetTokenType
    <3> QED
      BY <2>4, <3>2 DEF RefreshSucceeds, TMTypeOK
  <2>5. ASSUME NEW r \in requests, RefreshFails(r)
        PROVE  TMTypeOK'
    BY <2>5 DEF RefreshFails, TMTypeOK
  <2>6. CASE Reload
    BY <2>6 DEF Reload, TMTypeOK
  <2>7. CASE Tick
    BY <2>7 DEF Tick, TMTypeOK
  <2>8. CASE UNCHANGED tmVars
    BY <2>8 DEF tmVars, TMTypeOK
  <2> QED
    BY <2>1, <2>2, <2>3, <2>4, <2>5, <2>6, <2>7, <2>8 DEF TMNext
<1> QED
  BY <1>1, <1>2, PTL DEF TMSpec

-----------------------------------------------------------------------------
(***************************************************************************)
(* The inductive invariant behind the safety theorems.  It ties every      *)
(* token to what the auth host granted and every timeout and request to    *)
(* the clock.                                                              *)
(***************************************************************************)

\* A client's token: granted for the tenant it names, of the client's tenant,
\* and, with PKCE, minted at most ResponseTime before it was received.
ClientToken(c, token) ==
    /\ token.scope = token.tenant
    /\ token.tenant = TenantOf[c]
    /\ GrantType = "pkce" => token.expiresAt <= token.validUntil + ResponseTime

\* A timeout was armed when its token was received or later, and is due after
\* the delay.
ArmedAfterReceipt(timeout) ==
    /\ timeout.armedAt >= ReceivedAt(timeout)
    /\ timeout.dueAt = timeout.armedAt + Delay(timeout.token.expiresIn)

CacheInv ==
    \A s \in Slots : store[s] # NoToken => store[s].scope = s

TimerInv ==
    \A c \in Clients :
        timer[c] # NoTimer =>
            /\ RenewalBuffer > 0
            /\ ClientToken(c, timer[c].token)
            /\ ArmedAfterReceipt(timer[c])
            /\ now <= timer[c].dueAt + TimerSlack

RequestInv ==
    \A r \in requests :
        /\ RenewalBuffer > 0
        /\ ClientToken(r.client, r.timeout.token)
        /\ ArmedAfterReceipt(r.timeout)
        /\ r.timeout.dueAt <= r.sentAt /\ r.sentAt <= r.timeout.dueAt + TimerSlack
        /\ r.sentAt <= now /\ now <= r.sentAt + ResponseTime

TMInv == CacheInv /\ TimerInv /\ RequestInv

\* A token minted for a client by a sign-in or a renewal is its token.
LEMMA MintedClientToken ==
    ASSUME NEW c \in Clients, NEW e \in Lifetimes,
           NEW received \in Nat, NEW age \in Nat,
           GrantType = "pkce" => age <= ResponseTime
    PROVE  LET token == MintedToken(TenantOf[c], TenantOf[c], e, received, age)
           IN  /\ ClientToken(c, token)
               /\ token.expiresAt - token.expiresIn = received
               /\ token.expiresIn = e
<1>1. e \in Nat /\ ResponseTime \in Nat
  BY TimesAssumption
<1> QED
  BY <1>1 DEF MintedToken, ClientToken

\* Setting a client's token that was received now or earlier keeps the cache and
\* the timers in order.
LEMMA SetTokenInv ==
    ASSUME TMTypeOK, TMInv, NEW c \in Clients, NEW token \in Token,
           ClientToken(c, token),
           token.expiresAt - token.expiresIn <= now,
           SetToken(c, token), UNCHANGED now
    PROVE  CacheInv' /\ TimerInv'
<1>1. CacheInv'
  BY DEF TMInv, CacheInv, SetToken, ClientToken, TMTypeOK, Token
<1>2. TimerInv'
  <2>1. token.expiresIn \in Lifetimes /\ Delay(token.expiresIn) \in Nat
    BY DelayFacts DEF Token
  <2>2. token.expiresAt \in Nat /\ token.expiresIn \in Nat
    BY <2>1, TimesAssumption DEF Token
  <2> DEFINE t == [token |-> token, armedAt |-> now,
           dueAt |-> now + Delay(token.expiresIn)]
  <2>3. /\ t.armedAt >= t.token.expiresAt - t.token.expiresIn
        /\ t.dueAt = t.armedAt + Delay(t.token.expiresIn)
        /\ now <= t.dueAt + TimerSlack
    BY <2>1, <2>2, TimesAssumption DEF TMTypeOK
  <2>4. ClientToken(c, t.token)
    OBVIOUS
  <2>5. CASE RenewalBuffer <= 0
    BY <2>5 DEF SetToken, TMInv, TimerInv
  <2>6. CASE ~(RenewalBuffer <= 0)
    <3>1. timer' = [timer EXCEPT ![c] = t]
      BY <2>6 DEF SetToken
    <3>2. \A d \in Clients : timer'[d] = IF d = c THEN t ELSE timer[d]
      BY <3>1 DEF TMTypeOK
    <3> HIDE DEF t
    <3>3. ArmedAfterReceipt(t)
      BY <2>3 DEF ArmedAfterReceipt, ReceivedAt
    <3>4. RenewalBuffer > 0
      BY <2>6, TimesAssumption, SettingsFacts
    <3> QED
      BY <3>2, <3>3, <3>4, <2>3, <2>4 DEF TMInv, TimerInv
  <2> QED
    BY <2>5, <2>6
<1> QED
  BY <1>1, <1>2

\* A renewal asks for the tenant of the client that sent it.
LEMMA RenewalTenantOfClient ==
    ASSUME TMTypeOK, RequestInv, NEW r \in requests
    PROVE  RenewalTenant(r.timeout.token) = TenantOf[r.client]
<1>1. r.client \in Clients /\ r.timeout.token.tenant = TenantOf[r.client]
  BY DEF TMTypeOK, Request, RequestInv, ClientToken
<1> QED
  BY <1>1, GrantTypeAssumption, SettingsFacts DEF RenewalTenant

\* The invariant holds in every reachable state.
THEOREM Invariant == TMSpec => []TMInv
<1>1. TMInit => TMInv
  BY DEF TMInit, TMInv, CacheInv, TimerInv, RequestInv, EmptyStore
<1>2. TMTypeOK /\ TMInv /\ [TMNext]_tmVars => TMInv'
  <2> SUFFICES ASSUME TMTypeOK, TMInv, [TMNext]_tmVars
               PROVE  TMInv'
    OBVIOUS
  <2> USE TimesAssumption
  <2>1. ASSUME NEW c \in Clients, ClientSets(c)
        PROVE  TMInv'
    <3>1. PICK e \in Lifetimes, received \in 0 .. now, age \in Nat :
             LET token == MintedToken(TenantOf[c], TenantOf[c], e, received, age)
             IN  /\ GrantType = "pkce" => age <= ResponseTime
                 /\ token \in Token
                 /\ SetToken(c, token)
      BY <2>1, ClientSetsFacts
    <3> DEFINE token == MintedToken(TenantOf[c], TenantOf[c], e, received, age)
    <3>2. received \in Nat /\ received <= now
      BY DEF TMTypeOK
    <3>3. ClientToken(c, token) /\ token.expiresAt - token.expiresIn = received
      BY <3>1, <3>2, MintedClientToken
    <3>4. token \in Token /\ SetToken(c, token) /\ UNCHANGED <<now, requests>>
      BY <2>1, <3>1 DEF ClientSets
    <3> HIDE DEF token
    <3>5. CacheInv' /\ TimerInv'
      BY <3>2, <3>3, <3>4, SetTokenInv
    <3>6. RequestInv'
      BY <3>4 DEF TMInv, RequestInv
    <3> QED
      BY <3>5, <3>6 DEF TMInv
  <2>2. ASSUME NEW c \in Clients, Clear(c)
        PROVE  TMInv'
    BY <2>2 DEF Clear, EmptyStore, TMInv, CacheInv, TimerInv, RequestInv
  <2>3. ASSUME NEW c \in Clients, TimerFires(c)
        PROVE  TMInv'
    <3> DEFINE r == [client |-> c, timeout |-> timer[c], sentAt |-> now]
    <3>1. /\ RenewalBuffer > 0
          /\ ClientToken(c, timer[c].token)
          /\ ArmedAfterReceipt(timer[c])
          /\ now <= timer[c].dueAt + TimerSlack
          /\ timer[c].dueAt <= now
      BY <2>3 DEF TimerFires, TMInv, TimerInv
    <3>2. timer[c] \in Timeout /\ timer[c].dueAt \in Nat /\ now \in Nat
      BY <2>3 DEF TimerFires, TMTypeOK, Timeout
    <3>3. /\ ClientToken(r.client, r.timeout.token)
          /\ ArmedAfterReceipt(r.timeout)
          /\ r.timeout.dueAt <= r.sentAt /\ r.sentAt <= r.timeout.dueAt + TimerSlack
          /\ r.sentAt <= now /\ now <= r.sentAt + ResponseTime
      BY <3>1, <3>2 DEF ArmedAfterReceipt, ReceivedAt
    <3>4. /\ requests' = requests \cup {r}
          /\ timer' = [timer EXCEPT ![c] = NoTimer]
          /\ UNCHANGED <<now, store>>
      BY <2>3 DEF TimerFires
    <3> HIDE DEF r
    <3>5. CacheInv'
      BY <3>4 DEF TMInv, CacheInv
    <3>6. TimerInv'
      BY <3>4 DEF TMTypeOK, TMInv, TimerInv
    <3>7. RequestInv'
      BY <3>1, <3>3, <3>4 DEF TMInv, RequestInv
    <3> QED
      BY <3>5, <3>6, <3>7 DEF TMInv
  <2>4. ASSUME NEW r \in requests, RefreshSucceeds(r)
        PROVE  TMInv'
    <3>1. r.client \in Clients /\ r.sentAt \in Nat /\ now \in Nat
      BY DEF TMTypeOK, Request
    <3>2. r.sentAt <= now /\ now <= r.sentAt + ResponseTime
      BY DEF TMInv, RequestInv
    <3>3. RenewalTenant(r.timeout.token) = TenantOf[r.client]
      BY RenewalTenantOfClient DEF TMInv
    <3>4. PICK e \in Lifetimes, age \in 0 .. (now - r.sentAt) :
             LET token == MintedToken(TenantOf[r.client], TenantOf[r.client],
                                      e, now, age)
             IN  token \in Token /\ SetToken(r.client, token)
      BY <2>4, <3>3, RefreshSucceedsFacts
    <3> DEFINE token == MintedToken(TenantOf[r.client], TenantOf[r.client],
                                    e, now, age)
    <3>5. age \in Nat /\ age <= ResponseTime
      BY <3>1, <3>2
    <3>6. ClientToken(r.client, token)
          /\ token.expiresAt - token.expiresIn = now
      BY <3>1, <3>5, MintedClientToken
    <3>7. /\ token \in Token
          /\ SetToken(r.client, token)
          /\ requests' = requests \ {r}
          /\ UNCHANGED now
      BY <2>4, <3>4 DEF RefreshSucceeds
    <3> HIDE DEF token
    <3>8. CacheInv' /\ TimerInv'
      BY <3>1, <3>6, <3>7, SetTokenInv
    <3>9. RequestInv'
      BY <3>7 DEF TMInv, RequestInv
    <3> QED
      BY <3>8, <3>9 DEF TMInv
  <2>5. ASSUME NEW r \in requests, RefreshFails(r)
        PROVE  TMInv'
    BY <2>5 DEF RefreshFails, TMInv, CacheInv, TimerInv, RequestInv
  <2>6. CASE Reload
    BY <2>6 DEF Reload, TMInv, CacheInv, TimerInv, RequestInv
  <2>7. CASE Tick
    <3>1. CacheInv'
      BY <2>7 DEF Tick, TMInv, CacheInv
    <3>2. TimerInv'
      <4> SUFFICES ASSUME NEW c \in Clients, timer[c] # NoTimer
                   PROVE  now + 1 <= timer[c].dueAt + TimerSlack
        BY <2>7 DEF Tick, TMInv, TimerInv
      <4>1. timer[c].dueAt \in Nat /\ now \in Nat
        BY DEF TMTypeOK, Timeout
      <4> QED
        BY <2>7, <4>1 DEF Tick
    <3>3. RequestInv'
      <4> SUFFICES ASSUME NEW r \in requests
                   PROVE  /\ r.sentAt <= now + 1
                          /\ now + 1 <= r.sentAt + ResponseTime
        BY <2>7 DEF Tick, TMInv, RequestInv
      <4>1. r.sentAt \in Nat /\ now \in Nat /\ r.sentAt <= now
        BY DEF TMTypeOK, Request, TMInv, RequestInv
      <4> QED
        BY <2>7, <4>1 DEF Tick
    <3> QED
      BY <3>1, <3>2, <3>3 DEF TMInv
  <2>8. CASE UNCHANGED tmVars
    BY <2>8 DEF tmVars, TMInv, CacheInv, TimerInv, RequestInv
  <2> QED
    BY <2>1, <2>2, <2>3, <2>4, <2>5, <2>6, <2>7, <2>8 DEF TMNext
<1> QED
  BY <1>1, <1>2, TypeCorrect, PTL DEF TMSpec

-----------------------------------------------------------------------------
(***************************************************************************)
(* The promises of the token manager.                                      *)
(***************************************************************************)

\* No client is handed a token granted for another tenant, however many clients
\* share the storage.
THEOREM Isolation == TMSpec => []TenantIsolation
<1>1. TMInv => TenantIsolation
  BY DEF TMInv, CacheInv, TenantIsolation, Lookup, Slots
<1> QED
  BY <1>1, Invariant, PTL

\* Under Timely, a token set on receipt stays valid at the auth host until its
\* renewal is answered: the host's clock starts at most ResponseTime before the
\* client's (in the implicit flow, if the page was opened that soon), the timer is
\* at most TimerSlack late and the request takes at most ResponseTime
\* (token-manager.ts:160-167, 199-227).
THEOREM NoGap == TMSpec => []RenewedInTime
<1>1. TMTypeOK /\ TMInv => RenewedInTime
  <2> SUFFICES ASSUME TMTypeOK, TMInv, Timely
               PROVE  /\ \A c \in Clients :
                            timer[c] # NoTimer /\ SetOnReceipt(timer[c])
                              /\ OpenedPromptly(timer[c])
                                => now < timer[c].token.validUntil
                      /\ \A r \in requests :
                            SetOnReceipt(r.timeout) /\ OpenedPromptly(r.timeout)
                                => now < r.timeout.token.validUntil
    BY DEF RenewedInTime
  <2> USE TimesAssumption, SettingsFacts
  <2>1. ASSUME NEW x \in Timeout, SetOnReceipt(x), ArmedAfterReceipt(x),
               NEW slack \in Nat, slack <= TimerSlack + ResponseTime,
               now <= x.dueAt + slack,
               x.token.expiresAt <= x.token.validUntil + ResponseTime
        PROVE  now < x.token.validUntil
    <3> DEFINE e == x.token.expiresIn
               d == Delay(e)
    <3>1. e \in Nat /\ TimerSlack + 2 * ResponseTime < e
      BY DEF Timeout, Token, Timely
    <3>2. d \in Nat /\ d + TimerSlack + 2 * ResponseTime < e
      <4>1. e \in Lifetimes /\ RenewalBuffer \in Int
        BY DEF Timeout, Token
      <4>2. d \in Nat /\ (d <= e - RenewalBuffer \/ d = 0)
        BY <4>1, DelayFacts DEF Timely
      <4>3. TimerSlack + 2 * ResponseTime < RenewalBuffer
        BY DEF Timely
      <4> HIDE DEF e, d
      <4> QED
        BY <3>1, <4>1, <4>2, <4>3
    <3>3. x.dueAt = x.token.expiresAt - e + d
      BY <2>1 DEF SetOnReceipt, ReceivedAt, ArmedAfterReceipt
    <3>4. now \in Nat /\ x.token.expiresAt \in Nat /\ x.token.validUntil \in Nat
      BY DEF TMTypeOK, Timeout, Token
    <3> HIDE DEF e, d
    <3> QED
      BY <2>1, <3>1, <3>2, <3>3, <3>4
  <2>2. ASSUME NEW c \in Clients, timer[c] # NoTimer, SetOnReceipt(timer[c]),
               OpenedPromptly(timer[c])
        PROVE  now < timer[c].token.validUntil
    <3>1. timer[c] \in Timeout
      BY <2>2 DEF TMTypeOK
    <3>2. /\ ArmedAfterReceipt(timer[c])
          /\ now <= timer[c].dueAt + TimerSlack
          /\ timer[c].token.expiresAt <= timer[c].token.validUntil + ResponseTime
      BY <2>2 DEF TMInv, TimerInv, ClientToken, OpenedPromptly
    <3> QED
      BY <2>1, <2>2, <3>1, <3>2
  <2>3. ASSUME NEW r \in requests, SetOnReceipt(r.timeout), OpenedPromptly(r.timeout)
        PROVE  now < r.timeout.token.validUntil
    <3>1. /\ r.timeout \in Timeout /\ r.timeout.dueAt \in Nat
          /\ r.sentAt \in Nat /\ now \in Nat
      BY DEF TMTypeOK, Request, Timeout
    <3>2. /\ ArmedAfterReceipt(r.timeout)
          /\ now <= r.timeout.dueAt + (TimerSlack + ResponseTime)
          /\ r.timeout.token.expiresAt <= r.timeout.token.validUntil + ResponseTime
      BY <2>3, <3>1 DEF TMInv, RequestInv, ClientToken, OpenedPromptly
    <3>3. TimerSlack + ResponseTime \in Nat
      OBVIOUS
    <3> QED
      BY <2>1, <2>3, <3>1, <3>2, <3>3
  <2> QED
    BY <2>2, <2>3
<1> QED
  BY <1>1, TypeCorrect, Invariant, PTL

\* No token is renewed before it enters its renewal buffer, unless its delay
\* overflows.
THEOREM NotEarly == TMSpec => []RenewalNotEarly
<1>1. TMTypeOK /\ TMInv => RenewalNotEarly
  <2> SUFFICES ASSUME TMTypeOK, TMInv, NEW r \in requests,
                      Fits(r.timeout.token.expiresIn)
               PROVE  r.sentAt >= r.timeout.token.expiresAt - RenewalBuffer
    BY DEF RenewalNotEarly
  <2>1. /\ r.timeout.token.expiresIn \in Lifetimes /\ r.timeout.token.expiresAt \in Nat
        /\ r.timeout.dueAt \in Nat /\ r.sentAt \in Nat
        /\ r.timeout.token.expiresIn \in Nat /\ RenewalBuffer \in Int
    BY TimesAssumption, SettingsFacts DEF TMTypeOK, Request, Timeout, Token
  <2>2. /\ Delay(r.timeout.token.expiresIn) \in Nat
        /\ Delay(r.timeout.token.expiresIn) >= r.timeout.token.expiresIn - RenewalBuffer
    BY <2>1, DelayFacts
  <2>3. /\ r.timeout.armedAt >= r.timeout.token.expiresAt
                                  - r.timeout.token.expiresIn
        /\ r.timeout.dueAt = r.timeout.armedAt + Delay(r.timeout.token.expiresIn)
        /\ r.sentAt >= r.timeout.dueAt
    BY DEF TMInv, RequestInv, ArmedAfterReceipt, ReceivedAt
  <2>4. r.timeout.armedAt \in Nat
    BY DEF TMTypeOK, Request, Timeout
  <2> QED
    BY <2>1, <2>2, <2>3, <2>4
<1> QED
  BY <1>1, TypeCorrect, Invariant, PTL

\* The timer of the only client of a tenant is armed for the token the cache
\* holds, or the cache was cleared.
THEOREM FollowsCache == TMSpec => []TimerFollowsCache
<1>1. TMInit => TimerFollowsCache
  BY DEF TMInit, TimerFollowsCache
<1>2. TMTypeOK /\ TMInv /\ TimerFollowsCache /\ [TMNext]_tmVars
        => TimerFollowsCache'
  <2> SUFFICES ASSUME TMTypeOK, TMInv, TimerFollowsCache, [TMNext]_tmVars,
                      RenewalBuffer > 0, NEW c \in Clients,
                      SoleOwner(c), timer'[c] # NoTimer
               PROVE  store'[TenantOf[c]] \in {timer'[c].token, NoToken}
    BY DEF TimerFollowsCache, SoleOwner
  <2> USE TenantsAssumption, TimesAssumption, SettingsFacts
  <2>1. timer[c] # NoTimer => store[TenantOf[c]] \in {timer[c].token, NoToken}
    BY DEF TimerFollowsCache
  <2>2. ASSUME NEW d \in Clients, NEW token, token.tenant = TenantOf[d],
               SetToken(d, token)
        PROVE  store'[TenantOf[c]] \in {timer'[c].token, NoToken}
    <3>1. CASE d = c
      <4>1. store'[TenantOf[c]] = token
        BY <2>2, <3>1 DEF SetToken, TMTypeOK
      <4>2. timer'[c].token = token
        BY <2>2, <3>1 DEF SetToken, TMTypeOK
      <4> QED
        BY <4>1, <4>2
    <3>2. CASE d # c
      <4>1. timer'[c] = timer[c]
        BY <2>2, <3>2 DEF SetToken, TMTypeOK
      <4>2. TenantOf[d] # TenantOf[c]
        BY <3>2 DEF SoleOwner
      <4>3. store'[TenantOf[c]] = store[TenantOf[c]]
        BY <2>2, <4>2 DEF SetToken, TMTypeOK
      <4> QED
        BY <2>1, <4>1, <4>3
    <3> QED
      BY <3>1, <3>2
  <2>3. ASSUME NEW d \in Clients, ClientSets(d)
        PROVE  store'[TenantOf[c]] \in {timer'[c].token, NoToken}
    BY <2>2, <2>3 DEF ClientSets, MintedToken
  <2>4. ASSUME NEW r \in requests, RefreshSucceeds(r)
        PROVE  store'[TenantOf[c]] \in {timer'[c].token, NoToken}
    <3>1. r.client \in Clients /\ RenewalTenant(r.timeout.token) = TenantOf[r.client]
      BY RenewalTenantOfClient DEF TMTypeOK, Request, TMInv
    <3> QED
      BY <2>2, <2>4, <3>1 DEF RefreshSucceeds, MintedToken
  <2>5. ASSUME NEW d \in Clients, Clear(d)
        PROVE  store'[TenantOf[c]] \in {timer'[c].token, NoToken}
    BY <2>5 DEF Clear, EmptyStore
  <2>6. ASSUME NEW d \in Clients, TimerFires(d)
        PROVE  store'[TenantOf[c]] \in {timer'[c].token, NoToken}
    BY <2>1, <2>6 DEF TimerFires, TMTypeOK
  <2>7. ASSUME NEW r \in requests, RefreshFails(r)
        PROVE  store'[TenantOf[c]] \in {timer'[c].token, NoToken}
    BY <2>1, <2>7 DEF RefreshFails
  <2>8. ASSUME Reload
        PROVE  FALSE
    BY <2>8 DEF Reload
  <2>9. CASE Tick
    BY <2>1, <2>9 DEF Tick
  <2>10. CASE UNCHANGED tmVars
    BY <2>1, <2>10 DEF tmVars
  <2> QED
    BY <2>3, <2>4, <2>5, <2>6, <2>7, <2>8, <2>9, <2>10 DEF TMNext
<1> QED
  BY <1>1, <1>2, TypeCorrect, Invariant, PTL DEF TMSpec

\* A client's renewal ends only with a failed renewal or with the page.
THEOREM GoesOn == TMSpec => RenewalGoesOn
<1>1. TMTypeOK /\ TMInv /\ [TMNext]_tmVars
        => [\A c \in Clients :
              Renewing(c) /\ ~Renewing(c)'
                => Reload \/ \E r \in requests : RefreshFails(r)]_tmVars
  <2> SUFFICES ASSUME TMTypeOK, TMInv, TMNext, NEW c \in Clients,
                      Renewing(c), ~Renewing(c)', ~Reload,
                      \A r \in requests : ~RefreshFails(r)
               PROVE  FALSE
    OBVIOUS
  <2>1. ASSUME NEW d \in Clients, NEW token \in Token, SetToken(d, token),
               RenewalBuffer > 0
        PROVE  timer'[d] # NoTimer /\ (c # d => timer'[c] = timer[c])
    <3>1. [token |-> token, armedAt |-> now,
           dueAt |-> now + Delay(token.expiresIn)] # NoTimer
      <4>1. now \in Nat /\ now + Delay(token.expiresIn) \in Nat
        BY DelayFacts DEF TMTypeOK, Token
      <4> QED
        BY <4>1, NothingAssumption DEF Timeout
    <3>2. timer' = [timer EXCEPT ![d] =
            [token |-> token, armedAt |-> now,
             dueAt |-> now + Delay(token.expiresIn)]]
      BY <2>1, TimesAssumption, SettingsFacts DEF SetToken
    <3> QED
      BY <3>1, <3>2 DEF TMTypeOK
  <2>2. RenewalBuffer > 0
    BY DEF Renewing, TMInv, TimerInv, RequestInv
  <2>3. ASSUME NEW d \in Clients, ClientSets(d)
        PROVE  FALSE
    <3>1. PICK token \in Token : SetToken(d, token)
      BY <2>3, ClientSetsFacts
    <3> QED
      BY <2>1, <2>2, <2>3, <3>1 DEF ClientSets, Renewing
  <2>4. ASSUME NEW r \in requests, RefreshSucceeds(r)
        PROVE  FALSE
    <3>1. PICK token \in Token : SetToken(r.client, token)
      BY <2>4, RefreshSucceedsFacts
    <3>2. r.client \in Clients
      BY DEF TMTypeOK, Request
    <3> QED
      BY <2>1, <2>2, <2>4, <3>1, <3>2 DEF RefreshSucceeds, Renewing
  <2>5. ASSUME NEW d \in Clients, Clear(d)
        PROVE  FALSE
    BY <2>5 DEF Clear, Renewing
  <2>6. ASSUME NEW d \in Clients, TimerFires(d)
        PROVE  FALSE
    <3> DEFINE r == [client |-> d, timeout |-> timer[d], sentAt |-> now]
    <3>1. requests' = requests \cup {r} /\ timer' = [timer EXCEPT ![d] = NoTimer]
      BY <2>6 DEF TimerFires
    <3>2. r.client = d
      OBVIOUS
    <3> HIDE DEF r
    <3>3. CASE d = c
      BY <3>1, <3>2, <3>3 DEF Renewing
    <3>4. CASE d # c
      BY <3>1, <3>4 DEF Renewing, TMTypeOK
    <3> QED
      BY <3>3, <3>4
  <2>7. ASSUME Tick
        PROVE  FALSE
    BY <2>7 DEF Tick, Renewing
  <2> QED
    BY <2>3, <2>4, <2>5, <2>6, <2>7 DEF TMNext
<1> QED
  BY <1>1, TypeCorrect, Invariant, PTL DEF TMSpec, RenewalGoesOn

\* Setting a token of a client covers its tenant; setting that of another client
\* leaves the cached token of a sole owner, and its timer, alone.
LEMMA SetTokenCovers ==
    ASSUME TMTypeOK, RenewalBuffer > 0, NEW c \in Clients, SoleOwner(c),
           NEW d \in Clients, NEW token \in Token, token.tenant = TenantOf[d],
           SetToken(d, token)
    PROVE  /\ d = c => store'[TenantOf[c]] = timer'[c].token /\ timer'[c] # NoTimer
           /\ d # c => /\ store'[TenantOf[c]] = store[TenantOf[c]]
                       /\ timer'[c] = timer[c]
<1> DEFINE t == [token |-> token, armedAt |-> now,
                 dueAt |-> now + Delay(token.expiresIn)]
<1>1. TenantOf[c] \in Slots /\ TenantOf[d] \in Slots
  BY TenantsAssumption
<1>2. now \in Nat /\ now + Delay(token.expiresIn) \in Nat
  BY DelayFacts DEF TMTypeOK, Token
<1>3. t \in Timeout /\ t # NoTimer /\ t.token = token
  BY <1>2, NothingAssumption DEF Timeout
<1>4. timer' = [timer EXCEPT ![d] = t] /\ store' = [store EXCEPT ![TenantOf[d]] = token]
  BY SettingsFacts DEF SetToken
<1> HIDE DEF t
<1>5. CASE d = c
  BY <1>1, <1>3, <1>4, <1>5 DEF TMTypeOK
<1>6. CASE d # c
  BY <1>1, <1>4, <1>6 DEF TMTypeOK, SoleOwner
<1> QED
  BY <1>5, <1>6

\* The token a sole owner's cache serves stays under renewal, whatever sign-ins,
\* renewals of other tokens, clears and overtaken answers come in between, until a
\* renewal fails or the page is left (token-manager.ts:134-168, 199-227).
THEOREM StaysCovered == TMSpec => CachedTokenIsRenewed
<1>1. TMTypeOK /\ TMInv /\ [TMNext]_tmVars
        => [\A c \in Clients :
              RenewalBuffer > 0 /\ SoleOwner(c) /\ Covered(c) /\ ~Covered(c)'
                => Reload \/ \E r \in requests : RefreshFails(r)]_tmVars
  <2> SUFFICES ASSUME TMTypeOK, TMInv, TMNext, NEW c \in Clients,
                      RenewalBuffer > 0, SoleOwner(c), Covered(c), ~Reload,
                      \A r \in requests : ~RefreshFails(r)
               PROVE  Covered(c)'
    OBVIOUS
  <2>0. TenantOf[c] \in Slots
    BY TenantsAssumption
  <2>1. ASSUME NEW d \in Clients, ClientSets(d)
        PROVE  Covered(c)'
    <3>1. PICK token \in Token : token.tenant = TenantOf[d] /\ SetToken(d, token)
      BY <2>1, ClientSetsFacts DEF MintedToken
    <3>2. requests' = requests
      BY <2>1 DEF ClientSets
    <3> QED
      BY <3>1, <3>2, SetTokenCovers DEF Covered
  <2>2. ASSUME NEW r \in requests, RefreshSucceeds(r)
        PROVE  Covered(c)'
    <3>1. r.client \in Clients /\ RenewalTenant(r.timeout.token) = TenantOf[r.client]
      BY RenewalTenantOfClient DEF TMTypeOK, Request, TMInv
    <3>2. PICK token \in Token : token.tenant = TenantOf[r.client] /\ SetToken(r.client, token)
      BY <2>2, <3>1, RefreshSucceedsFacts DEF MintedToken
    <3>3. requests' = requests \ {r}
      BY <2>2 DEF RefreshSucceeds
    <3>4. CASE r.client = c
      BY <3>1, <3>2, <3>4, SetTokenCovers DEF Covered
    <3>5. CASE r.client # c
      BY <3>1, <3>2, <3>3, <3>5, SetTokenCovers DEF Covered
    <3> QED
      BY <3>4, <3>5
  <2>3. ASSUME NEW d \in Clients, Clear(d)
        PROVE  Covered(c)'
    BY <2>0, <2>3 DEF Clear, EmptyStore, Covered
  <2>4. ASSUME NEW d \in Clients, TimerFires(d)
        PROVE  Covered(c)'
    <3> DEFINE r == [client |-> d, timeout |-> timer[d], sentAt |-> now]
    <3>1. /\ requests' = requests \cup {r}
          /\ timer' = [timer EXCEPT ![d] = NoTimer]
          /\ store' = store
      BY <2>4 DEF TimerFires
    <3>2. r.client = d /\ r.timeout = timer[d]
      OBVIOUS
    <3> HIDE DEF r
    <3>3. CASE d = c
      BY <3>1, <3>2, <3>3 DEF Covered
    <3>4. CASE d # c
      BY <3>1, <3>4 DEF Covered, TMTypeOK
    <3> QED
      BY <3>3, <3>4
  <2>5. ASSUME Tick
        PROVE  Covered(c)'
    BY <2>5 DEF Tick, Covered
  <2> QED
    BY <2>1, <2>2, <2>3, <2>4, <2>5 DEF TMNext
<1> QED
  BY <1>1, TypeCorrect, Invariant, PTL DEF TMSpec, CachedTokenIsRenewed
=============================================================================
