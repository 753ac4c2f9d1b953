----------------------- MODULE SplunkAuthClientProofs -----------------------
(***************************************************************************)
(* Theorems about the client on its tab, for any number of concurrent calls*)
(* and codes, both flows and all settings.                                 *)
(***************************************************************************)
EXTENDS SplunkAuthClient, TokenManagerProofs

-----------------------------------------------------------------------------
(***************************************************************************)
(* Type correctness.                                                       *)
(***************************************************************************)

\* The client's token slot and tenant.
LEMMA SelfFacts ==
    /\ Self \in Clients
    /\ \A c \in Clients : c = Self
    /\ TenantOf[Self] \in Slots
    /\ AutoRedirect \in BOOLEAN /\ RestorePath \in BOOLEAN /\ MaxClockSkew \in Nat
    /\ NoVerifier \notin Verifiers
    /\ MaxCodes \in Nat /\ ResponseTime \in Nat
    /\ Home \in Routes /\ ClientTenant \in Slots
    /\ StorageFails \in BOOLEAN
  BY ClientAssumption, TenantsAssumption, TimesAssumption DEF SplunkAuthClientSettings

\* What a location can carry.
LEMMA QueryFacts ==
    ASSUME NEW location \in Location
    PROVE  /\ location.route \in Routes
           /\ location.query.kind \in {"clean", "error", "code", "token"}
           /\ location.query.kind = "clean" => location.query = CleanQuery
           /\ location.query.kind = "error" => location.query.error \in {"unsignedtos", "other"}
           /\ location.query.kind = "code" =>
                /\ location.query.code \in Code
                /\ location.query.code.challenge \in Challenge
                /\ location.query.code.id \in 1 .. MaxCodes
                /\ location.query.user \in StateParameters
           /\ location.query.kind = "token" =>
                /\ location.query.answers \in Challenge
                /\ location.query.expiresIn \in Lifetimes
                /\ location.query.mintedAt \in Nat
  <1>1. location.route \in Routes /\ location.query \in Query
    BY DEF Location
  <1>2. CASE location.query = CleanQuery
    BY <1>1, <1>2 DEF CleanQuery
  <1>3. CASE location.query \in [kind: {"error"}, error: Errors \ {"token_not_found"}]
    BY <1>1, <1>3 DEF Errors
  <1>4. CASE location.query \in [kind: {"code"}, code: Code, user: StateParameters]
    BY <1>1, <1>4 DEF Code
  <1>5. CASE location.query \in [kind: {"token"}, answers: Challenge, expiresIn: Lifetimes,
                                 mintedAt: Nat]
    BY <1>1, <1>5
  <1> QED
    BY <1>1, <1>2, <1>3, <1>4, <1>5 DEF Query

\* A cleared location carries no answer and keeps the path.
LEMMA ClearedLocation ==
    ASSUME NEW location \in Location
    PROVE  /\ Cleared(location) \in Location
           /\ Cleared(location).query.kind \in {"clean", "error"}
           /\ Cleared(location).route = location.route
  <1>1. CASE location.query.kind \in {"code", "token"}
    <2>1. Cleared(location) = [location EXCEPT !.query = CleanQuery]
      BY <1>1 DEF Cleared
    <2>2. Cleared(location) = [route |-> location.route, query |-> CleanQuery]
      BY <2>1 DEF Location
    <2>3. CleanQuery \in Query /\ CleanQuery.kind = "clean"
      BY DEF Query, CleanQuery
    <2> QED
      BY <2>2, <2>3, QueryFacts DEF Location
  <1>2. CASE location.query.kind \notin {"code", "token"}
    BY <1>2, QueryFacts DEF Cleared
  <1> QED
    BY <1>1, <1>2

\* What the memoized exchange can be.
LEMMA MemoFacts ==
    ASSUME NEW m \in Memo
    PROVE  /\ m.state \in {"none", "pending", "fulfilled", "rejected"}
           /\ m.state = "none" <=> m = NoMemo
           /\ m.state = "pending" =>
                /\ m.code \in Code /\ m.verifier \in Verifiers /\ m.sentAt \in Nat
                /\ m.firstUse \in BOOLEAN
           /\ m.state = "fulfilled" => m.token \in Token
           /\ m.state = "rejected" => m.error \in Errors
  <1>1. CASE m = NoMemo
    BY <1>1 DEF NoMemo
  <1>2. CASE m \in [state: {"pending"}, code: Code, verifier: Verifiers,
                    sentAt: Nat, firstUse: BOOLEAN]
    BY <1>2 DEF NoMemo
  <1>3. CASE m \in [state: {"fulfilled"}, token: Token]
    BY <1>3 DEF NoMemo
  <1>4. CASE m \in [state: {"rejected"}, error: Errors]
    BY <1>4 DEF NoMemo
  <1> QED
    BY <1>1, <1>2, <1>3, <1>4 DEF Memo

\* A refusal is a state of the exchange.
LEMMA RejectedType ==
    ASSUME NEW error \in Errors
    PROVE  Rejected(error) \in Memo /\ Rejected(error).state = "rejected"
           /\ Rejected(error).error = error
  BY DEF Rejected, Memo

\* The places the tab can be sent to.
LEMMA NavTypes ==
    /\ NoNav \in Nav /\ NoNav.to = "app"
    /\ [to |-> "logout"] \in Nav
    /\ \A v \in Verifiers : AuthorizeUrl(v) \in Nav
    /\ \A v \in Verifiers, i \in BOOLEAN :
         [to |-> "tos", challenge |-> v, invited |-> i] \in Nav
  BY DEF Nav, NoNav, AuthorizeUrl

\* Finally leaves a location, and one without an answer if it does anything.
LEMMA FinallyType ==
    ASSUME url \in Location, redirectPath \in Location \cup {NoPath},
           hasRequestedToken \in BOOLEAN, NEW redirecting, Finally(redirecting)
    PROVE  /\ url' \in Location
           /\ redirectPath' \in Location \cup {NoPath}
           /\ hasRequestedToken' \in BOOLEAN
  BY ClearedLocation DEF Finally, RestorePathAfterLogin

\* login() sends the tab to the authorize endpoint with a verifier it has drawn and
\* stored, or fails and changes neither.
LEMMA LoginType ==
    ASSUME TypeOK, Login \/ LoginThrows
    PROVE  /\ redirectPath' \in {redirectPath, url}
           /\ lastLogin' \in LoginRecord
           /\ redirectInProgress' = TRUE
           /\ \/ /\ oauthParams' \in Verifiers /\ oauthParams' \notin VerifiersInUse
                 /\ nav' = AuthorizeUrl(oauthParams')
                 /\ lastLogin' = [route |-> url.route, challenge |-> oauthParams',
                                  overlaps |-> Redeeming]
              \/ /\ StorageFails
                 /\ UNCHANGED <<oauthParams, nav, lastLogin>>
  <1>1. redirectPath' \in {redirectPath, url} /\ redirectInProgress' = TRUE
    BY DEF Login, LoginThrows, StorePathBeforeLogin
  <1>2. CASE Login
    <2>1. PICK v \in FreshVerifiers : oauthParams' = v /\ nav' = AuthorizeUrl(v)
      BY <1>2 DEF Login, GenerateAuthUrl
    <2>2. v \in Verifiers /\ v \notin VerifiersInUse
      BY DEF FreshVerifiers
    <2>3. nav'.challenge = v
      BY <2>1 DEF AuthorizeUrl
    <2>4. lastLogin' = [route |-> url.route, challenge |-> v, overlaps |-> Redeeming]
      BY <1>2, <2>3 DEF Login
    <2>5. url.route \in Routes /\ v \in Challenge /\ Redeeming \in BOOLEAN
      BY <2>2, QueryFacts DEF TypeOK, Challenge, Redeeming, CarriesAnswer
    <2>6. lastLogin' \in LoginRecord
      BY <2>4, <2>5 DEF LoginRecord
    <2> QED
      BY <1>1, <2>1, <2>2, <2>4, <2>6
  <1>3. CASE LoginThrows
    BY <1>1, <1>3 DEF LoginThrows, TypeOK
  <1> QED
    BY <1>2, <1>3

\* What the synchronous part of the exchange leaves.
LEMMA RequestTokenType ==
    ASSUME TypeOK, RequestToken
    PROVE  /\ memo' \in Memo /\ memo' # NoMemo
           /\ url' \in Location
           /\ oauthParams' \in Verifiers \cup {NoVerifier}
           /\ userState' \in UserStates
           /\ presented' \subseteq 1 .. MaxCodes
  <1>1. url \in Location /\ oauthParams \in Verifiers \cup {NoVerifier}
        /\ userState \in UserStates /\ presented \subseteq 1 .. MaxCodes /\ now \in Nat
    BY DEF TypeOK, TMTypeOK
  <1>2. CASE NothingToRedeem
    <2>1. QueryError \in Errors
      BY <1>1, QueryFacts DEF QueryError, Errors
    <2>2. memo' \in Memo /\ memo' # NoMemo
      BY <1>2, <2>1, RejectedType DEF NothingToRedeem, Errors, NoMemo
    <2> QED
      BY <1>1, <1>2, <2>2 DEF NothingToRedeem
  <1>3. CASE PresentCode
    <2>1. url' \in Location /\ oauthParams' = oauthParams /\ oauthParams \in Verifiers
      BY <1>1, <1>3, ClearedLocation DEF PresentCode, HasStoredParameters
    <2>2. CASE StoresUserState /\ memo' = AccessTokenRequest
               /\ presented' = presented \cup {url.query.code.id}
      <3>1. url.query.code \in Code /\ url.query.code.id \in 1 .. MaxCodes
            /\ url.query.user \in StateParameters
        BY <1>1, <1>3, QueryFacts DEF PresentCode
      <3>2. memo' \in Memo /\ memo' # NoMemo
        BY <1>1, <2>1, <2>2, <3>1 DEF AccessTokenRequest, Memo, NoMemo
      <3>3. userState' \in UserStates
        BY <2>2, <3>1 DEF StoresUserState, StateParameters, UserStates
      <3> QED
        BY <1>1, <2>1, <2>2, <3>1, <3>2, <3>3
    <2>3. CASE LosesUserState /\ memo' = Rejected("other") /\ UNCHANGED presented
      BY <1>1, <2>1, <2>3, RejectedType DEF LosesUserState, Errors, NoMemo
    <2> QED
      BY <1>3, <2>2, <2>3 DEF PresentCode
  <1>4. CASE TakeToken
    <2>1. url' \in Location /\ oauthParams' \in Verifiers \cup {NoVerifier}
          /\ userState' = userState /\ presented' = presented
      BY <1>1, <1>4, ClearedLocation DEF TakeToken, DeleteParameters
    <2>2. TokenInLocation \in Token
      <3>1. url.query.expiresIn \in Lifetimes /\ url.query.mintedAt \in Nat
        BY <1>1, <1>4, QueryFacts DEF TakeToken
      <3>2. url.query.expiresIn \in Nat
        BY <3>1, TimesAssumption
      <3>3. now - (now - url.query.mintedAt) + url.query.expiresIn \in Nat
        BY <1>1, <3>1, <3>2
      <3>4. now + url.query.expiresIn \in Nat
        BY <1>1, <3>2
      <3> QED
        BY <3>1, <3>3, <3>4, SelfFacts DEF TokenInLocation, MintedToken, Token
    <2>3. memo' \in Memo /\ memo' # NoMemo
      BY <1>4, <2>2, RejectedType DEF TakeToken, Memo, NoMemo, Errors
    <2> QED
      BY <1>1, <2>1, <2>3
  <1> QED
    BY <1>2, <1>3, <1>4 DEF RequestToken

\* The token manager's variables stay well typed when the client sets a token or
\* clears the storage.
LEMMA TokensType ==
    ASSUME TMTypeOK, UNCHANGED <<now, requests>>,
           \/ \E token \in Token : SetToken(Self, token)
           \/ Clear(Self)
    PROVE  TMTypeOK'
  <1>1. ASSUME NEW token \in Token, SetToken(Self, token)
        PROVE  TMTypeOK'
    <2>1. /\ store' \in [Slots -> Token \cup {NoToken}]
          /\ timer' \in [Clients -> Timeout \cup {NoTimer}]
      BY <1>1, SelfFacts, SetTokenType
    <2> QED
      BY <2>1 DEF TMTypeOK
  <1>2. CASE Clear(Self)
    BY <1>2 DEF Clear, TMTypeOK, EmptyStore
  <1> QED
    BY <1>1, <1>2

\* So they do in the steps of the token manager itself.
LEMMA ManagerType ==
    ASSUME TMTypeOK,
           \/ TimerFires(Self)
           \/ \E r \in requests : RefreshSucceeds(r) \/ RefreshFails(r)
           \/ Reload
           \/ Tick
    PROVE  TMTypeOK'
  <1>1. CASE TimerFires(Self)
    <2>1. timer[Self] \in Timeout
      BY <1>1, SelfFacts DEF TimerFires, TMTypeOK
    <2>2. [client |-> Self, timeout |-> timer[Self], sentAt |-> now] \in Request
      BY <2>1, SelfFacts DEF Request, TMTypeOK
    <2> QED
      BY <1>1, <2>2, SelfFacts DEF TimerFires, TMTypeOK
  <1>2. ASSUME NEW r \in requests, RefreshSucceeds(r)
        PROVE  TMTypeOK'
    <2>1. r.client \in Clients
      BY DEF TMTypeOK, Request
    <2>2. /\ store' \in [Slots -> Token \cup {NoToken}]
          /\ timer' \in [Clients -> Timeout \cup {NoTimer}]
      BY <1>2, <2>1, RefreshSucceedsFacts, SetTokenType
    <2> QED
      BY <1>2, <2>2 DEF RefreshSucceeds, TMTypeOK
  <1>3. ASSUME NEW r \in requests, RefreshFails(r)
        PROVE  TMTypeOK'
    BY <1>3 DEF RefreshFails, TMTypeOK
  <1>4. CASE Reload
    BY <1>4 DEF Reload, TMTypeOK
  <1>5. CASE Tick
    BY <1>5 DEF Tick, TMTypeOK
  <1> QED
    BY <1>1, <1>2, <1>3, <1>4, <1>5

\* What a call up to its await leaves well typed.
LEMMA StartCallType ==
    ASSUME TypeOK, NEW c \in Callers, StartCall(c), autoPending' \in BOOLEAN
    PROVE  TypeOK'
  <1>1. UNCHANGED <<now, store, timer, requests, page, nav, lastLogin, redirectInProgress,
                    issued, tosSigned>>
    BY DEF StartCall, tmVars
  <1>2. TMTypeOK'
    BY <1>1 DEF TypeOK, TMTypeOK
  <1>3. CASE IsAuthenticated
    <2>1. /\ calls' = [calls EXCEPT ![c] = Outcome(Lookup(ClientTenant))]
          /\ Finally(redirectInProgress)
          /\ UNCHANGED <<memo, presented, oauthParams, userState>>
      BY <1>3 DEF StartCall
    <2>2. Outcome(Lookup(ClientTenant)) \in CallStates
      BY DEF Outcome, CallStates
    <2>3. calls' \in [Callers -> CallStates]
      BY <2>1, <2>2 DEF TypeOK
    <2>4. /\ url' \in Location
          /\ redirectPath' \in Location \cup {NoPath}
          /\ hasRequestedToken' \in BOOLEAN
      BY <2>1, FinallyType DEF TypeOK
    <2> QED
      BY <1>1, <1>2, <2>1, <2>3, <2>4 DEF TypeOK
  <1>4. CASE ~IsAuthenticated
    <2>1. /\ calls' = [calls EXCEPT ![c] = "waiting"]
          /\ IF memo = NoMemo THEN RequestToken
             ELSE UNCHANGED <<memo, url, presented, oauthParams, userState>>
          /\ UNCHANGED <<hasRequestedToken, redirectPath>>
      BY <1>4 DEF StartCall
    <2>2. calls' \in [Callers -> CallStates]
      BY <2>1 DEF TypeOK, CallStates
    <2>3. /\ memo' \in Memo
          /\ url' \in Location
          /\ oauthParams' \in Verifiers \cup {NoVerifier}
          /\ userState' \in UserStates
          /\ presented' \subseteq 1 .. MaxCodes
      BY <2>1, RequestTokenType DEF TypeOK
    <2> QED
      BY <1>1, <1>2, <2>1, <2>2, <2>3 DEF TypeOK
  <1> QED
    BY <1>3, <1>4

\* What the rest of a call leaves well typed.
LEMMA ResumeType ==
    ASSUME TypeOK, NEW c \in Callers, Resume(c)
    PROVE  TypeOK'
  <1>1. UNCHANGED <<memo, autoPending, issued, presented, tosSigned>>
    BY DEF Resume, hostVars
  <1>2. \A s \in CallStates : [calls EXCEPT ![c] = s] \in [Callers -> CallStates]
    BY DEF TypeOK
  <1>3. {"valid", "expired", "nothing", "failed"} \subseteq CallStates
    BY DEF CallStates
  <1>4. CASE ResumeWithToken(c)
    <2>1. memo.token \in Token
      BY <1>4, MemoFacts DEF ResumeWithToken, TypeOK
    <2>2. TMTypeOK'
      BY <1>4, <2>1, TokensType DEF ResumeWithToken, TypeOK
    <2>3. calls' \in [Callers -> CallStates]
      BY <1>2, <1>3, <1>4 DEF ResumeWithToken, Outcome
    <2>4. url' \in Location /\ redirectPath' \in Location \cup {NoPath}
          /\ hasRequestedToken' \in BOOLEAN
      BY <1>4, FinallyType DEF ResumeWithToken, TypeOK
    <2> QED
      BY <1>1, <1>4, <2>2, <2>3, <2>4 DEF ResumeWithToken, TypeOK
  <1>5. CASE ResumeWithTos(c)
    <2>1. TMTypeOK'
      BY <1>5 DEF ResumeWithTos, TypeOK, TMTypeOK, tmVars
    <2>2. calls' \in [Callers -> CallStates]
      BY <1>2, <1>3, <1>5 DEF ResumeWithTos
    <2>3. url' \in Location /\ redirectPath' \in Location \cup {NoPath}
          /\ hasRequestedToken' \in BOOLEAN
      BY <1>5, FinallyType DEF ResumeWithTos, TypeOK
    <2>4. nav' \in Nav /\ redirectInProgress' \in BOOLEAN
      BY <1>5, NavTypes DEF ResumeWithTos, GenerateTosUrl, HasStoredParameters, TypeOK
    <2> QED
      BY <1>1, <1>5, <2>1, <2>2, <2>3, <2>4 DEF ResumeWithTos, TypeOK
  <1>6. CASE ResumeWithLogin(c)
    <2>1. TMTypeOK'
      BY <1>6 DEF ResumeWithLogin, TypeOK, TMTypeOK, tmVars
    <2>2. calls' \in [Callers -> CallStates]
      BY <1>2, <1>3, <1>6 DEF ResumeWithLogin
    <2>3. Login \/ LoginThrows
      BY <1>6 DEF ResumeWithLogin
    <2>4. /\ redirectPath' \in Location \cup {NoPath} /\ lastLogin' \in LoginRecord
          /\ redirectInProgress' \in BOOLEAN
          /\ oauthParams' \in Verifiers \cup {NoVerifier} /\ nav' \in Nav
      BY <2>3, LoginType, NavTypes DEF TypeOK
    <2> QED
      BY <1>1, <1>6, <2>1, <2>2, <2>4 DEF ResumeWithLogin, TypeOK
  <1>7. CASE ResumeWithError(c)
    <2>1. TMTypeOK'
      BY <1>7, TokensType DEF ResumeWithError, Clear, TypeOK
    <2>2. calls' \in [Callers -> CallStates]
      BY <1>2, <1>3, <1>7 DEF ResumeWithError
    <2>3. url' \in Location /\ redirectPath' \in Location \cup {NoPath}
          /\ hasRequestedToken' \in BOOLEAN
      BY <1>7, FinallyType DEF ResumeWithError, TypeOK
    <2> QED
      BY <1>1, <1>7, <2>1, <2>2, <2>3 DEF ResumeWithError, TypeOK
  <1> QED
    BY <1>4, <1>5, <1>6, <1>7 DEF Resume

\* What the answer to the exchange leaves well typed.
LEMMA ExchangeType ==
    ASSUME TypeOK, ExchangeAnswered
    PROVE  TypeOK'
  <1>1. /\ UNCHANGED <<now, store, timer, requests, page, nav, url, redirectPath, lastLogin,
                       calls, hasRequestedToken, redirectInProgress, autoPending, issued,
                       presented>>
        /\ memo.state = "pending"
    BY DEF ExchangeAnswered, tmVars, browserVars, ExchangeSucceeds, ExchangeNeedsTos,
           ExchangeFails
  <1>2. oauthParams' \in Verifiers \cup {NoVerifier} /\ userState' \in UserStates
        /\ tosSigned' \in BOOLEAN
    BY DEF ExchangeAnswered, ExchangeSucceeds, ExchangeNeedsTos, ExchangeFails, EndAttempt,
           DeleteParameters, DeleteInvite, TypeOK, UserStates
  <1>3. memo' \in Memo
    <2>1. CASE ExchangeSucceeds
      <3>1. PICK e \in Lifetimes, age \in 0 .. (now - memo.sentAt) :
              memo' = [state |-> "fulfilled",
                       token |-> MintedToken(TenantOf[Self], TenantOf[Self], e, now, age)]
        BY <2>1 DEF ExchangeSucceeds
      <3>2. memo.sentAt \in Nat /\ now \in Nat
        BY <1>1, MemoFacts DEF TypeOK, TMTypeOK
      <3>3. MintedToken(TenantOf[Self], TenantOf[Self], e, now, age) \in Token
        BY <3>2, SelfFacts, MintedTokenType
      <3> QED
        BY <3>1, <3>3 DEF Memo
    <2>2. CASE ExchangeNeedsTos \/ ExchangeFails
      BY <2>2 DEF ExchangeNeedsTos, ExchangeFails, Memo, Errors
    <2> QED
      BY <2>1, <2>2 DEF ExchangeAnswered
  <1>4. TMTypeOK'
    BY <1>1 DEF TypeOK, TMTypeOK
  <1> QED
    BY <1>1, <1>2, <1>3, <1>4 DEF TypeOK

\* What landing on a location leaves well typed.
LEMMA LandType ==
    ASSUME TypeOK, TMTypeOK', NEW location \in Location, Land(location),
           issued' \in 0 .. MaxCodes, UNCHANGED <<presented, tosSigned>>
    PROVE  TypeOK'
  <1>1. calls' \in [Callers -> CallStates]
    BY DEF Land, NewClient, CallStates
  <1>2. memo' \in Memo /\ nav' \in Nav
    BY NavTypes DEF Land, NewClient, Memo
  <1> QED
    BY <1>1, <1>2, SelfFacts DEF Land, NewClient, sessionVars, TypeOK

\* Every step keeps everything well typed.
LEMMA TypeStep == TypeOK /\ [Next]_vars => TypeOK'
  <1> SUFFICES ASSUME TypeOK, [Next]_vars
               PROVE  TypeOK'
    OBVIOUS
  <1>1. CASE AutoCall
    BY <1>1, StartCallType, ClientAssumption DEF AutoCall
  <1>2. ASSUME NEW c \in Callers, AppCall(c)
        PROVE  TypeOK'
    <2>1. autoPending' \in BOOLEAN
      BY <1>2 DEF AppCall, TypeOK
    <2> QED
      BY <1>2, <2>1, StartCallType DEF AppCall
  <1>3. ASSUME NEW c \in Callers, Resume(c)
        PROVE  TypeOK'
    BY <1>3, ResumeType
  <1>4. CASE AppLogin
    <2>1. TMTypeOK'
      BY <1>4 DEF AppLogin, TypeOK, TMTypeOK, tmVars
    <2>2. Login \/ LoginThrows
      BY <1>4 DEF AppLogin
    <2>3. /\ redirectPath' \in Location \cup {NoPath} /\ lastLogin' \in LoginRecord
          /\ redirectInProgress' \in BOOLEAN
          /\ oauthParams' \in Verifiers \cup {NoVerifier} /\ nav' \in Nav
      BY <2>2, LoginType, NavTypes DEF TypeOK
    <2> QED
      BY <1>4, <2>1, <2>3 DEF AppLogin, TypeOK, hostVars
  <1>5. CASE AppLogout
    <2>1. TMTypeOK'
      BY <1>5, TokensType DEF AppLogout, Clear, TypeOK
    <2>2. nav' \in Nav /\ userState' \in UserStates
      BY <1>5, NavTypes DEF AppLogout, GenerateLogoutUrl, UserStates
    <2> QED
      BY <1>5, <2>1, <2>2 DEF AppLogout, TypeOK, hostVars
  <1>6. CASE AppClear
    <2>1. TMTypeOK'
      BY <1>6, TokensType DEF AppClear, Clear, TypeOK
    <2> QED
      BY <1>6, <2>1 DEF AppClear, TypeOK, browserVars, sessionVars, callVars, hostVars
  <1>7. CASE ExchangeAnswered
    BY <1>7, ExchangeType
  <1>8. CASE Leave
    <2>1. TMTypeOK'
      BY <1>8, ManagerType DEF Leave, TypeOK
    <2>2. calls' \in [Callers -> CallStates] /\ memo' \in Memo
      BY <1>8 DEF Leave, NewClient, CallStates, Memo
    <2> QED
      BY <1>8, <2>1, <2>2 DEF Leave, NewClient, TypeOK, sessionVars, hostVars
  <1>9. CASE ReturnWithCode
    <2>1. PICK user \in StateParameters, challenge \in {nav.challenge, NoVerifier} :
            Land([route |-> Home,
                  query |-> [kind |-> "code", user |-> user,
                             code |-> [challenge |-> challenge,
                                       id        |-> issued + 1,
                                       accept    |-> nav.to = "tos"]]])
      BY <1>9 DEF ReturnWithCode
    <2>2. challenge \in Challenge
      <3>1. nav \in Nav /\ nav.to \in {"authorize", "tos"}
        BY <1>9 DEF ReturnWithCode, TypeOK
      <3>2. nav.challenge \in Verifiers
        BY <3>1 DEF Nav, NoNav
      <3> QED
        BY <3>2 DEF Challenge
    <2>3. issued' = issued + 1 /\ issued' \in 1 .. MaxCodes
      BY <1>9, SelfFacts DEF ReturnWithCode, TypeOK
    <2>4. [route |-> Home,
           query |-> [kind |-> "code", user |-> user,
                      code |-> [challenge |-> challenge,
                                id        |-> issued + 1,
                                accept    |-> nav.to = "tos"]]] \in Location
      BY <2>2, <2>3, SelfFacts DEF Location, Query, Code
    <2>5. TMTypeOK' /\ UNCHANGED <<presented, tosSigned>>
      BY <1>9 DEF ReturnWithCode, tmVars, TypeOK, TMTypeOK
    <2> QED
      BY <2>1, <2>3, <2>4, <2>5, LandType
  <1>10. CASE ReturnWithToken
    <2>1. PICK e \in Lifetimes, challenge \in {nav.challenge, NoVerifier} :
            Land([route |-> Home,
                  query |-> [kind |-> "token", answers |-> challenge,
                             expiresIn |-> e, mintedAt |-> now]])
      BY <1>10 DEF ReturnWithToken
    <2>2. challenge \in Challenge
      <3>1. nav \in Nav /\ nav.to = "authorize"
        BY <1>10 DEF ReturnWithToken, TypeOK
      <3>2. nav.challenge \in Verifiers
        BY <3>1 DEF Nav, NoNav
      <3> QED
        BY <3>2 DEF Challenge
    <2>3. issued' \in 0 .. MaxCodes
      BY <1>10, SelfFacts DEF ReturnWithToken, TypeOK
    <2>4. [route |-> Home,
           query |-> [kind |-> "token", answers |-> challenge,
                      expiresIn |-> e, mintedAt |-> now]] \in Location
      BY <2>2, SelfFacts DEF Location, Query, TypeOK, TMTypeOK
    <2>5. TMTypeOK' /\ UNCHANGED <<presented, tosSigned>>
      BY <1>10 DEF ReturnWithToken, tmVars, TypeOK, TMTypeOK
    <2> QED
      BY <2>1, <2>3, <2>4, <2>5, LandType
  <1>11. CASE ReturnWithError
    <2>1. PICK error \in Errors \ {"token_not_found"} :
            Land([route |-> Home, query |-> [kind |-> "error", error |-> error]])
      BY <1>11 DEF ReturnWithError
    <2>2. [route |-> Home, query |-> [kind |-> "error", error |-> error]] \in Location
      BY SelfFacts DEF Location, Query
    <2>3. TMTypeOK' /\ UNCHANGED hostVars
      BY <1>11 DEF ReturnWithError, tmVars, TypeOK, TMTypeOK
    <2> QED
      BY <2>1, <2>2, <2>3, LandType DEF hostVars, TypeOK
  <1>12. CASE ReturnClean
    <2>1. PICK route \in Routes : Land([route |-> route, query |-> CleanQuery])
      BY <1>12 DEF ReturnClean
    <2>2. [route |-> route, query |-> CleanQuery] \in Location
      BY DEF Location, Query
    <2>3. TMTypeOK' /\ UNCHANGED hostVars
      BY <1>12 DEF ReturnClean, tmVars, TypeOK, TMTypeOK
    <2> QED
      BY <2>1, <2>2, <2>3, LandType DEF hostVars, TypeOK
  <1>13. CASE ReloadPage
    <2>1. Land(url) /\ TMTypeOK' /\ UNCHANGED hostVars
      BY <1>13, ManagerType DEF ReloadPage, TypeOK
    <2> QED
      BY <2>1, LandType DEF hostVars, TypeOK
  <1>14. CASE RenewalTask
    <2>1. TMTypeOK'
      BY <1>14, ManagerType DEF RenewalTask, TypeOK
    <2> QED
      BY <1>14, <2>1 DEF RenewalTask, TypeOK, browserVars, sessionVars, callVars, hostVars
  <1>15. CASE TimePasses
    <2>1. TMTypeOK'
      BY <1>15, ManagerType DEF TimePasses, TypeOK
    <2> QED
      BY <1>15, <2>1 DEF TimePasses, TypeOK, browserVars, sessionVars, callVars, hostVars
  <1>16. CASE UNCHANGED vars
    BY <1>16 DEF vars, TypeOK, TMTypeOK, tmVars, browserVars, sessionVars, callVars, hostVars
  <1> QED
    BY <1>1, <1>2, <1>3, <1>4, <1>5, <1>6, <1>7, <1>8, <1>9, <1>10, <1>11, <1>12, <1>13,
       <1>14, <1>15, <1>16 DEF Next

\* Everything is well typed initially.
LEMMA ClientTypeInit == Init => TypeOK
  <1> SUFFICES ASSUME Init PROVE TypeOK
    OBVIOUS
  <1>1. TMTypeOK
    BY DEF Init, TMInit, TMTypeOK, EmptyStore
  <1>2. url \in Location /\ lastLogin \in LoginRecord
    BY DEF Init, Location, Query, LoginRecord, Challenge
  <1>3. nav \in Nav /\ memo \in Memo /\ calls \in [Callers -> CallStates]
    BY NavTypes DEF Init, Memo, CallStates
  <1>4. issued \in 0 .. MaxCodes /\ presented \subseteq 1 .. MaxCodes
    BY SelfFacts DEF Init
  <1> QED
    BY <1>1, <1>2, <1>3, <1>4, SelfFacts DEF Init, TypeOK, UserStates

\* Type correctness of the tab, the client and the auth host: among others, a
\* location is only ever cleared or restored to one that exists, and the tab is
\* only sent to the terms with a challenge that is stored
\* (splunk-auth-client.ts:139-181, pkce-auth-manager.ts:335-362).
THEOREM ClientTypeCorrect == Spec => []TypeOK
  <1> QED
    BY ClientTypeInit, TypeStep, PTL DEF Spec

\* A location is not the absence of one.
LEMMA LocationNotNoPath == \A location \in Location : location # NoPath
  <1> SUFFICES ASSUME NEW location \in Location
               PROVE  location # NoPath
    OBVIOUS
  <1>1. DOMAIN location = {"route", "query"}
    BY DEF Location
  <1>2. DOMAIN NoPath = {"route"}
    BY DEF NoPath
  <1> QED
    BY <1>1, <1>2

-----------------------------------------------------------------------------
(***************************************************************************)
(* The invariant: where a login stands.                                    *)
(***************************************************************************)

\* The locations the tab holds: its own and the one to restore.
Held == {url, redirectPath} \ {NoPath}

\* Every answer that is held was issued by the auth host, in the client's flow, and
\* a path to restore is there only if the setting asks for it.
AnswerInv ==
    /\ \A location \in Held :
         /\ location.query.kind = "code" => location.query.code.id <= issued
         /\ location.query.kind = "token" => GrantType = "implicit"
    /\ \A id \in presented : id <= issued
    /\ redirectPath # NoPath => RestorePath

\* The stored verifier is that of the last login.  The answer in the location is
\* its own, or a stranger's, or one the last login() overlapped with.  The answer
\* to the stored verifier was not presented yet, and does not come back with the
\* path to restore.
StoredInv ==
    /\ oauthParams \in {NoVerifier, lastLogin.challenge}
    /\ ~StorageFails =>
         /\ redirectPath # NoPath /\ redirectPath.query.kind = "code" =>
              /\ lastLogin.overlaps
              /\ redirectPath.query.code.challenge \notin {oauthParams} \ {NoVerifier}
         /\ url.query.kind = "code" =>
              /\ \/ url.query.code.challenge \in {oauthParams, NoVerifier}
                 \/ oauthParams = NoVerifier
                 \/ lastLogin.overlaps
              /\ \/ url.query.code.id \notin presented
                 \/ url.query.code.challenge \notin {oauthParams} \ {NoVerifier}

\* The tab is on its way with the stored verifier, or has lost it to an exchange
\* that login() overlapped with.
NavInv ==
    /\ nav.to = "tos" => oauthParams = nav.challenge
    /\ nav.to = "authorize" =>
         \/ oauthParams = nav.challenge
         \/ lastLogin.overlaps /\ oauthParams = NoVerifier
    /\ page = "away" => memo = NoMemo
    /\ page = "app" =>
         /\ nav # NoNav => redirectInProgress
         /\ nav.to = "tos" => memo.state = "rejected"
         /\ nav.to = "authorize" /\ Redeeming => lastLogin.overlaps

\* While the exchange is in flight the verifier that was presented is still the
\* stored one, unless login() has replaced it.
PendingInv ==
    memo.state = "pending" =>
        /\ ~redirectInProgress => oauthParams = memo.verifier
        /\ ~StorageFails =>
             /\ memo.code.challenge \in {memo.verifier, NoVerifier} \/ lastLogin.overlaps
             /\ memo.verifier = memo.code.challenge => memo.firstUse
        /\ memo.sentAt <= now /\ now <= memo.sentAt + ResponseTime

\* Until a token is granted on this page there is none that a call could use, and
\* no renewal can bring one.
NoTokenInv ==
    /\ memo.state # "fulfilled" => timer[Self] = NoTimer /\ requests = {}
    /\ memo.state \in {"pending", "rejected"} => ~IsAuthenticated

\* The invariant without the paths.
LoginInv == AnswerInv /\ StoredInv /\ NavInv /\ PendingInv /\ NoTokenInv

\* The locations that are held are well typed.
LEMMA HeldFacts ==
    ASSUME TypeOK
    PROVE  /\ url \in Held
           /\ redirectPath # NoPath => redirectPath \in Held
           /\ \A location \in Held : location \in Location
  BY LocationNotNoPath DEF Held, TypeOK

\* A pending exchange has its page.
LEMMA PendingStays ==
    ASSUME TypeOK, LoginInv, memo.state = "pending"
    PROVE  page = "app"
  BY DEF LoginInv, NavInv, NoMemo, TypeOK

\* Finally takes any answer out of the location, or restores one that was stored.
LEMMA FinallyAnswers ==
    ASSUME TypeOK, NEW redirecting, Finally(redirecting)
    PROVE  \/ UNCHANGED <<hasRequestedToken, url, redirectPath>>
           \/ /\ ~hasRequestedToken /\ ~redirecting /\ hasRequestedToken'
              /\ redirectPath' \in {redirectPath, NoPath}
              /\ \/ url' = Cleared(url) /\ url'.query.kind \in {"clean", "error"}
                 \/ redirectPath # NoPath /\ url' = redirectPath
  <1>1. url \in Location
    BY DEF TypeOK
  <1> QED
    BY <1>1, ClearedLocation DEF Finally, RestorePathAfterLogin

\* Storing nothing but what was stored, the cache does not begin to serve.
LEMMA StillUnauthenticated ==
    ASSUME TypeOK, ~IsAuthenticated, now' \in {now, now + 1}, store' \in {store, EmptyStore}
    PROVE  ~IsAuthenticated'
  <1> DEFINE token == Lookup(ClientTenant)
  <1>1. Lookup(ClientTenant)' \in {token, NoToken}
    BY SelfFacts DEF Lookup, EmptyStore, Slots
  <1>2. token \in Token \cup {NoToken}
    BY SelfFacts DEF Lookup, Slots, TypeOK, TMTypeOK
  <1>3. token # NoToken => token.expiresAt \in Nat
    BY <1>2 DEF Token
  <1>4. now \in Nat /\ MaxClockSkew \in Nat
    BY SelfFacts DEF TypeOK, TMTypeOK
  <1>5. IsAuthenticated <=> token # NoToken /\ token.expiresAt + MaxClockSkew > now
    BY DEF IsAuthenticated
  <1>6. IsAuthenticated' <=> Lookup(ClientTenant)' # NoToken
                             /\ Lookup(ClientTenant)'.expiresAt + MaxClockSkew > now'
    BY DEF IsAuthenticated
  <1> HIDE DEF token
  <1> QED
    BY <1>1, <1>3, <1>4, <1>5, <1>6

\* Nothing but the locations changes, as Finally changes them while no redirect is
\* in progress: what is restored is no answer to the stored verifier.
LEMMA FinallyLogin ==
    ASSUME TypeOK, LoginInv, page = "app", memo.state # "pending",
           Finally(redirectInProgress),
           UNCHANGED <<page, nav, redirectInProgress, oauthParams, lastLogin, memo,
                       presented, issued>>
    PROVE  AnswerInv' /\ StoredInv' /\ NavInv' /\ PendingInv'
  <1>0. PendingInv'
    BY DEF PendingInv
  <1>1. CASE UNCHANGED <<hasRequestedToken, url, redirectPath>>
    <2>1. Redeeming' <=> Redeeming
      BY <1>1 DEF Redeeming, CarriesAnswer
    <2> QED
      BY <1>0, <1>1, <2>1 DEF LoginInv, AnswerInv, StoredInv, NavInv, Held
  <1>2. CASE /\ ~redirectInProgress
             /\ redirectPath' \in {redirectPath, NoPath}
             /\ \/ url' = Cleared(url) /\ url'.query.kind \in {"clean", "error"}
                \/ redirectPath # NoPath /\ url' = redirectPath
    <2>1. AnswerInv'
      <3>1. ASSUME NEW location \in Held'
            PROVE  location \in Held \/ location.query.kind \in {"clean", "error"}
        BY <1>2, <3>1, HeldFacts DEF Held
      <3> QED
        BY <1>2, <3>1 DEF LoginInv, AnswerInv
    <2>2. StoredInv'
      BY <1>2 DEF LoginInv, StoredInv
    <2>3. nav = NoNav /\ NoNav.to = "app"
      BY <1>2, NavTypes DEF LoginInv, NavInv
    <2>4. NavInv'
      BY <2>3 DEF LoginInv, NavInv
    <2> QED
      BY <1>0, <2>1, <2>2, <2>4
  <1> QED
    BY <1>1, <1>2, FinallyAnswers

\* The synchronous part of the exchange.
LEMMA RequestTokenLogin ==
    ASSUME TypeOK, LoginInv, RequestToken, ~IsAuthenticated, memo = NoMemo, page = "app",
           UNCHANGED <<now, store, timer, requests, page, nav, lastLogin, redirectInProgress,
                       redirectPath, issued>>
    PROVE  LoginInv'
  <1>0. /\ url \in Location /\ memo.state = "none" /\ timer[Self] = NoTimer /\ requests = {}
        /\ now \in Nat /\ ResponseTime \in Nat
    BY SelfFacts DEF NoMemo, LoginInv, NoTokenInv, TypeOK, TMTypeOK
  <1>1. ~IsAuthenticated'
    BY DEF IsAuthenticated, Lookup
  <1>2. NoTokenInv'
    BY <1>0, <1>1 DEF NoTokenInv
  <1>3. nav.to # "tos"
    BY <1>0 DEF LoginInv, NavInv
  <1>4. Redeeming <=> CarriesAnswer
    BY <1>0 DEF Redeeming
  <1>5. CASE NothingToRedeem
    <2>1. UNCHANGED <<url, presented, oauthParams>> /\ memo'.state = "rejected"
      BY <1>5 DEF NothingToRedeem, Rejected
    <2>2. AnswerInv' /\ StoredInv'
      BY <2>1 DEF LoginInv, AnswerInv, StoredInv, Held
    <2>3. Redeeming' <=> Redeeming
      BY <1>4, <2>1 DEF Redeeming, CarriesAnswer
    <2>4. NavInv' /\ PendingInv'
      BY <2>1, <2>3 DEF LoginInv, NavInv, PendingInv
    <2> QED
      BY <1>2, <2>2, <2>4 DEF LoginInv
  <1>6. CASE PresentCode
    <2>1. /\ url' = Cleared(url) /\ url'.query.kind \in {"clean", "error"}
          /\ url.query.kind = "code" /\ url.query.code.id \in 1 .. MaxCodes
          /\ oauthParams' = oauthParams /\ oauthParams # NoVerifier
          /\ presented' \subseteq presented \cup {url.query.code.id}
      BY <1>0, <1>6, ClearedLocation, QueryFacts DEF PresentCode, HasStoredParameters
    <2>2. CarriesAnswer
      BY <2>1 DEF CarriesAnswer
    <2>3. AnswerInv'
      <3>1. ASSUME NEW location \in Held'
            PROVE  location \in Held \/ location.query.kind \in {"clean", "error"}
        BY <2>1, <3>1 DEF Held
      <3>2. url.query.code.id <= issued
        BY <2>1, HeldFacts DEF LoginInv, AnswerInv
      <3> QED
        BY <2>1, <3>1, <3>2 DEF LoginInv, AnswerInv
    <2>4. StoredInv'
      BY <2>1 DEF LoginInv, StoredInv
    <2>5. NavInv'
      BY <1>3, <1>4, <2>1, <2>2 DEF LoginInv, NavInv
    <2>6. PendingInv'
      <3>1. CASE memo' = AccessTokenRequest
        <4>1. /\ memo'.code = url.query.code /\ memo'.verifier = oauthParams
              /\ memo'.sentAt = now
          BY <3>1 DEF AccessTokenRequest
        <4>2. ASSUME ~StorageFails
              PROVE  \/ url.query.code.challenge \in {oauthParams, NoVerifier}
                     \/ lastLogin.overlaps
          BY <2>1, <4>2 DEF LoginInv, StoredInv
        <4>3. ASSUME ~StorageFails, url.query.code.challenge = oauthParams
              PROVE  url.query.code.id \notin presented
          BY <2>1, <4>3 DEF LoginInv, StoredInv
        <4>4. memo'.firstUse = (url.query.code.id \notin presented)
          BY <3>1, Zenon DEF AccessTokenRequest
        <4>5. ASSUME ~StorageFails, url.query.code.challenge = oauthParams
              PROVE  memo'.firstUse
          BY <4>3, <4>4, <4>5, Zenon
        <4>6. now <= now + ResponseTime
          BY <1>0
        <4> QED
          BY <1>0, <2>1, <4>1, <4>2, <4>5, <4>6 DEF PendingInv
      <3>2. CASE memo' = Rejected("other")
        BY <3>2 DEF PendingInv, Rejected
      <3> QED
        BY <1>6, <3>1, <3>2 DEF PresentCode
    <2> QED
      BY <1>2, <2>3, <2>4, <2>5, <2>6 DEF LoginInv
  <1>7. CASE TakeToken
    <2>1. /\ url' = Cleared(url) /\ url'.query.kind \in {"clean", "error"}
          /\ url.query.kind = "token" /\ presented' = presented
          /\ memo'.state \in {"fulfilled", "rejected"}
          /\ oauthParams' \in {oauthParams, NoVerifier}
      BY <1>0, <1>7, ClearedLocation DEF TakeToken, Rejected, DeleteParameters
    <2>2. CarriesAnswer
      BY <2>1 DEF CarriesAnswer
    <2>3. AnswerInv'
      <3>1. ASSUME NEW location \in Held'
            PROVE  location \in Held \/ location.query.kind \in {"clean", "error"}
        BY <2>1, <3>1 DEF Held
      <3> QED
        BY <2>1, <3>1 DEF LoginInv, AnswerInv
    <2>4. StoredInv'
      BY <2>1 DEF LoginInv, StoredInv
    <2>5. NavInv' /\ PendingInv'
      BY <1>3, <1>4, <2>1, <2>2 DEF LoginInv, NavInv, PendingInv
    <2> QED
      BY <1>2, <2>3, <2>4, <2>5 DEF LoginInv
  <1> QED
    BY <1>5, <1>6, <1>7 DEF RequestToken

\* A call up to its await.
LEMMA StartCallLogin ==
    ASSUME TypeOK, LoginInv, NEW c \in Callers, StartCall(c)
    PROVE  LoginInv'
  <1>0. UNCHANGED <<now, store, timer, requests, page, nav, lastLogin, redirectInProgress, issued>>
        /\ page = "app"
    BY DEF StartCall, tmVars, OnPage
  <1>1. IsAuthenticated' <=> IsAuthenticated
    BY <1>0 DEF IsAuthenticated, Lookup
  <1>2. CASE IsAuthenticated
    <2>1. Finally(redirectInProgress) /\ UNCHANGED <<memo, presented, oauthParams>>
      BY <1>2 DEF StartCall
    <2>2. memo.state \notin {"pending", "rejected"}
      BY <1>2 DEF LoginInv, NoTokenInv
    <2>3. NoTokenInv'
      BY <1>0, <1>1, <2>1 DEF LoginInv, NoTokenInv
    <2> QED
      BY <1>0, <2>1, <2>2, <2>3, FinallyLogin DEF LoginInv
  <1>3. CASE ~IsAuthenticated /\ memo # NoMemo
    <2>1. UNCHANGED <<memo, url, presented, oauthParams, hasRequestedToken, redirectPath>>
      BY <1>3 DEF StartCall
    <2> QED
      BY <1>0, <1>1, <2>1 DEF LoginInv, AnswerInv, StoredInv, NavInv, PendingInv, NoTokenInv,
                              CarriesAnswer, Redeeming, Held
  <1>4. CASE ~IsAuthenticated /\ memo = NoMemo
    <2>1. RequestToken /\ UNCHANGED redirectPath
      BY <1>4 DEF StartCall
    <2> QED
      BY <1>0, <1>4, <2>1, RequestTokenLogin
  <1> QED
    BY <1>2, <1>3, <1>4

\* login(), from whatever page: the verifier it draws is that of no answer the tab
\* holds, and the record of the login says whether it overlaps with one.
LEMMA LoginLogin ==
    ASSUME TypeOK, LoginInv, Login \/ LoginThrows, page = "app",
           UNCHANGED <<now, store, timer, requests, page, url, memo, issued, presented>>
    PROVE  LoginInv'
  <1>1. redirectPath' \in {redirectPath, url} /\ redirectInProgress' = TRUE
    BY LoginType
  <1>2. AnswerInv'
    <2>1. Held' \subseteq Held
      BY <1>1, HeldFacts DEF Held
    <2>2. redirectPath' # NoPath => RestorePath
      BY DEF Login, LoginThrows, StorePathBeforeLogin, LoginInv, AnswerInv
    <2> QED
      BY <2>1, <2>2 DEF LoginInv, AnswerInv
  <1>3. NoTokenInv'
    <2>1. IsAuthenticated' <=> IsAuthenticated
      BY DEF IsAuthenticated, Lookup
    <2> QED
      BY <2>1 DEF LoginInv, NoTokenInv
  <1>4. Redeeming' <=> Redeeming
    BY DEF Redeeming, CarriesAnswer
  <1>5. CASE /\ oauthParams' \in Verifiers /\ oauthParams' \notin VerifiersInUse
             /\ nav' = AuthorizeUrl(oauthParams')
             /\ lastLogin' = [route |-> url.route, challenge |-> oauthParams',
                              overlaps |-> Redeeming]
    <2>1. /\ nav'.to = "authorize" /\ nav'.challenge = oauthParams'
          /\ lastLogin'.challenge = oauthParams'
          /\ lastLogin'.overlaps = Redeeming
      BY <1>5 DEF AuthorizeUrl
    <2>2. ASSUME url.query.kind = "code"
          PROVE  url.query.code.challenge # oauthParams' /\ lastLogin'.overlaps
      BY <1>5, <2>1, <2>2 DEF VerifiersInUse, AnsweredAt, Redeeming, CarriesAnswer
    <2>3. ASSUME ~StorageFails, redirectPath' # NoPath, redirectPath'.query.kind = "code"
          PROVE  redirectPath'.query.code.challenge # oauthParams' /\ lastLogin'.overlaps
      <3>1. redirectPath' = url
        BY <2>3 DEF Login, LoginThrows, StorePathBeforeLogin, LoginInv, AnswerInv
      <3> QED
        BY <2>2, <2>3, <3>1
    <2>4. StoredInv'
      BY <1>5, <2>1, <2>2, <2>3 DEF StoredInv
    <2>5. NavInv'
      BY <1>1, <1>4, <2>1 DEF LoginInv, NavInv
    <2>6. PendingInv'
      BY <1>1, <2>1 DEF LoginInv, PendingInv, Redeeming
    <2> QED
      BY <1>2, <1>3, <2>4, <2>5, <2>6 DEF LoginInv
  <1>6. CASE StorageFails /\ UNCHANGED <<oauthParams, nav, lastLogin>>
    <2>1. StoredInv'
      BY <1>6 DEF LoginInv, StoredInv
    <2>2. NavInv' /\ PendingInv'
      BY <1>1, <1>4, <1>6 DEF LoginInv, NavInv, PendingInv
    <2> QED
      BY <1>2, <1>3, <2>1, <2>2 DEF LoginInv
  <1> QED
    BY <1>5, <1>6, LoginType

\* The rest of a call.
LEMMA ResumeLogin ==
    ASSUME TypeOK, LoginInv, NEW c \in Callers, Resume(c)
    PROVE  LoginInv'
  <1>0. UNCHANGED <<memo, issued, presented>> /\ page = "app"
        /\ memo.state \in {"fulfilled", "rejected"}
    BY DEF Resume, hostVars, OnPage, ResumeWithToken, ResumeWithTos, ResumeWithLogin,
           ResumeWithError
  <1>1. CASE ResumeWithToken(c)
    <2>1. /\ UNCHANGED <<page, nav, redirectInProgress, oauthParams, lastLogin>>
          /\ Finally(redirectInProgress) /\ memo.state = "fulfilled"
      BY <1>1 DEF ResumeWithToken
    <2>2. NoTokenInv'
      BY <1>0, <2>1 DEF NoTokenInv
    <2> QED
      BY <1>0, <2>1, <2>2, FinallyLogin DEF LoginInv
  <1>2. CASE ResumeWithTos(c)
    <2>1. /\ UNCHANGED <<now, store, timer, requests, page, oauthParams, lastLogin>>
          /\ memo.state = "rejected" /\ Finally(redirectInProgress')
      BY <1>2 DEF ResumeWithTos, tmVars
    <2>2. NoTokenInv'
      <3>1. IsAuthenticated' <=> IsAuthenticated
        BY <2>1 DEF IsAuthenticated, Lookup
      <3> QED
        BY <1>0, <2>1, <3>1 DEF LoginInv, NoTokenInv
    <2>3. CASE GenerateTosUrl /\ redirectInProgress' = TRUE
      <3>1. nav'.to = "tos" /\ nav'.challenge = oauthParams
        BY <2>3 DEF GenerateTosUrl
      <3>2. UNCHANGED <<url, redirectPath>>
        BY <2>1, <2>3 DEF Finally
      <3>3. AnswerInv' /\ StoredInv'
        BY <1>0, <2>1, <3>2 DEF LoginInv, AnswerInv, StoredInv, Held
      <3>4. NavInv' /\ PendingInv'
        BY <1>0, <2>1, <2>3, <3>1 DEF LoginInv, NavInv, PendingInv
      <3> QED
        BY <2>2, <3>3, <3>4 DEF LoginInv
    <2>4. CASE UNCHANGED <<nav, redirectInProgress>>
      BY <1>0, <2>1, <2>2, <2>4, FinallyLogin DEF LoginInv
    <2> QED
      BY <1>2, <2>3, <2>4 DEF ResumeWithTos
  <1>3. CASE ResumeWithLogin(c)
    <2>1. /\ UNCHANGED <<now, store, timer, requests, page, url>>
          /\ Login \/ LoginThrows
      BY <1>3 DEF ResumeWithLogin, tmVars
    <2> QED
      BY <1>0, <2>1, LoginLogin
  <1>4. CASE ResumeWithError(c)
    <2>1. /\ UNCHANGED <<now, timer, requests, page, nav, redirectInProgress, oauthParams,
                         lastLogin>>
          /\ store' = EmptyStore /\ Finally(redirectInProgress)
      BY <1>4 DEF ResumeWithError, Clear
    <2>2. ~IsAuthenticated => ~IsAuthenticated'
      BY <2>1, StillUnauthenticated
    <2>3. NoTokenInv'
      BY <1>0, <2>1, <2>2 DEF LoginInv, NoTokenInv
    <2> QED
      BY <1>0, <2>1, <2>3, FinallyLogin DEF LoginInv
  <1> QED
    BY <1>1, <1>2, <1>3, <1>4 DEF Resume

\* The answer to the exchange: it ends the attempt the tab holds, also that of a
\* login() that was called in the meantime.
LEMMA ExchangeLogin ==
    ASSUME TypeOK, LoginInv, ExchangeAnswered
    PROVE  LoginInv'
  <1>1. /\ UNCHANGED <<now, store, timer, requests, page, nav, url, redirectPath, lastLogin,
                       redirectInProgress, issued, presented>>
        /\ memo.state = "pending" /\ memo'.state \in {"fulfilled", "rejected"}
        /\ oauthParams' \in {oauthParams, NoVerifier}
    BY DEF ExchangeAnswered, tmVars, browserVars, ExchangeSucceeds, ExchangeNeedsTos,
           ExchangeFails, EndAttempt, DeleteParameters
  <1>2. page = "app" /\ nav.to # "tos"
    BY <1>1, PendingStays DEF LoginInv, NavInv
  <1>3. AnswerInv' /\ StoredInv'
    BY <1>1 DEF LoginInv, AnswerInv, StoredInv, Held
  <1>4. NavInv'
    <2>1. nav.to = "authorize" => lastLogin.overlaps
      BY <1>1, <1>2 DEF LoginInv, NavInv, Redeeming
    <2> QED
      BY <1>1, <1>2, <2>1 DEF LoginInv, NavInv
  <1>5. PendingInv' /\ NoTokenInv'
    <2>1. IsAuthenticated' <=> IsAuthenticated
      BY <1>1 DEF IsAuthenticated, Lookup
    <2> QED
      BY <1>1, <2>1 DEF LoginInv, PendingInv, NoTokenInv
  <1> QED
    BY <1>3, <1>4, <1>5 DEF LoginInv

\* Landing on a location: one without a code, the one the page had, or one with a
\* new code, for the login the tab went away with or for a stranger's.
LEMMA LandLogin ==
    ASSUME TypeOK, LoginInv, NEW location \in Location, Land(location),
           timer'[Self] = NoTimer, requests' = {}, presented' = presented,
           issued' \in Nat, issued' >= issued,
           location.query.kind = "token" => GrantType = "implicit",
           \/ location.query.kind # "code"
           \/ location = url
           \/ /\ location.query.code.id = issued'
              /\ location.query.code.id \notin presented
              /\ location.query.code.challenge \in {oauthParams, NoVerifier}
                 \/ oauthParams = NoVerifier
    PROVE  LoginInv'
  <1>1. /\ page' = "app" /\ nav' = NoNav /\ NoNav.to = "app" /\ url' = location
        /\ memo' = NoMemo /\ NoMemo.state = "none"
        /\ UNCHANGED <<oauthParams, redirectPath, lastLogin>>
    BY NavTypes DEF Land, NewClient, sessionVars, NoMemo
  <1>2. AnswerInv'
    <2>1. issued \in Nat
      BY DEF TypeOK
    <2>2. \A id \in presented : id <= issued'
      <3>1. \A id \in presented : id \in Nat /\ id <= issued
        BY DEF LoginInv, AnswerInv, TypeOK
      <3> QED
        BY <2>1, <3>1
    <2>3. ASSUME NEW held \in Held, held.query.kind = "code"
          PROVE  held.query.code.id <= issued'
      <3>1. held.query.code.id \in Nat /\ held.query.code.id <= issued
        BY <2>3, HeldFacts, QueryFacts DEF LoginInv, AnswerInv
      <3> QED
        BY <2>1, <3>1
    <2>4. location.query.kind = "code" => location.query.code.id <= issued'
      BY <2>1, <2>3, HeldFacts
    <2>5. \A held \in Held' : held \in Held \/ held = location
      BY <1>1 DEF Held
    <2> QED
      BY <1>1, <2>2, <2>3, <2>4, <2>5 DEF LoginInv, AnswerInv
  <1>3. StoredInv'
    BY <1>1 DEF LoginInv, StoredInv
  <1>4. NavInv' /\ PendingInv' /\ NoTokenInv'
    BY <1>1 DEF NavInv, PendingInv, NoTokenInv
  <1> QED
    BY <1>2, <1>3, <1>4 DEF LoginInv

\* Nothing but the cache, and with it renewals once a token was granted, changes.
LEMMA SameLogin ==
    ASSUME LoginInv,
           UNCHANGED <<now, page, nav, url, oauthParams, redirectPath, lastLogin, memo,
                       redirectInProgress, issued, presented>>,
           \/ memo.state = "fulfilled"
           \/ UNCHANGED <<timer, requests>> /\ (~IsAuthenticated => ~IsAuthenticated')
    PROVE  LoginInv'
  <1>1. AnswerInv' /\ StoredInv'
    BY DEF LoginInv, AnswerInv, StoredInv, Held
  <1>2. NavInv' /\ PendingInv' /\ NoTokenInv'
    BY DEF LoginInv, NavInv, PendingInv, NoTokenInv, Redeeming, CarriesAnswer
  <1> QED
    BY <1>1, <1>2 DEF LoginInv

\* Where a login stands, after every step.
LEMMA LoginStep == TypeOK /\ LoginInv /\ [Next]_vars => LoginInv'
  <1> SUFFICES ASSUME TypeOK, LoginInv, [Next]_vars
               PROVE  LoginInv'
    OBVIOUS
  <1>1. CASE AutoCall
    BY <1>1, StartCallLogin, ClientAssumption DEF AutoCall
  <1>2. ASSUME NEW c \in Callers, AppCall(c)
        PROVE  LoginInv'
    BY <1>2, StartCallLogin DEF AppCall
  <1>3. ASSUME NEW c \in Callers, Resume(c)
        PROVE  LoginInv'
    BY <1>3, ResumeLogin
  <1>4. CASE AppLogin
    <2>1. /\ UNCHANGED <<now, store, timer, requests, page, url, memo, issued, presented>>
          /\ Login \/ LoginThrows
          /\ page = "app"
      BY <1>4 DEF AppLogin, tmVars, hostVars, OnPage
    <2> QED
      BY <2>1, LoginLogin
  <1>5. CASE AppLogout
    <2>1. /\ UNCHANGED <<now, timer, requests, page, url, oauthParams, redirectPath, lastLogin,
                         memo, issued, presented>>
          /\ store' = EmptyStore /\ nav'.to = "logout" /\ redirectInProgress' = TRUE
          /\ page = "app"
      BY <1>5 DEF AppLogout, Clear, GenerateLogoutUrl, hostVars, OnPage
    <2>2. ~IsAuthenticated => ~IsAuthenticated'
      BY <2>1, StillUnauthenticated
    <2>3. AnswerInv' /\ StoredInv'
      BY <2>1 DEF LoginInv, AnswerInv, StoredInv, Held
    <2>4. NavInv' /\ PendingInv' /\ NoTokenInv'
      BY <2>1, <2>2 DEF LoginInv, NavInv, PendingInv, NoTokenInv
    <2> QED
      BY <2>3, <2>4 DEF LoginInv
  <1>6. CASE AppClear
    <2>1. /\ UNCHANGED <<now, timer, requests, page, nav, url, oauthParams, redirectPath,
                         lastLogin, memo, redirectInProgress, issued, presented>>
          /\ store' = EmptyStore
      BY <1>6 DEF AppClear, Clear, browserVars, sessionVars, callVars, hostVars
    <2>2. ~IsAuthenticated => ~IsAuthenticated'
      BY <2>1, StillUnauthenticated
    <2> QED
      BY <2>1, <2>2, SameLogin
  <1>7. CASE ExchangeAnswered
    BY <1>7, ExchangeLogin
  <1>8. CASE Leave
    <2>1. /\ UNCHANGED <<nav, url, oauthParams, redirectPath, lastLogin, issued, presented>>
          /\ page' = "away" /\ memo' = NoMemo /\ NoMemo.state = "none"
          /\ timer'[Self] = NoTimer /\ requests' = {}
      BY <1>8, SelfFacts DEF Leave, NewClient, Reload, sessionVars, hostVars, NoMemo
    <2>2. AnswerInv' /\ StoredInv'
      BY <2>1 DEF LoginInv, AnswerInv, StoredInv, Held
    <2>3. NavInv' /\ PendingInv' /\ NoTokenInv'
      BY <2>1 DEF LoginInv, NavInv, PendingInv, NoTokenInv
    <2> QED
      BY <2>2, <2>3 DEF LoginInv
  <1>9. CASE ReturnWithCode
    <2>1. PICK user \in StateParameters, challenge \in {nav.challenge, NoVerifier} :
            Land([route |-> Home,
                  query |-> [kind |-> "code", user |-> user,
                             code |-> [challenge |-> challenge,
                                       id        |-> issued + 1,
                                       accept    |-> nav.to = "tos"]]])
      BY <1>9 DEF ReturnWithCode
    <2> DEFINE code == [challenge |-> challenge, id |-> issued + 1, accept |-> nav.to = "tos"]
               location == [route |-> Home,
                            query |-> [kind |-> "code", user |-> user, code |-> code]]
    <2>2. /\ issued' = issued + 1 /\ issued \in Nat
          /\ UNCHANGED <<now, store, timer, requests, presented>>
          /\ page = "away" /\ nav.to \in {"authorize", "tos"}
      BY <1>9 DEF ReturnWithCode, tmVars, TypeOK
    <2>3. location \in Location
      <3>1. nav.challenge \in Verifiers
        BY <2>2 DEF TypeOK, Nav, NoNav
      <3>2. issued + 1 \in 1 .. MaxCodes
        BY <1>9, SelfFacts DEF ReturnWithCode, TypeOK
      <3> QED
        BY <3>1, <3>2, SelfFacts DEF Location, Query, Code, Challenge
    <2>4. /\ oauthParams \in {nav.challenge, NoVerifier}
          /\ timer[Self] = NoTimer /\ requests = {}
      BY <2>2 DEF LoginInv, NavInv, NoTokenInv, NoMemo
    <2>5. issued + 1 \notin presented
      BY <2>2 DEF LoginInv, AnswerInv
    <2>6. /\ location.query.kind = "code" /\ location.query.code.id = issued + 1
          /\ location.query.code.challenge = challenge
      OBVIOUS
    <2>7. Land(location)
      BY <2>1
    <2> HIDE DEF location
    <2> QED
      BY <2>2, <2>3, <2>4, <2>5, <2>6, <2>7, LandLogin
  <1>10. CASE ReturnWithToken
    <2>1. PICK e \in Lifetimes, challenge \in {nav.challenge, NoVerifier} :
            Land([route |-> Home,
                  query |-> [kind |-> "token", answers |-> challenge,
                             expiresIn |-> e, mintedAt |-> now]])
      BY <1>10 DEF ReturnWithToken
    <2> DEFINE location == [route |-> Home,
                            query |-> [kind |-> "token", answers |-> challenge,
                                       expiresIn |-> e, mintedAt |-> now]]
    <2>2. /\ issued' = issued + 1 /\ issued \in Nat /\ GrantType = "implicit"
          /\ UNCHANGED <<now, store, timer, requests, presented>>
          /\ page = "away" /\ nav.to = "authorize"
      BY <1>10 DEF ReturnWithToken, tmVars, TypeOK
    <2>3. location \in Location
      <3>1. nav.challenge \in Verifiers
        BY <2>2 DEF TypeOK, Nav, NoNav
      <3> QED
        BY <3>1, SelfFacts DEF Location, Query, Challenge, TypeOK, TMTypeOK
    <2>4. timer[Self] = NoTimer /\ requests = {}
      BY <2>2 DEF LoginInv, NavInv, NoTokenInv, NoMemo
    <2>5. location.query.kind = "token"
      OBVIOUS
    <2>6. Land(location)
      BY <2>1
    <2> HIDE DEF location
    <2> QED
      BY <2>2, <2>3, <2>4, <2>5, <2>6, LandLogin
  <1>11. CASE ReturnWithError
    <2>1. PICK error \in Errors \ {"token_not_found"} :
            Land([route |-> Home, query |-> [kind |-> "error", error |-> error]])
      BY <1>11 DEF ReturnWithError
    <2> DEFINE location == [route |-> Home, query |-> [kind |-> "error", error |-> error]]
    <2>2. /\ UNCHANGED <<now, store, timer, requests, presented, issued>> /\ issued \in Nat
          /\ page = "away"
      BY <1>11 DEF ReturnWithError, tmVars, hostVars, TypeOK
    <2>3. location \in Location /\ location.query.kind = "error" /\ Land(location)
      BY <2>1, SelfFacts DEF Location, Query
    <2>4. timer[Self] = NoTimer /\ requests = {}
      BY <2>2 DEF LoginInv, NavInv, NoTokenInv, NoMemo
    <2> HIDE DEF location
    <2> QED
      BY <2>2, <2>3, <2>4, LandLogin
  <1>12. CASE ReturnClean
    <2>1. PICK route \in Routes : Land([route |-> route, query |-> CleanQuery])
      BY <1>12 DEF ReturnClean
    <2> DEFINE location == [route |-> route, query |-> CleanQuery]
    <2>2. /\ UNCHANGED <<now, store, timer, requests, presented, issued>> /\ issued \in Nat
          /\ page = "away"
      BY <1>12 DEF ReturnClean, tmVars, hostVars, TypeOK
    <2>3. location \in Location /\ location.query.kind = "clean" /\ Land(location)
      BY <2>1 DEF Location, Query, CleanQuery
    <2>4. timer[Self] = NoTimer /\ requests = {}
      BY <2>2 DEF LoginInv, NavInv, NoTokenInv, NoMemo
    <2> HIDE DEF location
    <2> QED
      BY <2>2, <2>3, <2>4, LandLogin
  <1>13. CASE ReloadPage
    <2>1. /\ Land(url) /\ url \in Location /\ UNCHANGED <<presented, issued>> /\ issued \in Nat
          /\ timer'[Self] = NoTimer /\ requests' = {}
      BY <1>13, SelfFacts DEF ReloadPage, Reload, hostVars, TypeOK
    <2> QED
      BY <2>1, HeldFacts, LandLogin DEF LoginInv, AnswerInv
  <1>14. CASE RenewalTask
    <2>1. /\ UNCHANGED <<page, nav, url, oauthParams, redirectPath, lastLogin, memo,
                         redirectInProgress, issued, presented>>
          /\ now' = now
      BY <1>14 DEF RenewalTask, browserVars, sessionVars, callVars, hostVars, TimerFires,
                   RefreshSucceeds, RefreshFails
    <2>2. memo.state = "fulfilled"
      BY <1>14 DEF RenewalTask, TimerFires, LoginInv, NoTokenInv
    <2> QED
      BY <2>1, <2>2, SameLogin
  <1>15. CASE TimePasses
    <2>1. /\ UNCHANGED <<page, nav, url, oauthParams, redirectPath, lastLogin, memo,
                         redirectInProgress, issued, presented, store, timer, requests>>
          /\ now' = now + 1
          /\ memo.state = "pending" => now < memo.sentAt + ResponseTime
      BY <1>15 DEF TimePasses, Tick, browserVars, sessionVars, callVars, hostVars
    <2>2. ~IsAuthenticated => ~IsAuthenticated'
      BY <2>1, StillUnauthenticated
    <2>3. PendingInv'
      <3>1. now \in Nat /\ ResponseTime \in Nat /\ (memo.state = "pending" => memo.sentAt \in Nat)
        BY MemoFacts, SelfFacts DEF TypeOK, TMTypeOK
      <3> QED
        BY <2>1, <3>1 DEF LoginInv, PendingInv
    <2>4. AnswerInv' /\ StoredInv'
      BY <2>1 DEF LoginInv, AnswerInv, StoredInv, Held
    <2>5. NavInv' /\ NoTokenInv'
      BY <2>1, <2>2 DEF LoginInv, NavInv, NoTokenInv, Redeeming, CarriesAnswer
    <2> QED
      BY <2>3, <2>4, <2>5 DEF LoginInv
  <1>16. CASE UNCHANGED vars
    <2>1. UNCHANGED <<page, nav, url, oauthParams, redirectPath, lastLogin, memo,
                      redirectInProgress, issued, presented, now, store, timer, requests>>
      BY <1>16 DEF vars, tmVars, browserVars, sessionVars, callVars, hostVars
    <2>2. IsAuthenticated' <=> IsAuthenticated
      BY <2>1 DEF IsAuthenticated, Lookup
    <2> QED
      BY <2>1, <2>2, SameLogin
  <1> QED
    BY <1>1, <1>2, <1>3, <1>4, <1>5, <1>6, <1>7, <1>8, <1>9, <1>10, <1>11, <1>12, <1>13,
       <1>14, <1>15, <1>16 DEF Next

\* Where a login stands, initially.
LEMMA LoginInit == Init => LoginInv
  <1> SUFFICES ASSUME Init PROVE LoginInv
    OBVIOUS
  <1>1. /\ url.query.kind = "clean" /\ redirectPath = NoPath /\ presented = {}
        /\ memo.state = "none" /\ nav = NoNav /\ NoNav.to = "app" /\ page = "app"
        /\ oauthParams = NoVerifier
        /\ timer[Self] = NoTimer /\ requests = {}
    BY SelfFacts DEF Init, TMInit, CleanQuery, NoMemo, NoNav
  <1>2. AnswerInv /\ StoredInv
    BY <1>1 DEF AnswerInv, StoredInv, Held
  <1>3. NavInv /\ PendingInv /\ NoTokenInv
    BY <1>1 DEF NavInv, PendingInv, NoTokenInv
  <1> QED
    BY <1>2, <1>3 DEF LoginInv

\* Logins stand as the invariant says in every reachable state.
THEOREM LoginInvariant == Spec => [](TypeOK /\ LoginInv)
  <1>1. Init => TypeOK /\ LoginInv
    BY ClientTypeInit, LoginInit
  <1>2. (TypeOK /\ LoginInv) /\ [Next]_vars => (TypeOK /\ LoginInv)'
    BY TypeStep, LoginStep
  <1> QED
    BY <1>1, <1>2, PTL DEF Spec

-----------------------------------------------------------------------------
(***************************************************************************)
(* What follows for verifiers, codes and redirects.                        *)
(***************************************************************************)

\* A tab that goes to the auth host has stored the verifier of its challenge, and
\* the exchange presents it with a code it belongs to, through any interleaving of
\* calls, logins, detours and reloads.  A login() that overlaps with the answer to
\* another one can lose its verifier, but gets no other
\* (pkce-auth-manager.ts:196, 236-247, 302-307, 335-361).
THEOREM VerifierMatches == Spec => []VerifierMatchesChallenge
  <1>1. LoginInv => VerifierMatchesChallenge
    BY DEF LoginInv, NavInv, PendingInv, VerifierMatchesChallenge
  <1> QED
    BY <1>1, LoginInvariant, PTL

\* As long as the storage takes what is written, no code is presented again with
\* the verifier it can be redeemed with, by whatever number of calls, logins and
\* page loads, and whatever locations are restored
\* (splunk-auth-client.ts:266, 272-294, pkce-auth-manager.ts:198).
THEOREM PresentedOnce == ~StorageFails => (Spec => []CodePresentedOnce)
  <1> SUFFICES ASSUME ~StorageFails
               PROVE  Spec => []CodePresentedOnce
    OBVIOUS
  <1>1. LoginInv => CodePresentedOnce
    BY DEF LoginInv, PendingInv, CodePresentedOnce
  <1> QED
    BY <1>1, LoginInvariant, PTL

\* A call is resumed when the exchange is over, so none goes to login or to the
\* terms while it is in flight (splunk-auth-client.ts:145, 158-165, 266).
THEOREM NoLoginMeanwhile == Spec => NoLoginDuringExchange
  <1>1. [Next]_vars
          => [memo.state = "pending" /\ nav' \notin {nav, NoNav} => AppLogin \/ AppLogout]_vars
    <2> SUFFICES ASSUME [Next]_vars, memo.state = "pending", nav' \notin {nav, NoNav}
                 PROVE  AppLogin \/ AppLogout
      OBVIOUS
    <2>1. CASE AutoCall \/ (\E c \in Callers : AppCall(c)) \/ AppClear \/ ExchangeAnswered
               \/ Leave \/ RenewalTask \/ TimePasses \/ UNCHANGED vars
      BY <2>1 DEF AutoCall, AppCall, StartCall, AppClear, ExchangeAnswered, Leave, RenewalTask,
                  TimePasses, vars, browserVars
    <2>2. CASE \E c \in Callers : Resume(c)
      BY <2>2 DEF Resume, ResumeWithToken, ResumeWithTos, ResumeWithLogin, ResumeWithError
    <2>3. CASE ReturnWithCode \/ ReturnWithToken \/ ReturnWithError \/ ReturnClean
               \/ ReloadPage
      BY <2>3 DEF ReturnWithCode, ReturnWithToken, ReturnWithError, ReturnClean, ReloadPage,
                  Land
    <2> QED
      BY <2>1, <2>2, <2>3 DEF Next
  <1> QED
    BY <1>1, PTL DEF Spec, NoLoginDuringExchange

\* A step that grants a token to the exchange redeems a code or takes a token.
LEMMA GrantingStep ==
    ASSUME TypeOK, LoginInv, [Next]_vars, memo.state # "fulfilled", memo'.state = "fulfilled"
    PROVE  \/ memo.state = "pending" /\ ExchangeSucceeds /\ now' = now
           \/ /\ memo = NoMemo /\ TakeToken /\ now' = now
              /\ url.query.answers = oauthParams
  <1>1. CASE ExchangeAnswered
    <2>1. ~ExchangeNeedsTos /\ ~ExchangeFails
      BY DEF ExchangeNeedsTos, ExchangeFails
    <2>2. ExchangeSucceeds /\ now' = now
      BY <1>1, <2>1 DEF ExchangeAnswered, tmVars
    <2> QED
      BY <2>2 DEF ExchangeSucceeds
  <1>2. ASSUME NEW c \in Callers, StartCall(c)
        PROVE  /\ memo = NoMemo /\ TakeToken /\ now' = now
               /\ url.query.answers = oauthParams
    <2>1. memo' # memo
      OBVIOUS
    <2>2. memo = NoMemo /\ RequestToken
      BY <1>2, <2>1 DEF StartCall
    <2>3. ~NothingToRedeem /\ ~PresentCode
      BY DEF NothingToRedeem, PresentCode, Rejected, AccessTokenRequest
    <2>4. TakeToken
      BY <2>2, <2>3 DEF RequestToken
    <2>5. url.query.answers = oauthParams
      BY <2>4 DEF TakeToken, Rejected
    <2>6. now' = now
      BY <1>2 DEF StartCall, tmVars
    <2> QED
      BY <2>2, <2>4, <2>5, <2>6
  <1>3. CASE AutoCall \/ \E c \in Callers : AppCall(c)
    BY <1>2, <1>3, ClientAssumption DEF AutoCall, AppCall
  <1>4. CASE (\E c \in Callers : Resume(c)) \/ AppLogin \/ AppLogout \/ AppClear
             \/ RenewalTask \/ TimePasses \/ UNCHANGED vars
    BY <1>4 DEF Resume, AppLogin, AppLogout, AppClear, RenewalTask, TimePasses, vars, callVars
  <1>5. CASE Leave \/ ReturnWithCode \/ ReturnWithToken \/ ReturnWithError \/ ReturnClean
             \/ ReloadPage
    <2>1. memo' = NoMemo
      BY <1>5 DEF Leave, ReturnWithCode, ReturnWithToken, ReturnWithError, ReturnClean,
                  ReloadPage, Land, NewClient
    <2> QED
      BY <2>1 DEF NoMemo
  <1> QED
    BY <1>1, <1>3, <1>4, <1>5 DEF Next

\* Whatever the auth host or another tab sends, and whatever answers are held back
\* and restored, a sign-in answers the login the tab was last sent to, unless the
\* page is on its way to the next (implicit-auth-manager.ts:135-137,
\* pkce-auth-manager.ts:220-227, 302-307).
THEOREM AnswersLogin == Spec => SignInAnswersLogin
  <1>1. TypeOK /\ LoginInv /\ [Next]_vars
          => [memo.state # "fulfilled" /\ memo'.state = "fulfilled" /\ ~redirectInProgress
                => lastLogin.challenge = IF memo.state = "pending" THEN memo.code.challenge
                                         ELSE url.query.answers]_vars
    <2> SUFFICES ASSUME TypeOK, LoginInv, [Next]_vars, ~redirectInProgress,
                        memo.state # "fulfilled", memo'.state = "fulfilled"
                 PROVE  lastLogin.challenge = IF memo.state = "pending" THEN memo.code.challenge
                                              ELSE url.query.answers
      OBVIOUS
    <2>1. CASE memo.state = "pending" /\ ExchangeSucceeds
      <3>1. memo.verifier = memo.code.challenge /\ memo.verifier \in Verifiers
        BY <2>1, MemoFacts DEF ExchangeSucceeds, Redeemable, TypeOK
      <3>2. oauthParams = memo.verifier
        BY <2>1 DEF LoginInv, PendingInv
      <3>3. oauthParams \in {NoVerifier, lastLogin.challenge}
        BY DEF LoginInv, StoredInv
      <3> QED
        BY <2>1, <3>1, <3>2, <3>3, SelfFacts
    <2>2. CASE memo = NoMemo /\ TakeToken /\ url.query.answers = oauthParams
      <3>1. memo.state # "pending"
        BY <2>2 DEF NoMemo
      <3>2. oauthParams # NoVerifier
        BY <2>2 DEF TakeToken, HasStoredParameters
      <3> QED
        BY <2>2, <3>1, <3>2 DEF LoginInv, StoredInv
    <2> QED
      BY <2>1, <2>2, GrantingStep
  <1> QED
    BY <1>1, LoginInvariant, PTL DEF Spec, SignInAnswersLogin

\* The flag is up exactly while a navigation is pending, unless the storage is
\* full (splunk-auth-client.ts:174-180, 219, 229, 251).
THEOREM FlagRaised == Spec => []FlagMeansRedirect
  <1>1. Init => FlagMeansRedirect
    BY DEF Init, FlagMeansRedirect
  <1>2. TypeOK /\ FlagMeansRedirect /\ [Next]_vars => FlagMeansRedirect'
    <2> SUFFICES ASSUME TypeOK, FlagMeansRedirect, [Next]_vars, ~StorageFails
                 PROVE  redirectInProgress' <=> (page' = "app" /\ nav' # NoNav)
      BY DEF FlagMeansRedirect, OnPage
    <2>1. redirectInProgress <=> (page = "app" /\ nav # NoNav)
      BY DEF FlagMeansRedirect, OnPage
    <2>2. ASSUME Login \/ LoginThrows, page = "app", page' = page
          PROVE  redirectInProgress' <=> (page' = "app" /\ nav' # NoNav)
      <3>1. redirectInProgress' = TRUE /\ nav' = AuthorizeUrl(oauthParams')
        BY <2>2, LoginType
      <3>2. nav'.to = "authorize" /\ NoNav.to = "app"
        BY <3>1 DEF AuthorizeUrl, NoNav
      <3>3. nav' # NoNav
        BY <3>2
      <3> QED
        BY <2>2, <3>1, <3>3
    <2>3. CASE AppLogin
      BY <2>2, <2>3 DEF AppLogin, OnPage
    <2>4. ASSUME NEW c \in Callers, Resume(c)
          PROVE  redirectInProgress' <=> (page' = "app" /\ nav' # NoNav)
      <3>1. CASE ResumeWithLogin(c)
        BY <2>2, <2>4, <3>1 DEF Resume, ResumeWithLogin, OnPage
      <3>2. CASE ResumeWithTos(c)
        BY <2>1, <2>4, <3>2 DEF Resume, ResumeWithTos, GenerateTosUrl, OnPage, NoNav
      <3>3. CASE ResumeWithToken(c) \/ ResumeWithError(c)
        BY <2>1, <3>3 DEF ResumeWithToken, ResumeWithError
      <3> QED
        BY <2>4, <3>1, <3>2, <3>3 DEF Resume
    <2>5. CASE AppLogout
      BY <2>5 DEF AppLogout, GenerateLogoutUrl, OnPage, NoNav
    <2>6. CASE Leave
      BY <2>6 DEF Leave, NewClient
    <2>7. CASE ReturnWithCode \/ ReturnWithToken \/ ReturnWithError \/ ReturnClean
               \/ ReloadPage
      BY <2>7 DEF ReturnWithCode, ReturnWithToken, ReturnWithError, ReturnClean,
                  ReloadPage, Land, NewClient
    <2>8. CASE AutoCall \/ (\E c \in Callers : AppCall(c)) \/ AppClear \/ ExchangeAnswered
               \/ RenewalTask \/ TimePasses \/ UNCHANGED vars
      BY <2>1, <2>8 DEF AutoCall, AppCall, StartCall, AppClear, ExchangeAnswered, RenewalTask,
                        TimePasses, vars, browserVars, callVars
    <2> QED
      BY <2>3, <2>4, <2>5, <2>6, <2>7, <2>8 DEF Next
  <1> QED
    BY <1>1, <1>2, ClientTypeCorrect, PTL DEF Spec

-----------------------------------------------------------------------------
(***************************************************************************)
(* The client uses the token manager as TokenManager assumes.              *)
(***************************************************************************)

\* The token was received on this page and minted earlier: with PKCE no earlier
\* than an answer takes.
Granted(token) ==
    \E e \in Lifetimes, received \in 0 .. now :
        \E age \in 0 .. received :
            /\ GrantType = "pkce" => age <= ResponseTime
            /\ token = MintedToken(TenantOf[Self], TenantOf[Self], e, received, age)

\* The token of the exchange is such a token; those that the implicit flow brought
\* to the locations the tab holds have been minted.
GrantedInv ==
    /\ memo.state = "fulfilled" => Granted(memo.token)
    /\ \A location \in Held :
         location.query.kind = "token" => location.query.mintedAt <= now

\* The clock never goes back, and an exchange that was granted a token keeps it
\* as long as the page lasts.
LEMMA GrantedStays ==
    ASSUME TypeOK, [Next]_vars
    PROVE  /\ now' \in Nat /\ now <= now'
           /\ memo.state = "fulfilled" => memo' \in {memo, NoMemo}
  <1>1. now \in Nat
    BY DEF TypeOK, TMTypeOK
  <1>2. CASE TimePasses
    BY <1>1, <1>2 DEF TimePasses, Tick, callVars
  <1>3. CASE AutoCall \/ \E c \in Callers : AppCall(c)
    <2>1. PICK c \in Callers : StartCall(c)
      BY <1>3, ClientAssumption DEF AutoCall, AppCall
    <2>2. now' = now
      BY <2>1 DEF StartCall, tmVars
    <2>3. memo # NoMemo => memo' = memo
      BY <2>1 DEF StartCall
    <2> QED
      BY <1>1, <2>2, <2>3 DEF NoMemo
  <1>4. ASSUME NEW c \in Callers, Resume(c)
        PROVE  now' = now /\ memo' = memo
    BY <1>4 DEF Resume, ResumeWithToken, ResumeWithTos, ResumeWithLogin, ResumeWithError,
                Clear, tmVars
  <1>5. CASE AppLogin \/ AppLogout \/ AppClear \/ RenewalTask \/ UNCHANGED vars
    <2>1. now' = now /\ memo' = memo
      BY <1>5 DEF AppLogin, AppLogout, AppClear, RenewalTask, Clear, TimerFires,
                  RefreshSucceeds, RefreshFails, vars, callVars, tmVars
    <2> QED
      BY <1>1, <2>1
  <1>6. CASE ExchangeAnswered
    <2>1. now' = now /\ memo.state = "pending"
      BY <1>6 DEF ExchangeAnswered, ExchangeSucceeds, ExchangeNeedsTos, ExchangeFails, tmVars
    <2> QED
      BY <1>1, <2>1
  <1>7. CASE Leave \/ ReturnWithCode \/ ReturnWithToken \/ ReturnWithError \/ ReturnClean
             \/ ReloadPage
    <2>1. now' = now /\ memo' = NoMemo
      BY <1>7 DEF Leave, ReturnWithCode, ReturnWithToken, ReturnWithError, ReturnClean,
                  ReloadPage, Land, NewClient, Reload, tmVars
    <2> QED
      BY <1>1, <2>1
  <1> QED
    BY <1>1, <1>2, <1>3, <1>4, <1>5, <1>6, <1>7 DEF Next

\* The locations the tab holds were held before, carry no answer, or are the one it
\* lands on.
LEMMA HeldStep ==
    ASSUME TypeOK, [Next]_vars, NEW location \in Held'
    PROVE  \/ location \in Held
           \/ location.query.kind \in {"clean", "error"}
           \/ location = url' /\ (ReturnWithCode \/ ReturnWithToken)
  <1>0. url \in Location /\ location \in {url', redirectPath'} /\ location # NoPath
        /\ (location = url \/ location = redirectPath => location \in Held)
    BY HeldFacts DEF TypeOK, Held
  <1>1. ASSUME NEW redirecting, Finally(redirecting)
        PROVE  location \in Held \/ location.query.kind \in {"clean", "error"}
    BY <1>0, <1>1, FinallyAnswers
  <1>2. ASSUME NEW c \in Callers, StartCall(c)
        PROVE  location \in Held \/ location.query.kind \in {"clean", "error"}
    <2>1. CASE IsAuthenticated
      BY <1>1, <1>2, <2>1 DEF StartCall
    <2>2. CASE ~IsAuthenticated
      <3>1. redirectPath' = redirectPath /\ (UNCHANGED url \/ RequestToken)
        BY <1>2, <2>2 DEF StartCall
      <3>2. url' = url \/ url' = Cleared(url)
        BY <3>1 DEF RequestToken, NothingToRedeem, PresentCode, TakeToken
      <3> QED
        BY <1>0, <3>1, <3>2, ClearedLocation
    <2> QED
      BY <2>1, <2>2
  <1>3. CASE AutoCall \/ \E c \in Callers : AppCall(c)
    BY <1>2, <1>3, ClientAssumption DEF AutoCall, AppCall
  <1>4. ASSUME NEW c \in Callers, Resume(c)
        PROVE  location \in Held \/ location.query.kind \in {"clean", "error"}
    <2>1. CASE ResumeWithLogin(c)
      <3>1. url' = url /\ (Login \/ LoginThrows)
        BY <2>1 DEF ResumeWithLogin
      <3> QED
        BY <1>0, <3>1, LoginType
    <2>2. CASE ~ResumeWithLogin(c)
      <3>1. Finally(redirectInProgress) \/ Finally(redirectInProgress')
        BY <1>4, <2>2 DEF Resume, ResumeWithToken, ResumeWithTos, ResumeWithError
      <3> QED
        BY <1>1, <3>1
    <2> QED
      BY <2>1, <2>2
  <1>5. CASE AppLogin
    <2>1. url' = url /\ (Login \/ LoginThrows)
      BY <1>5 DEF AppLogin
    <2> QED
      BY <1>0, <2>1, LoginType
  <1>6. CASE AppLogout \/ AppClear \/ ExchangeAnswered \/ Leave \/ RenewalTask
             \/ TimePasses \/ UNCHANGED vars
    <2>1. UNCHANGED <<url, redirectPath>>
      BY <1>6 DEF AppLogout, AppClear, ExchangeAnswered, Leave, RenewalTask, TimePasses, vars,
                  browserVars, sessionVars
    <2> QED
      BY <1>0, <2>1
  <1>7. CASE ReturnWithCode \/ ReturnWithToken
    <2>1. redirectPath' = redirectPath
      BY <1>7 DEF ReturnWithCode, ReturnWithToken, Land, sessionVars
    <2> QED
      BY <1>0, <1>7, <2>1
  <1>8. CASE ReturnWithError \/ ReturnClean
    <2>1. redirectPath' = redirectPath /\ url'.query.kind \in {"clean", "error"}
      BY <1>8 DEF ReturnWithError, ReturnClean, Land, sessionVars, CleanQuery
    <2> QED
      BY <1>0, <2>1
  <1>9. CASE ReloadPage
    <2>1. UNCHANGED <<url, redirectPath>>
      BY <1>9 DEF ReloadPage, Land, sessionVars
    <2> QED
      BY <1>0, <2>1
  <1> QED
    BY <1>3, <1>4, <1>5, <1>6, <1>7, <1>8, <1>9 DEF Next

\* Tokens have been granted as GrantedInv says, after every step.
LEMMA GrantedStep ==
    ASSUME TypeOK, LoginInv, GrantedInv, [Next]_vars
    PROVE  GrantedInv'
  <1>1. now \in Nat /\ now' \in Nat /\ now <= now'
    BY GrantedStays DEF TypeOK, TMTypeOK
  <1>2. ASSUME NEW location \in Held', location.query.kind = "token"
        PROVE  location.query.mintedAt <= now'
    <2>1. CASE location \in Held
      <3>1. location.query.mintedAt \in Nat /\ location.query.mintedAt <= now
        BY <1>2, <2>1, HeldFacts, QueryFacts DEF GrantedInv
      <3> QED
        BY <1>1, <3>1
    <2>2. CASE location = url' /\ (ReturnWithCode \/ ReturnWithToken)
      <3>1. ~ReturnWithCode
        BY <1>2, <2>2 DEF ReturnWithCode, Land
      <3>2. url'.query.mintedAt = now /\ now' = now
        BY <2>2, <3>1 DEF ReturnWithToken, Land, tmVars
      <3> QED
        BY <1>1, <2>2, <3>2
    <2> QED
      BY <1>2, <2>1, <2>2, HeldStep
  <1>3. ASSUME memo'.state = "fulfilled"
        PROVE  Granted(memo.token)'
    <2>1. CASE memo.state = "fulfilled"
      <3>1. memo' = memo
        BY <1>3, <2>1, GrantedStays DEF NoMemo
      <3>2. Granted(memo.token)
        BY <2>1 DEF GrantedInv
      <3> QED
        BY <1>1, <3>1, <3>2 DEF Granted
    <2>2. CASE memo.state = "pending" /\ ExchangeSucceeds /\ now' = now
      <3>1. PICK e \in Lifetimes, age \in 0 .. (now - memo.sentAt) :
              memo' = [state |-> "fulfilled",
                       token |-> MintedToken(TenantOf[Self], TenantOf[Self], e, now, age)]
        BY <2>2 DEF ExchangeSucceeds
      <3>2. memo.sentAt \in Nat /\ memo.sentAt <= now /\ now <= memo.sentAt + ResponseTime
            /\ ResponseTime \in Nat
        BY <2>2, MemoFacts, SelfFacts DEF TypeOK, LoginInv, PendingInv
      <3>3. age \in 0 .. now /\ age <= ResponseTime /\ now \in 0 .. now
        BY <1>1, <3>2
      <3>4. memo'.token = MintedToken(TenantOf[Self], TenantOf[Self], e, now, age)
        BY <3>1
      <3> QED
        BY <2>2, <3>3, <3>4 DEF Granted
    <2>3. CASE memo = NoMemo /\ TakeToken /\ url.query.answers = oauthParams /\ now' = now
      <3>1. memo'.token = TokenInLocation /\ url.query.kind = "token"
        BY <2>3 DEF TakeToken
      <3>2. /\ url.query.expiresIn \in Lifetimes
            /\ url.query.mintedAt \in Nat /\ url.query.mintedAt <= now
            /\ GrantType = "implicit"
        BY <3>1, HeldFacts, QueryFacts DEF TypeOK, GrantedInv, LoginInv, AnswerInv
      <3>3. now - url.query.mintedAt \in 0 .. now /\ now \in 0 .. now
        BY <1>1, <3>2
      <3>4. Granted(TokenInLocation)
        BY <3>2, <3>3 DEF Granted, TokenInLocation
      <3> QED
        BY <2>3, <3>1, <3>4 DEF Granted
    <2> QED
      BY <1>3, <2>1, <2>2, <2>3, GrantingStep
  <1> QED
    BY <1>2, <1>3 DEF GrantedInv

\* Every step is one of the token manager's.
LEMMA ManagerStep ==
    ASSUME TypeOK, GrantedInv, [Next]_vars
    PROVE  [TMNext]_tmVars
  <1>1. ASSUME NEW c \in Callers, StartCall(c)
        PROVE  UNCHANGED tmVars
    BY <1>1 DEF StartCall
  <1>2. CASE AutoCall \/ \E c \in Callers : AppCall(c)
    BY <1>1, <1>2, ClientAssumption DEF AutoCall, AppCall
  <1>3. ASSUME NEW c \in Callers, Resume(c)
        PROVE  [TMNext]_tmVars
    <2>1. CASE ResumeWithToken(c)
      <3>1. PICK e \in Lifetimes, received \in 0 .. now :
              \E age \in 0 .. received :
                /\ GrantType = "pkce" => age <= ResponseTime
                /\ memo.token = MintedToken(TenantOf[Self], TenantOf[Self], e, received, age)
        BY <2>1 DEF ResumeWithToken, GrantedInv, Granted
      <3>2. ClientSets(Self)
        BY <2>1, <3>1 DEF ResumeWithToken, ClientSets
      <3> QED
        BY <3>2, SelfFacts DEF TMNext
    <2>2. CASE ResumeWithTos(c) \/ ResumeWithLogin(c)
      BY <2>2 DEF ResumeWithTos, ResumeWithLogin
    <2>3. CASE ResumeWithError(c)
      BY <2>3, SelfFacts DEF ResumeWithError, TMNext
    <2> QED
      BY <1>3, <2>1, <2>2, <2>3 DEF Resume
  <1>4. CASE AppLogin \/ ExchangeAnswered \/ ReturnWithCode \/ ReturnWithToken
             \/ ReturnWithError \/ ReturnClean \/ UNCHANGED vars
    BY <1>4 DEF AppLogin, ExchangeAnswered, ReturnWithCode, ReturnWithToken, ReturnWithError,
                ReturnClean, vars
  <1>5. CASE AppLogout \/ AppClear
    BY <1>5, SelfFacts DEF AppLogout, AppClear, TMNext
  <1>6. CASE Leave \/ ReloadPage
    BY <1>6 DEF Leave, ReloadPage, TMNext
  <1>7. CASE RenewalTask
    BY <1>7, SelfFacts DEF RenewalTask, TMNext
  <1>8. CASE TimePasses
    BY <1>8 DEF TimePasses, TMNext
  <1> QED
    BY <1>2, <1>3, <1>4, <1>5, <1>6, <1>7, <1>8 DEF Next

\* The client uses the token manager in no other way than TokenManager says,
\* whatever calls, logins and reloads interleave, in both flows
\* (splunk-auth-client.ts:145-168, 189, 223-229).
THEOREM UsesManager == Spec => UsesTokenManager
  <1>1. Init => TMInit /\ GrantedInv
    BY DEF Init, GrantedInv, NoMemo, CleanQuery, Held
  <1>2. TypeOK /\ LoginInv /\ GrantedInv /\ [Next]_vars => GrantedInv'
    BY GrantedStep
  <1>3. TypeOK /\ GrantedInv /\ [Next]_vars => [TMNext]_tmVars
    BY ManagerStep
  <1> QED
    BY <1>1, <1>2, <1>3, LoginInvariant, PTL DEF Spec, UsesTokenManager, TMSpec

-----------------------------------------------------------------------------
(***************************************************************************)
(* What the token manager promises, kept by the client.                    *)
(***************************************************************************)

\* Under the client, with its calls, logins, logouts and page loads, the token
\* manager keeps what it promises: no token of another tenant, renewals neither
\* late nor early, of the token that is cached, until one fails or the page is left
\* (splunk-auth-client.ts:145-168, token-manager.ts:134-227).
THEOREM KeepsPromises ==
    Spec => /\ [](TenantIsolation /\ RenewedInTime /\ RenewalNotEarly /\ TimerFollowsCache)
            /\ RenewalGoesOn
            /\ CachedTokenIsRenewed
  BY UsesManager, Isolation, NoGap, NotEarly, FollowsCache, GoesOn, StaysCovered, PTL
     DEF UsesTokenManager

-----------------------------------------------------------------------------
(***************************************************************************)
(* The client is a login session.                                          *)
(***************************************************************************)

\* What LoginSession calls the state of the exchange.
LEMMA ExchangeFacts ==
    ASSUME TypeOK
    PROVE  /\ Exchange \in {"none", "pending", "granted", "refused", "terms"}
           /\ memo.state = "none" <=> Exchange = "none"
           /\ memo.state = "pending" <=> Exchange = "pending"
           /\ memo.state = "fulfilled" <=> Exchange = "granted"
           /\ memo.state = "rejected" <=> Exchange \in {"refused", "terms"}
           /\ memo.state = "rejected" =>
                (memo.error = "unsignedtos" <=> Exchange = "terms")
  <1>1. memo.state \in {"none", "pending", "fulfilled", "rejected"}
    BY MemoFacts DEF TypeOK
  <1> QED
    BY <1>1 DEF Exchange

\* Steps that leave these alone stutter in LoginSession.
LEMMA SameSession ==
    ASSUME UNCHANGED <<nav, oauthParams, userState, memo>>
    PROVE  UNCHANGED Session!sessionState
  BY DEF Session!sessionState, Exchange

\* Every step is one of LoginSession.
LEMMA SessionStep ==
    ASSUME TypeOK, TypeOK', [Next]_vars
    PROVE  [Session!Next]_(Session!sessionState)
  <1>0. /\ Exchange \in {"none", "pending", "granted", "refused", "terms"}
        /\ memo.state = "none" <=> Exchange = "none"
        /\ memo.state = "pending" <=> Exchange = "pending"
        /\ memo.state = "rejected" =>
             (memo.error = "unsignedtos" <=> Exchange = "terms")
    BY ExchangeFacts
  <1>1. /\ Exchange' \in {"none", "pending", "granted", "refused", "terms"}
        /\ memo'.state = "none" <=> Exchange' = "none"
        /\ memo'.state = "pending" <=> Exchange' = "pending"
        /\ memo'.state = "fulfilled" <=> Exchange' = "granted"
        /\ memo'.state = "rejected" <=> Exchange' \in {"refused", "terms"}
        /\ memo'.state = "rejected" =>
             (memo'.error = "unsignedtos" <=> Exchange' = "terms")
    <2>1. memo'.state \in {"none", "pending", "fulfilled", "rejected"}
      BY MemoFacts DEF TypeOK
    <2> QED
      BY <2>1 DEF Exchange
  <1>2. ASSUME memo' = memo
        PROVE  Exchange' = Exchange
    BY <1>2 DEF Exchange
  <1>3. ASSUME NEW c \in Callers, StartCall(c)
        PROVE  [Session!Next]_(Session!sessionState)
    <2>1. CASE UNCHANGED <<memo, oauthParams, userState>>
      BY <1>3, <2>1, SameSession DEF StartCall
    <2>2. CASE RequestToken /\ memo = NoMemo
      <3>1. nav' = nav /\ Exchange = "none"
        BY <1>0, <1>3, <2>2 DEF StartCall, NoMemo
      <3>2. CASE NothingToRedeem
        <4>1. Exchange' \in {"refused", "terms"} /\ UNCHANGED <<oauthParams, userState>>
          BY <1>1, <3>2 DEF NothingToRedeem, Rejected
        <4>2. Session!Reject
          BY <3>1, <4>1 DEF Session!Reject
        <4> QED
          BY <4>2 DEF Session!Next
      <3>3. CASE PresentCode /\ memo' = AccessTokenRequest
        <4>1. Exchange' = "pending" /\ oauthParams' = oauthParams /\ oauthParams # NoVerifier
          BY <1>1, <3>3 DEF PresentCode, AccessTokenRequest, HasStoredParameters
        <4>2. Session!Redeem
          BY <3>1, <4>1 DEF Session!Redeem
        <4> QED
          BY <4>2 DEF Session!Next
      <3>4. CASE PresentCode /\ LosesUserState /\ memo' = Rejected("other")
        <4>1. Exchange' \in {"refused", "terms"} /\ UNCHANGED <<oauthParams, userState>>
          BY <1>1, <3>4 DEF PresentCode, LosesUserState, Rejected
        <4>2. Session!Reject
          BY <3>1, <4>1 DEF Session!Reject
        <4> QED
          BY <4>2 DEF Session!Next
      <3>5. CASE TakeToken /\ url.query.answers = oauthParams
        <4>1. Exchange' = "granted" /\ oauthParams' = NoVerifier /\ userState' = userState
              /\ oauthParams # NoVerifier
          BY <1>1, <3>5 DEF TakeToken, DeleteParameters, HasStoredParameters
        <4>2. Session!Accept
          BY <3>1, <4>1 DEF Session!Accept
        <4> QED
          BY <4>2 DEF Session!Next
      <3>6. CASE TakeToken /\ url.query.answers # oauthParams
        <4>1. Exchange' \in {"refused", "terms"} /\ UNCHANGED <<oauthParams, userState>>
          BY <1>1, <3>6 DEF TakeToken, Rejected
        <4>2. Session!Reject
          BY <3>1, <4>1 DEF Session!Reject
        <4> QED
          BY <4>2 DEF Session!Next
      <3> QED
        BY <2>2, <3>2, <3>3, <3>4, <3>5, <3>6 DEF RequestToken, PresentCode
    <2> QED
      BY <1>3, <2>1, <2>2 DEF StartCall
  <1>4. CASE AutoCall \/ \E c \in Callers : AppCall(c)
    BY <1>3, <1>4, ClientAssumption DEF AutoCall, AppCall
  <1>5. ASSUME Login \/ LoginThrows, UNCHANGED <<memo, userState>>
        PROVE  [Session!Next]_(Session!sessionState)
    <2>1. CASE UNCHANGED <<oauthParams, nav>>
      BY <1>5, <2>1, SameSession
    <2>2. CASE Login
      <3>1. PICK v \in FreshVerifiers : oauthParams' = v /\ nav' = AuthorizeUrl(v)
        BY <2>2 DEF Login, GenerateAuthUrl
      <3>2. v \in Verifiers \ {oauthParams}
        BY DEF FreshVerifiers, VerifiersInUse
      <3>3. Session!SignIn
        BY <1>2, <1>5, <3>1, <3>2 DEF Session!SignIn, Session!AtAuthorize, AuthorizeUrl
      <3> QED
        BY <3>3 DEF Session!Next
    <2> QED
      BY <1>5, <2>1, <2>2 DEF LoginThrows
  <1>6. ASSUME NEW c \in Callers, Resume(c)
        PROVE  [Session!Next]_(Session!sessionState)
    <2>1. memo' = memo
      BY <1>6 DEF Resume
    <2>2. CASE ResumeWithToken(c) \/ ResumeWithError(c)
      BY <2>1, <2>2, SameSession DEF ResumeWithToken, ResumeWithError
    <2>3. CASE ResumeWithLogin(c)
      BY <1>5, <2>1, <2>3 DEF ResumeWithLogin
    <2>4. CASE ResumeWithTos(c)
      <3>1. UNCHANGED <<oauthParams, userState>> /\ Exchange = "terms"
        BY <1>0, <2>4 DEF ResumeWithTos
      <3>2. CASE GenerateTosUrl
        <4>1. Session!AskForTerms
          BY <1>2, <2>1, <3>1, <3>2
             DEF Session!AskForTerms, Session!AtTerms, GenerateTosUrl, HasStoredParameters
        <4> QED
          BY <4>1 DEF Session!Next
      <3>3. CASE nav' = nav
        BY <2>1, <3>1, <3>3, SameSession
      <3> QED
        BY <2>4, <3>2, <3>3 DEF ResumeWithTos
    <2> QED
      BY <1>6, <2>2, <2>3, <2>4 DEF Resume
  <1>7. CASE AppLogin
    BY <1>5, <1>7 DEF AppLogin
  <1>8. CASE AppLogout
    <2>1. nav' = [to |-> "logout"] /\ userState' = "none" /\ UNCHANGED <<oauthParams, memo>>
      BY <1>8 DEF AppLogout, GenerateLogoutUrl
    <2>2. Session!SignOut
      BY <1>2, <2>1 DEF Session!SignOut, Session!AtLogout
    <2> QED
      BY <2>2 DEF Session!Next
  <1>9. CASE ExchangeAnswered
    <2>1. nav' = nav /\ Exchange = "pending"
      BY <1>0, <1>9 DEF ExchangeAnswered, browserVars, ExchangeSucceeds, ExchangeNeedsTos,
                        ExchangeFails
    <2>2. CASE ExchangeNeedsTos
      <3>1. Exchange' = "terms" /\ UNCHANGED <<oauthParams, userState>>
        BY <1>1, <2>2 DEF ExchangeNeedsTos
      <3>2. Session!Postpone
        BY <2>1, <3>1 DEF Session!Postpone
      <3> QED
        BY <3>2 DEF Session!Next
    <2>3. CASE ExchangeSucceeds \/ ExchangeFails
      <3>1. Exchange' \in {"granted", "refused"}
        BY <1>1, <2>3 DEF ExchangeSucceeds, ExchangeFails
      <3>2. oauthParams' = NoVerifier /\ userState' # "invited"
        BY <2>3 DEF ExchangeSucceeds, ExchangeFails, EndAttempt, DeleteParameters, DeleteInvite
      <3>3. Session!Conclude
        BY <2>1, <3>1, <3>2 DEF Session!Conclude
      <3> QED
        BY <3>3 DEF Session!Next
    <2> QED
      BY <1>9, <2>2, <2>3 DEF ExchangeAnswered
  <1>10. CASE Leave \/ ReturnWithCode \/ ReturnWithToken \/ ReturnWithError \/ ReturnClean
             \/ ReloadPage
    <2>1. nav' \in {nav, NoNav} /\ memo'.state = "none" /\ UNCHANGED <<oauthParams, userState>>
      BY <1>10 DEF Leave, ReturnWithCode, ReturnWithToken, ReturnWithError, ReturnClean,
                   ReloadPage, Land, NewClient, NoMemo, sessionVars
    <2>2. Session!ChangePage
      BY <1>1, <2>1 DEF Session!ChangePage, Session!AtApplication, NoNav
    <2> QED
      BY <2>2 DEF Session!Next
  <1>11. CASE AppClear \/ RenewalTask \/ TimePasses \/ UNCHANGED vars
    BY <1>11, SameSession
       DEF AppClear, RenewalTask, TimePasses, vars, browserVars, sessionVars, callVars
  <1> QED
    BY <1>4, <1>6, <1>7, <1>8, <1>9, <1>10, <1>11 DEF Next

\* To its user the tab is a login session: however calls, logins, resumptions and
\* reloads interleave, no page redeems twice or without an attempt, the terms belong
\* to the attempt and the invite the tab holds, and what is used up is gone
\* (splunk-auth-client.ts:145-168, 215-233, pkce-auth-manager.ts:234-249, 335-368).
THEOREM IsLoginSession == Spec => ImplementsLoginSession
  <1>1. Init => Session!Init
    BY DEF Init, Session!Init, Session!AtApplication, NoNav, Exchange, NoMemo
  <1>2. TypeOK /\ TypeOK' /\ [Next]_vars => [Session!Next]_(Session!sessionState)
    BY SessionStep
  <1> QED
    BY <1>1, <1>2, ClientTypeCorrect, PTL DEF Spec, ImplementsLoginSession, Session!Spec

-----------------------------------------------------------------------------
(***************************************************************************)
(* The path to restore.                                                    *)
(***************************************************************************)

\* The path to the place of the last login can be restored, or is not needed: it
\* is the path of the redirect URI.
CanGoBack == redirectPath # NoPath \/ lastLogin.route = Home

\* While a path is remembered it is the one the last login was called from.  It is
\* there, unless it is Home, when the tab is away to log in and until the page of a
\* sign-in has restored it.  Only Home holds answers and errors.
PathInv ==
    /\ redirectPath # NoPath =>
         /\ redirectPath.route = lastLogin.route
         /\ redirectPath.query.kind # "clean" => redirectPath.route = Home
    /\ nav.to \in {"authorize", "tos"} => CanGoBack
    /\ url.query.kind # "clean" \/ memo.state = "pending" =>
         /\ url.route = Home
         /\ CanGoBack
         /\ hasRequestedToken => lastLogin.route = Home
    /\ memo.state = "fulfilled" =>
         IF hasRequestedToken THEN url.route = lastLogin.route
         ELSE url.route = Home /\ CanGoBack
    /\ memo.state = "rejected" /\ memo.error = "unsignedtos" /\ oauthParams # NoVerifier
         => CanGoBack \/ GrantType = "implicit"

\* Nothing the invariant speaks of changes, but for where the tab goes.
LEMMA SamePath ==
    ASSUME PathInv,
           UNCHANGED <<url, redirectPath, lastLogin, oauthParams, memo, hasRequestedToken>>,
           \/ nav' = nav
           \/ nav'.to \notin {"authorize", "tos"}
           \/ CanGoBack
    PROVE  PathInv'
  BY DEF PathInv, CanGoBack

\* What Finally leaves behind a call that has its answer.
LEMMA FinallyPath ==
    ASSUME TypeOK, LoginInv, PathInv, RestorePath, page = "app", Finally(redirectInProgress),
           UNCHANGED <<nav, memo, oauthParams, lastLogin>>,
           memo.state # "pending",
           memo.state = "rejected" /\ memo.error = "unsignedtos"
             => oauthParams = NoVerifier \/ GrantType = "implicit"
    PROVE  PathInv'
  <1>1. CASE hasRequestedToken \/ redirectInProgress
    <2>1. UNCHANGED <<hasRequestedToken, url, redirectPath>>
      BY <1>1 DEF Finally
    <2> QED
      BY <2>1, SamePath
  <1>2. CASE ~(hasRequestedToken \/ redirectInProgress)
    <2>1. /\ hasRequestedToken' /\ redirectPath' = NoPath
          /\ url' = IF redirectPath # NoPath THEN redirectPath ELSE Cleared(url)
      BY <1>2 DEF Finally, RestorePathAfterLogin
    <2>2. nav = NoNav /\ NoNav.to = "app"
      BY <1>2, NavTypes DEF LoginInv, NavInv
    <2>3. /\ Cleared(url).route = url.route
          /\ Cleared(url).query.kind # "clean" => Cleared(url) = url
      <3>1. url \in Location
        BY DEF TypeOK
      <3>2. Cleared(url).route = url.route
        BY <3>1, ClearedLocation
      <3>3. CASE url.query.kind \in {"code", "token"}
        <4>1. Cleared(url) = [route |-> url.route, query |-> CleanQuery]
          BY <3>1, <3>3 DEF Cleared, Location
        <4>2. CleanQuery.kind = "clean"
          BY DEF CleanQuery
        <4> QED
          BY <3>2, <4>1, <4>2
      <3>4. CASE url.query.kind \notin {"code", "token"}
        BY <3>2, <3>4 DEF Cleared
      <3> QED
        BY <3>3, <3>4
    <2>4. url'.query.kind # "clean" => url'.route = Home /\ lastLogin.route = Home
      BY <2>1, <2>3 DEF PathInv, CanGoBack
    <2>5. memo.state = "fulfilled" => url'.route = lastLogin.route
      BY <1>2, <2>1, <2>3 DEF PathInv, CanGoBack
    <2> QED
      BY <1>2, <2>1, <2>2, <2>4, <2>5 DEF PathInv, CanGoBack
  <1> QED
    BY <1>1, <1>2

\* login() remembers the location, whatever it carries.
LEMMA LoginPath ==
    ASSUME TypeOK, PathInv, RestorePath, ~StorageFails, Login \/ LoginThrows,
           UNCHANGED <<url, memo, hasRequestedToken>>
    PROVE  PathInv'
  <1>1. redirectPath' = url
    BY DEF Login, LoginThrows, StorePathBeforeLogin
  <1>2. lastLogin'.route = url.route
    <2>1. Login
      BY DEF LoginThrows
    <2>2. PICK challenge :
            lastLogin' = [route |-> url.route, challenge |-> challenge, overlaps |-> Redeeming]
      BY <2>1 DEF Login
    <2> QED
      BY <2>2
  <1>3. redirectPath' # NoPath
    BY <1>1, LocationNotNoPath DEF TypeOK
  <1> QED
    BY <1>1, <1>2, <1>3 DEF PathInv, CanGoBack

\* A call up to its await.
LEMMA StartCallPath ==
    ASSUME TypeOK, LoginInv, PathInv, RestorePath, NEW c \in Callers, StartCall(c)
    PROVE  PathInv'
  <1>0. UNCHANGED <<nav, lastLogin>> /\ page = "app" /\ url \in Location
    BY DEF StartCall, OnPage, TypeOK
  <1>1. CASE IsAuthenticated
    <2>1. Finally(redirectInProgress) /\ UNCHANGED <<memo, oauthParams>>
      BY <1>1 DEF StartCall
    <2>2. memo.state \notin {"pending", "rejected"}
      BY <1>1 DEF LoginInv, NoTokenInv
    <2> QED
      BY <1>0, <2>1, <2>2, FinallyPath
  <1>2. CASE ~IsAuthenticated /\ memo # NoMemo
    <2>1. UNCHANGED <<memo, url, oauthParams, hasRequestedToken, redirectPath>>
      BY <1>2 DEF StartCall
    <2> QED
      BY <1>0, <2>1, SamePath
  <1>3. CASE ~IsAuthenticated /\ memo = NoMemo
    <2>0. RequestToken /\ UNCHANGED <<hasRequestedToken, redirectPath>> /\ memo.state = "none"
      BY <1>3 DEF StartCall, NoMemo
    <2>1. CASE NothingToRedeem
      <3>1. /\ UNCHANGED <<url, oauthParams>>
            /\ memo'.state = "rejected"
            /\ memo'.error = IF CarriesAnswer THEN "other" ELSE QueryError
        BY <2>1 DEF NothingToRedeem, Rejected
      <3>2. memo'.error = "unsignedtos" => url.query.kind = "error"
        BY <3>1 DEF QueryError
      <3> QED
        BY <1>0, <2>0, <3>1, <3>2 DEF PathInv, CanGoBack
    <2>2. CASE PresentCode \/ TakeToken
      <3>1. /\ url' = Cleared(url) /\ url.query.kind \in {"code", "token"}
            /\ memo'.state \in {"pending", "fulfilled", "rejected"}
            /\ memo'.state = "rejected" => memo'.error = "other"
        BY <2>2 DEF PresentCode, TakeToken, AccessTokenRequest, Rejected
      <3>2. url'.query.kind = "clean" /\ url'.route = url.route
        <4>1. url' = [route |-> url.route, query |-> CleanQuery]
          BY <1>0, <3>1 DEF Cleared, Location
        <4> QED
          BY <4>1 DEF CleanQuery
      <3> QED
        BY <1>0, <2>0, <3>1, <3>2 DEF PathInv, CanGoBack
    <2> QED
      BY <2>0, <2>1, <2>2 DEF RequestToken
  <1> QED
    BY <1>1, <1>2, <1>3

\* The rest of a call.
LEMMA ResumePath ==
    ASSUME TypeOK, LoginInv, PathInv, RestorePath, ~StorageFails, NEW c \in Callers, Resume(c)
    PROVE  PathInv'
  <1>0. memo' = memo /\ page = "app"
    BY DEF Resume, OnPage
  <1>1. CASE ResumeWithToken(c) \/ ResumeWithError(c)
    <2>1. /\ UNCHANGED <<nav, oauthParams, lastLogin>> /\ Finally(redirectInProgress)
          /\ memo.state \in {"fulfilled", "rejected"}
          /\ memo.state = "rejected" => Unhandled(memo.error)
      BY <1>1 DEF ResumeWithToken, ResumeWithError
    <2>2. memo.state = "rejected" /\ memo.error = "unsignedtos" => GrantType = "implicit"
      BY <2>1 DEF Unhandled
    <2> QED
      BY <1>0, <2>1, <2>2, FinallyPath
  <1>2. CASE ResumeWithTos(c)
    <2>1. /\ memo.state = "rejected" /\ memo.error = "unsignedtos" /\ GrantType = "pkce"
          /\ UNCHANGED <<oauthParams, lastLogin>> /\ Finally(redirectInProgress')
      BY <1>2 DEF ResumeWithTos
    <2>2. CASE HasStoredParameters
      <3>1. redirectInProgress' = TRUE
        BY <1>2, <2>2 DEF ResumeWithTos
      <3>2. UNCHANGED <<url, redirectPath, hasRequestedToken>>
        BY <2>1, <3>1 DEF Finally
      <3>3. CanGoBack
        BY <2>1, <2>2 DEF PathInv, HasStoredParameters
      <3> QED
        BY <1>0, <2>1, <3>2, <3>3, SamePath
    <2>3. CASE ~HasStoredParameters
      <3>1. UNCHANGED <<nav, redirectInProgress>> /\ oauthParams = NoVerifier
        BY <1>2, <2>3 DEF ResumeWithTos, GenerateTosUrl, HasStoredParameters
      <3> QED
        BY <1>0, <2>1, <3>1, FinallyPath
    <2> QED
      BY <2>2, <2>3
  <1>3. CASE ResumeWithLogin(c)
    <2>1. (Login \/ LoginThrows) /\ UNCHANGED <<url, hasRequestedToken>>
      BY <1>3 DEF ResumeWithLogin
    <2> QED
      BY <1>0, <2>1, LoginPath
  <1> QED
    BY <1>1, <1>2, <1>3 DEF Resume

\* A page that is loaded has all the invariant speaks of in the session storage.
LEMMA LandPath ==
    ASSUME PathInv, NEW location, Land(location),
           \/ location.query.kind = "clean"
           \/ location = url
           \/ location.route = Home /\ nav.to \in {"authorize", "tos"}
    PROVE  PathInv'
  <1>1. /\ nav' = NoNav /\ NoNav.to = "app" /\ url' = location
        /\ memo' = NoMemo /\ NoMemo.state = "none" /\ hasRequestedToken' = FALSE
        /\ UNCHANGED <<oauthParams, redirectPath, lastLogin>>
    BY NavTypes DEF Land, NewClient, sessionVars, NoMemo
  <1> QED
    BY <1>1 DEF PathInv, CanGoBack

\* The path, after every step.
LEMMA PathStep ==
    ASSUME TypeOK, LoginInv, PathInv, RestorePath, ~StorageFails, [Next]_vars
    PROVE  PathInv'
  <1>1. CASE AutoCall \/ \E c \in Callers : AppCall(c)
    BY <1>1, StartCallPath, ClientAssumption DEF AutoCall, AppCall
  <1>2. ASSUME NEW c \in Callers, Resume(c)
        PROVE  PathInv'
    BY <1>2, ResumePath
  <1>3. CASE AppLogin
    BY <1>3, LoginPath DEF AppLogin
  <1>4. CASE AppLogout
    BY <1>4, SamePath DEF AppLogout, GenerateLogoutUrl
  <1>5. CASE ExchangeAnswered
    <2>1. /\ memo.state = "pending"
          /\ UNCHANGED <<nav, url, redirectPath, lastLogin, hasRequestedToken>>
          /\ memo'.state \in {"fulfilled", "rejected"}
      BY <1>5 DEF ExchangeAnswered, ExchangeSucceeds, ExchangeNeedsTos, ExchangeFails, browserVars
    <2> QED
      BY <2>1 DEF PathInv, CanGoBack
  <1>6. CASE Leave
    <2>1. /\ memo' = NoMemo /\ NoMemo.state = "none" /\ hasRequestedToken' = FALSE
          /\ UNCHANGED <<nav, url, oauthParams, redirectPath, lastLogin>>
      BY <1>6 DEF Leave, NewClient, sessionVars, NoMemo
    <2> QED
      BY <2>1 DEF PathInv, CanGoBack
  <1>7. CASE ReturnWithCode \/ ReturnWithToken \/ ReturnWithError
    <2>1. nav.to \in {"authorize", "tos"}
      BY <1>7 DEF ReturnWithCode, ReturnWithToken, ReturnWithError
    <2>2. \E query : Land([route |-> Home, query |-> query])
      BY <1>7 DEF ReturnWithCode, ReturnWithToken, ReturnWithError
    <2>3. PICK query : Land([route |-> Home, query |-> query])
      BY <2>2
    <2>4. [route |-> Home, query |-> query].route = Home
      OBVIOUS
    <2> QED
      BY <2>1, <2>3, <2>4, LandPath
  <1>8. CASE ReturnClean
    <2>1. PICK route \in Routes : Land([route |-> route, query |-> CleanQuery])
      BY <1>8 DEF ReturnClean
    <2>2. [route |-> route, query |-> CleanQuery].query.kind = "clean"
      BY DEF CleanQuery
    <2> QED
      BY <2>1, <2>2, LandPath
  <1>9. CASE ReloadPage
    BY <1>9, LandPath DEF ReloadPage
  <1>10. CASE AppClear \/ RenewalTask \/ TimePasses \/ UNCHANGED vars
    BY <1>10, SamePath
       DEF AppClear, RenewalTask, TimePasses, vars, browserVars, sessionVars, callVars
  <1> QED
    BY <1>1, <1>2, <1>3, <1>4, <1>5, <1>6, <1>7, <1>8, <1>9, <1>10 DEF Next

\* As long as the storage takes what is written, the user is back at the path the
\* last login was called from whenever a sign-in has gone through, however many
\* detours, errors, overlapping logins and reloads there were
\* (splunk-auth-client.ts:174-180, 215-218, 272-294).
THEOREM PathRestored == ~StorageFails => (Spec => []PathRestoredAfterLogin)
  <1> SUFFICES ASSUME ~StorageFails
               PROVE  Spec => []PathRestoredAfterLogin
    OBVIOUS
  <1>1. CASE ~RestorePath
    <2>1. PathRestoredAfterLogin
      BY <1>1 DEF PathRestoredAfterLogin
    <2> QED
      BY <2>1, PTL
  <1>2. CASE RestorePath
    <2>1. Init => PathInv
      BY NavTypes DEF Init, PathInv, CanGoBack, CleanQuery, NoMemo
    <2>2. (TypeOK /\ LoginInv) /\ PathInv /\ [Next]_vars => PathInv'
      BY <1>2, PathStep
    <2>3. PathInv => PathRestoredAfterLogin
      BY DEF PathInv, PathRestoredAfterLogin
    <2> QED
      BY <2>1, <2>2, <2>3, LoginInvariant, PTL DEF Spec
  <1> QED
    BY <1>1, <1>2, SelfFacts

-----------------------------------------------------------------------------
(***************************************************************************)
(* No login without need.                                                  *)
(***************************************************************************)

\* A token of the client's tenant.
OwnTenant(token) == token.tenant = TenantOf[Self]

\* Every token the page holds, in the cache, for a renewal, in a request or in the
\* memoized exchange, is of the client's tenant.
SlotInv ==
    /\ \A s \in Slots : store[s] # NoToken => s = TenantOf[Self]
    /\ timer[Self] # NoTimer => OwnTenant(timer[Self].token)
    /\ \A r \in requests : OwnTenant(r.timeout.token)
    /\ memo.state = "fulfilled" => OwnTenant(memo.token)

\* A token of the client's tenant that is set goes to the client's slot.
LEMMA SetOwnToken ==
    ASSUME TMTypeOK, SlotInv, NEW token \in Token, OwnTenant(token), SetToken(Self, token)
    PROVE  /\ \A s \in Slots : store'[s] # NoToken => s = TenantOf[Self]
           /\ timer'[Self] # NoTimer => OwnTenant(timer'[Self].token)
  <1>1. \A s \in Slots : store'[s] # NoToken => s = TenantOf[Self]
    BY DEF SetToken, SlotInv, OwnTenant, TMTypeOK
  <1>2. timer' = timer \/ (timer'[Self]).token = token
    BY SelfFacts DEF SetToken, TMTypeOK
  <1> QED
    BY <1>1, <1>2 DEF SlotInv

\* The steps of the token manager that the page takes between calls.
LEMMA RenewalSlots ==
    ASSUME TypeOK, SlotInv, RenewalTask
    PROVE  SlotInv'
  <1>1. memo' = memo /\ TMTypeOK
    BY DEF RenewalTask, callVars, TypeOK
  <1>2. CASE TimerFires(Self)
    <2>1. /\ requests' = requests \cup {[client |-> Self, timeout |-> timer[Self], sentAt |-> now]}
          /\ store' = store /\ timer[Self] # NoTimer /\ timer'[Self] = NoTimer
      BY <1>1, <1>2, SelfFacts DEF TimerFires, TMTypeOK
    <2> QED
      BY <1>1, <2>1 DEF SlotInv
  <1>3. ASSUME NEW r \in requests, RefreshSucceeds(r)
        PROVE  SlotInv'
    <2>1. PICK e \in Lifetimes, age \in 0 .. (now - r.sentAt) :
            LET token == MintedToken(RenewalTenant(r.timeout.token),
                                     RenewalTenant(r.timeout.token), e, now, age)
            IN  token \in Token /\ SetToken(r.client, token)
      BY <1>1, <1>3, RefreshSucceedsFacts
    <2> DEFINE token == MintedToken(RenewalTenant(r.timeout.token),
                                    RenewalTenant(r.timeout.token), e, now, age)
    <2>2. token.tenant = RenewalTenant(r.timeout.token)
      BY DEF MintedToken
    <2>3. r.client = Self /\ OwnTenant(r.timeout.token)
      BY <1>1, SelfFacts DEF TMTypeOK, Request, SlotInv
    <2>4. OwnTenant(token)
      BY <2>2, <2>3, SettingsAssumption, GrantTypeAssumption, SelfFacts
         DEF OwnTenant, RenewalTenant, TokenManagerSettings
    <2>5. token \in Token /\ SetToken(Self, token)
      BY <2>1, <2>3
    <2>6. requests' \subseteq requests
      BY <1>3 DEF RefreshSucceeds
    <2> HIDE DEF token
    <2> QED
      BY <1>1, <2>4, <2>5, <2>6, SetOwnToken DEF SlotInv
  <1>4. ASSUME NEW r \in requests, RefreshFails(r)
        PROVE  SlotInv'
    BY <1>1, <1>4 DEF RefreshFails, SlotInv
  <1> QED
    BY <1>2, <1>3, <1>4 DEF RenewalTask

\* The cache, the timer and the requests of the manager are left alone, or emptied.
LEMMA EmptiedSlots ==
    ASSUME SlotInv, store' \in {store, EmptyStore}, timer'[Self] \in {timer[Self], NoTimer},
           requests' \subseteq requests,
           memo'.state = "fulfilled" => OwnTenant(memo'.token)
    PROVE  SlotInv'
  BY DEF SlotInv, EmptyStore

\* The tokens' tenant, after every step.
LEMMA SlotStep ==
    ASSUME TypeOK, LoginInv, SlotInv, [Next]_vars
    PROVE  SlotInv'
  <1>1. memo'.state = "fulfilled" => OwnTenant(memo'.token)
    <2>1. CASE memo.state = "fulfilled"
      BY <2>1, GrantedStays DEF SlotInv, NoMemo
    <2>2. CASE memo.state = "pending" /\ ExchangeSucceeds
      BY <2>2 DEF ExchangeSucceeds, MintedToken, OwnTenant
    <2>3. CASE TakeToken
      BY <2>3 DEF TakeToken, TokenInLocation, MintedToken, OwnTenant, Rejected
    <2> QED
      BY <2>1, <2>2, <2>3, GrantingStep
  <1>2. CASE AutoCall \/ \E c \in Callers : AppCall(c)
    <2>1. UNCHANGED tmVars
      BY <1>2 DEF AutoCall, AppCall, StartCall
    <2> QED
      BY <1>1, <2>1, EmptiedSlots DEF tmVars
  <1>3. ASSUME NEW c \in Callers, Resume(c)
        PROVE  SlotInv'
    <2>1. CASE ResumeWithToken(c)
      <3>1. memo.token \in Token /\ OwnTenant(memo.token) /\ TMTypeOK
        BY <2>1, MemoFacts DEF ResumeWithToken, SlotInv, TypeOK
      <3>2. SetToken(Self, memo.token) /\ requests' = requests
        BY <2>1 DEF ResumeWithToken
      <3> QED
        BY <1>1, <3>1, <3>2, SetOwnToken DEF SlotInv
    <2>2. CASE ResumeWithTos(c) \/ ResumeWithLogin(c) \/ ResumeWithError(c)
      <3>1. store' \in {store, EmptyStore} /\ UNCHANGED <<timer, requests>>
        BY <2>2 DEF ResumeWithTos, ResumeWithLogin, ResumeWithError, Clear, tmVars
      <3> QED
        BY <1>1, <3>1, EmptiedSlots
    <2> QED
      BY <1>3, <2>1, <2>2 DEF Resume
  <1>4. CASE AppLogin \/ AppLogout \/ AppClear \/ ExchangeAnswered \/ ReturnWithCode
             \/ ReturnWithToken \/ ReturnWithError \/ ReturnClean \/ TimePasses
             \/ UNCHANGED vars
    <2>1. store' \in {store, EmptyStore} /\ UNCHANGED <<timer, requests>>
      BY <1>4 DEF AppLogin, AppLogout, AppClear, Clear, ExchangeAnswered, ReturnWithCode,
                  ReturnWithToken, ReturnWithError, ReturnClean, TimePasses, Tick, vars, tmVars
    <2> QED
      BY <1>1, <2>1, EmptiedSlots
  <1>5. CASE Leave \/ ReloadPage
    <2>1. store' = store /\ timer'[Self] = NoTimer /\ requests' = {}
      BY <1>5, SelfFacts DEF Leave, ReloadPage, Reload
    <2> QED
      BY <1>1, <2>1, EmptiedSlots
  <1>6. CASE RenewalTask
    BY <1>6, RenewalSlots
  <1> QED
    BY <1>2, <1>3, <1>4, <1>5, <1>6 DEF Next

\* A client that finds nothing valid in its own slot leaves nothing valid unseen.
LEMMA NothingValidUnseen ==
    ASSUME TypeOK, SlotInv, ClientTenant = TenantOf[Self], ~IsAuthenticated, NEW s \in Slots,
           store[s] # NoToken
    PROVE  store[s].expiresAt - MaxClockSkew <= now
  <1>1. s = ClientTenant
    BY DEF SlotInv
  <1>2. Lookup(ClientTenant) = store[s]
    BY <1>1 DEF Lookup, Slots
  <1>3. store[s].expiresAt \in Nat /\ now \in Nat /\ MaxClockSkew \in Nat
    BY SelfFacts DEF TypeOK, TMTypeOK, Token
  <1>4. ~(store[s].expiresAt + MaxClockSkew > now)
    BY <1>2 DEF IsAuthenticated
  <1> QED
    BY <1>3, <1>4

\* A client that looks its tokens up under the tenant it signs in to never sends
\* the user to login while a token is cached that the settings do not call expired,
\* for any clock skew and however renewals, clears and reloads interleave
\* (splunk-auth-client.ts:130, 141, 158-160, 196-200,
\* splunk-auth-client-settings.ts:151-152).
THEOREM NoNeedless == ClientTenant = TenantOf[Self] => (Spec => NoNeedlessLogin)
  <1> SUFFICES ASSUME ClientTenant = TenantOf[Self]
               PROVE  Spec => NoNeedlessLogin
    OBVIOUS
  <1>1. Init => SlotInv
    BY SelfFacts DEF Init, TMInit, EmptyStore, SlotInv, NoMemo
  <1>2. (TypeOK /\ LoginInv) /\ SlotInv /\ [Next]_vars => SlotInv'
    BY SlotStep
  <1>3. (TypeOK /\ LoginInv) /\ SlotInv
          => [\A c \in Callers :
                Resume(c) /\ nav' # nav /\ nav'.to = "authorize"
                  => \A s \in Slots :
                       store[s] # NoToken => store[s].expiresAt - MaxClockSkew <= now]_vars
    <2> SUFFICES ASSUME TypeOK, LoginInv, SlotInv, NEW c \in Callers,
                        Resume(c), nav' # nav, nav'.to = "authorize",
                        NEW s \in Slots, store[s] # NoToken
                 PROVE  store[s].expiresAt - MaxClockSkew <= now
      OBVIOUS
    <2>1. ResumeWithLogin(c)
      BY DEF Resume, ResumeWithToken, ResumeWithTos, ResumeWithError, GenerateTosUrl
    <2>2. ~IsAuthenticated
      BY <2>1 DEF ResumeWithLogin, LoginInv, NoTokenInv
    <2> QED
      BY <2>2, NothingValidUnseen
  <1> QED
    BY <1>1, <1>2, <1>3, LoginInvariant, PTL DEF Spec, NoNeedlessLogin

-----------------------------------------------------------------------------
(***************************************************************************)
(* Every call settles.                                                     *)
(***************************************************************************)

\* A call that waits has a page to be resumed on and an exchange to wait for.
NoOrphans ==
    \A c \in Callers : calls[c] = "waiting" => OnPage /\ memo # NoMemo

\* The states of the memoized exchange.
LEMMA MemoStates ==
    ASSUME memo \in Memo, memo # NoMemo
    PROVE  memo.state = "pending" \/ Settled
  BY DEF Memo, Settled

\* A step that does not resume a waiting call leaves it waiting for the same
\* exchange, answered or not, or takes it away with the page.
LEMMA WaitsForExchange ==
    ASSUME TypeOK, NoOrphans, [Next]_vars, NEW c \in Callers,
           calls[c] = "waiting", ~Resume(c)
    PROVE  \/ calls'[c] # "waiting"
           \/ /\ page' = "app" /\ memo' # NoMemo
              /\ memo' = memo \/ (memo.state = "pending" /\ Settled')
  <1>0. calls \in [Callers -> CallStates] /\ page = "app" /\ memo # NoMemo
    BY DEF TypeOK, NoOrphans, OnPage
  <1>1. ASSUME NEW d \in Callers, StartCall(d)
        PROVE  page' = "app" /\ memo' = memo
    BY <1>0, <1>1 DEF StartCall
  <1>2. CASE AutoCall \/ \E d \in Callers : AppCall(d)
    BY <1>0, <1>1, <1>2, ClientAssumption DEF AutoCall, AppCall
  <1>3. CASE \E d \in Callers : Resume(d)
    <2>1. page' = page /\ memo' = memo
      BY <1>3 DEF Resume, ResumeWithToken, ResumeWithTos, ResumeWithLogin, ResumeWithError
    <2> QED
      BY <1>0, <2>1
  <1>4. CASE AppLogin \/ AppLogout \/ AppClear \/ RenewalTask \/ TimePasses \/ UNCHANGED vars
    <2>1. page' = page /\ memo' = memo
      BY <1>4 DEF AppLogin, AppLogout, AppClear, RenewalTask, TimePasses, vars, browserVars,
                  callVars
    <2> QED
      BY <1>0, <2>1
  <1>5. CASE ExchangeAnswered
    <2>1. /\ page' = page /\ memo.state = "pending"
          /\ memo'.state \in {"fulfilled", "rejected"}
      BY <1>5 DEF ExchangeAnswered, ExchangeSucceeds, ExchangeNeedsTos, ExchangeFails,
                  browserVars
    <2> QED
      BY <1>0, <2>1 DEF Settled, NoMemo
  <1>6. CASE Leave \/ ReturnWithCode \/ ReturnWithToken \/ ReturnWithError \/ ReturnClean
             \/ ReloadPage
    <2>1. calls'[c] = "idle"
      BY <1>6 DEF Leave, ReturnWithCode, ReturnWithToken, ReturnWithError, ReturnClean,
                  ReloadPage, Land, NewClient
    <2> QED
      BY <2>1
  <1> QED
    BY <1>2, <1>3, <1>4, <1>5, <1>6 DEF Next

\* A call that begins to wait has an exchange to wait for.
LEMMA BeginsToWait ==
    ASSUME TypeOK, [Next]_vars, NEW c \in Callers,
           calls[c] # "waiting", calls'[c] = "waiting"
    PROVE  page' = "app" /\ memo' # NoMemo
  <1>0. calls \in [Callers -> CallStates]
    BY DEF TypeOK
  <1>1. ASSUME NEW d \in Callers, StartCall(d)
        PROVE  page' = "app" /\ memo' # NoMemo
    <2>1. ~IsAuthenticated /\ page' = "app"
      BY <1>0, <1>1 DEF StartCall, Outcome, OnPage
    <2>2. CASE memo = NoMemo
      <3>1. RequestToken
        BY <1>1, <2>1, <2>2 DEF StartCall
      <3>2. memo'.state \in {"pending", "fulfilled", "rejected"}
        BY <3>1 DEF RequestToken, NothingToRedeem, PresentCode, TakeToken, Rejected,
                    AccessTokenRequest
      <3> QED
        BY <2>1, <3>2 DEF NoMemo
    <2>3. CASE memo # NoMemo
      BY <1>1, <2>1, <2>3 DEF StartCall
    <2> QED
      BY <2>2, <2>3
  <1>2. CASE AutoCall \/ \E d \in Callers : AppCall(d)
    BY <1>1, <1>2, ClientAssumption DEF AutoCall, AppCall
  <1>3. ASSUME NEW d \in Callers, Resume(d)
        PROVE  FALSE
    <2>1. /\ calls' = [calls EXCEPT ![d] = calls'[d]]
          /\ calls'[d] \in {"valid", "expired", "nothing", "failed"}
      BY <1>0, <1>3 DEF Resume, ResumeWithToken, ResumeWithTos, ResumeWithLogin,
                        ResumeWithError, Outcome
    <2> QED
      BY <1>0, <2>1
  <1>4. CASE AppLogin \/ AppLogout \/ AppClear \/ RenewalTask \/ TimePasses \/ UNCHANGED vars
             \/ ExchangeAnswered
    BY <1>4 DEF AppLogin, AppLogout, AppClear, RenewalTask, TimePasses, vars, callVars,
                ExchangeAnswered
  <1>5. CASE Leave \/ ReturnWithCode \/ ReturnWithToken \/ ReturnWithError \/ ReturnClean
             \/ ReloadPage
    BY <1>5 DEF Leave, ReturnWithCode, ReturnWithToken, ReturnWithError, ReturnClean,
                ReloadPage, Land, NewClient
  <1> QED
    BY <1>2, <1>3, <1>4, <1>5 DEF Next

\* The rest of a call does not leave it waiting.
LEMMA ResumeSettles ==
    ASSUME TypeOK, NEW c \in Callers, Resume(c)
    PROVE  calls'[c] # "waiting"
  BY DEF TypeOK, Resume, ResumeWithToken, ResumeWithTos, ResumeWithLogin, ResumeWithError,
         Outcome

\* No call is ever orphaned: neither by answers and resumptions of others nor by a
\* page that is left or loaded again.
LEMMA CallsHaveExchange == Spec => []NoOrphans
  <1>1. Init => NoOrphans
    BY DEF Init, NoOrphans
  <1>2. TypeOK /\ NoOrphans /\ [Next]_vars => NoOrphans'
    <2> SUFFICES ASSUME TypeOK, NoOrphans, [Next]_vars, NEW c \in Callers,
                        calls'[c] = "waiting"
                 PROVE  page' = "app" /\ memo' # NoMemo
      BY DEF NoOrphans, OnPage
    <2> QED
      BY WaitsForExchange, BeginsToWait, ResumeSettles
  <1> QED
    BY <1>1, <1>2, ClientTypeCorrect, PTL DEF Spec

\* A call that waits for an exchange that is over can be resumed: some handler is
\* for what became of it, and a login finds a verifier that was never drawn if there
\* is one besides those that are stored, held in answers and taken along.
LEMMA HandlerApplies ==
    ASSUME TypeOK, OnPage, Settled,
           \A a, b, c, d \in Challenge : \E v \in Verifiers : v \notin {a, b, c, d}
    PROVE  \/ memo.state = "fulfilled"
           \/ memo.state = "rejected" /\ memo.error = "unsignedtos" /\ GrantType = "pkce"
           \/ /\ memo.state = "rejected" /\ memo.error = "token_not_found"
              /\ AutoRedirect /\ FreshVerifiers # {}
           \/ memo.state = "rejected" /\ Unhandled(memo.error)
  <1>1. CASE memo.state = "fulfilled"
    BY <1>1
  <1>2. CASE memo.state = "rejected" /\ memo.error # "token_not_found"
    <2>1. memo.error \in Errors
      BY <1>2, MemoFacts DEF TypeOK
    <2> QED
      BY <1>2, <2>1, SettingsFacts DEF Unhandled, Errors
  <1>3. CASE memo.state = "rejected" /\ memo.error = "token_not_found"
    <2>1. CASE ~AutoRedirect
      BY <1>3, <2>1 DEF Unhandled
    <2>2. CASE AutoRedirect
      <3>1. ASSUME NEW location \in Location
            PROVE  \E a \in Challenge : AnsweredAt(location) \subseteq {a}
        <4>1. NoVerifier \in Challenge
          BY DEF Challenge
        <4>2. CASE location.query.kind = "code"
          <5>1. AnsweredAt(location) = {location.query.code.challenge}
            BY <4>2 DEF AnsweredAt
          <5> QED
            BY <4>2, <5>1, QueryFacts
        <4>3. CASE location.query.kind = "token"
          <5>1. AnsweredAt(location) = {location.query.answers}
            BY <4>3 DEF AnsweredAt
          <5> QED
            BY <4>3, <5>1, QueryFacts
        <4>4. CASE location.query.kind \notin {"code", "token"}
          <5>1. AnsweredAt(location) = {}
            BY <4>4 DEF AnsweredAt
          <5> QED
            BY <4>1, <5>1
        <4> QED
          BY <4>2, <4>3, <4>4
      <3>2. oauthParams \in Challenge /\ NoVerifier \in Challenge
        BY DEF TypeOK, Challenge
      <3>3. PICK b \in Challenge : nav.to \in {"authorize", "tos"} => nav.challenge = b
        <4>1. nav.to \in {"authorize", "tos"} => nav.challenge \in Verifiers
          BY DEF TypeOK, Nav, NoNav
        <4> QED
          BY <3>2, <4>1 DEF Challenge
      <3>4. PICK c \in Challenge : AnsweredAt(url) \subseteq {c}
        BY <3>1 DEF TypeOK
      <3>5. PICK d \in Challenge : redirectPath # NoPath => AnsweredAt(redirectPath) \subseteq {d}
        BY <3>1, <3>2 DEF TypeOK
      <3>6. VerifiersInUse \subseteq {oauthParams, b, c, d}
        BY <1>3, <3>3, <3>4, <3>5 DEF VerifiersInUse
      <3>7. PICK v \in Verifiers : v \notin {oauthParams, b, c, d}
        BY <3>2
      <3>8. v \in FreshVerifiers
        BY <3>6, <3>7 DEF FreshVerifiers
      <3> QED
        BY <1>3, <2>2, <3>8
    <2> QED
      BY <2>1, <2>2, SelfFacts
  <1> QED
    BY <1>1, <1>2, <1>3 DEF Settled

\* The exchange ends, in an answer or an error, unless the page is gone: this is
\* WF_vars(ExchangeAnswered) with its enabling condition written out, for the
\* exchange can fail whenever it is pending.
ExchangeEnds ==
    \/ []<>~(OnPage /\ memo.state = "pending")
    \/ []<><<ExchangeAnswered>>_vars

\* The microtask of call c runs, once the exchange the call waits for is over: this
\* is WF_vars(Resume(c)) with its enabling condition, as HandlerApplies has it,
\* written out.
MicrotaskRuns(c) ==
    \/ []<>~(OnPage /\ calls[c] = "waiting" /\ Settled)
    \/ []<><<Resume(c)>>_vars

\* A waiting call sees the exchange end, and then its microtask.
LEMMA CallSettles ==
    ASSUME NEW c \in Callers
    PROVE  Spec /\ ExchangeEnds /\ MicrotaskRuns(c)
             => (calls[c] = "waiting" ~> calls[c] # "waiting")
  <1> DEFINE Waiting == calls[c] = "waiting"
             Pending == Waiting /\ memo.state = "pending"
             Due == Waiting /\ Settled
  <1>1. TypeOK /\ NoOrphans /\ Waiting => Pending \/ Due
    BY MemoStates DEF TypeOK, NoOrphans
  <1>2. TypeOK /\ NoOrphans /\ Pending => OnPage /\ memo.state = "pending"
    BY DEF NoOrphans
  <1>3. TypeOK /\ NoOrphans /\ Due => OnPage /\ calls[c] = "waiting" /\ Settled
    BY DEF NoOrphans
  <1>4. TypeOK /\ NoOrphans /\ Pending /\ [Next]_vars => Pending' \/ Due' \/ (~Waiting)'
    BY WaitsForExchange, ResumeSettles
  <1>5. TypeOK /\ NoOrphans /\ Pending /\ <<ExchangeAnswered>>_vars => Due' \/ (~Waiting)'
    BY DEF ExchangeAnswered, ExchangeSucceeds, ExchangeNeedsTos, ExchangeFails, Settled
  <1>6. TypeOK /\ NoOrphans /\ Due /\ [Next]_vars => Due' \/ (~Waiting)'
    <2> SUFFICES ASSUME TypeOK, NoOrphans, Due, [Next]_vars, Waiting'
                 PROVE  Settled'
      OBVIOUS
    <2>1. memo' = memo
      BY WaitsForExchange, ResumeSettles DEF Settled
    <2> QED
      BY <2>1 DEF Settled
  <1>7. TypeOK /\ NoOrphans /\ Due /\ <<Resume(c)>>_vars => (~Waiting)'
    BY ResumeSettles
  <1>8. /\ calls[c] = "waiting" <=> Waiting
        /\ calls[c] # "waiting" <=> ~Waiting
    OBVIOUS
  <1> HIDE DEF Waiting, Pending, Due
  <1>9. Spec /\ MicrotaskRuns(c) => (Due ~> ~Waiting)
    BY <1>3, <1>6, <1>7, ClientTypeCorrect, CallsHaveExchange, PTL DEF Spec, MicrotaskRuns
  <1>10. Spec /\ ExchangeEnds => (Pending ~> Due \/ ~Waiting)
    BY <1>2, <1>4, <1>5, ClientTypeCorrect, CallsHaveExchange, PTL DEF Spec, ExchangeEnds
  <1>11. Spec /\ ExchangeEnds /\ MicrotaskRuns(c) => (Waiting ~> ~Waiting)
    BY <1>1, <1>9, <1>10, ClientTypeCorrect, CallsHaveExchange, PTL
  <1> QED
    BY <1>8, <1>11, PTL

\* Every call of getAccessTokenContext returns or throws, unless the page is left
\* first, in both flows, whatever other calls, logins, renewals and clears come in
\* between, if the exchange ends and microtasks run
\* (splunk-auth-client.ts:145-183, 266).
THEOREM Settles ==
    Spec /\ ExchangeEnds /\ (\A c \in Callers : MicrotaskRuns(c)) => CallsSettle
  <1>1. ASSUME NEW c \in Callers
        PROVE  Spec /\ ExchangeEnds /\ (\A d \in Callers : MicrotaskRuns(d))
                 => (calls[c] = "waiting" ~> calls[c] # "waiting")
    <2>1. (\A d \in Callers : MicrotaskRuns(d)) => MicrotaskRuns(c)
      OBVIOUS
    <2> QED
      BY <2>1, CallSettles, PTL
  <1> QED
    BY <1>1 DEF CallsSettle
=============================================================================
