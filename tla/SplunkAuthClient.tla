-------------------------- MODULE SplunkAuthClient --------------------------
(***************************************************************************)
(* One SplunkAuthClient on one browser tab, signing in with the PKCE or the*)
(* implicit flow: src/packages/cloud-auth-client/src/splunk-auth-client.ts *)
(* together with auth/{pkce,implicit}-auth-manager.ts, the token manager of*)
(* module TokenManager, the tab itself and the auth host as the client sees*)
(* it.                                                                     *)
(*                                                                         *)
(* The page is an event loop.  A call that awaits the memoized exchange is *)
(* resumed by a microtask, so every resumption that is due happens before  *)
(* the next timer, answer or navigation (Drained).                         *)
(*                                                                         *)
(* What a sign-in is to its user is stated in module LoginSession, which   *)
(* this module is shown to implement (ImplementsLoginSession).             *)
(***************************************************************************)
EXTENDS TokenManager

CONSTANTS
    Self,           \* the client, the only one on the page
    ClientTenant,   \* tenant given to the constructor, Global when it is ''
    Callers,        \* concurrent calls of getAccessTokenContext
    AutoCaller,     \* the call the constructor schedules, one of Callers
    Routes,         \* paths of the application
    Home,           \* the path of settings.redirectUri, one of Routes
    Verifiers,      \* random strings: PKCE verifiers, or states (implicit)
    NoVerifier,     \* no OAuth parameters in the redirect storage
    AutoRedirect,   \* settings.autoRedirectToLogin
    RestorePath,    \* settings.restorePathAfterLogin
    MaxClockSkew,   \* settings.maxClockSkew
    StorageFails,   \* session storage may be full: writing more to it throws
    MaxCodes        \* bound: codes and implicit tokens the auth host issues

\* The settings the application constructs the client with.
SplunkAuthClientSettings ==
    /\ AutoRedirect \in BOOLEAN
    /\ RestorePath \in BOOLEAN
    /\ MaxClockSkew \in Nat

ASSUME ClientAssumption ==
    /\ SplunkAuthClientSettings
    /\ Clients = {Self}
    /\ ClientTenant \in Slots
    /\ AutoCaller \in Callers
    /\ Home \in Routes
    /\ NoVerifier \notin Verifiers
    /\ StorageFails \in BOOLEAN
    /\ MaxCodes \in Nat

\* What an answer of the auth host was asked with: a verifier's challenge, or
\* that of a login this tab knows nothing of (made in another tab, say).
Challenge == Verifiers \cup {NoVerifier}

\* An authorization code is bound to a challenge and tells whether the user has
\* just accepted the terms of service (accept_tos).
Code == [challenge: Challenge, id: 1 .. MaxCodes, accept: BOOLEAN]

\* The user state a login brings back in its state parameter, and what is stored
\* of it: that of a user who follows an invite, of any other user, or none.  A
\* state parameter may also be unreadable.
UserStates == {"none", "plain", "invited"}
StateParameters == {"plain", "invited", "unreadable"}

\* Classes of error codes getAccessTokenContext tells apart.
Errors == {"token_not_found", "unsignedtos", "other"}

\* The query (PKCE) or hash (implicit) of the page: nothing, an error of the
\* auth host with a code of its own, a code with a state parameter, or a token with
\* the state of the login it answers.
CleanQuery == [kind |-> "clean"]
Query == {CleanQuery}
            \cup [kind: {"error"}, error: Errors \ {"token_not_found"}]
            \cup [kind: {"code"}, code: Code, user: StateParameters]
            \cup [kind: {"token"}, answers: Challenge, expiresIn: Lifetimes,
                  mintedAt: Nat]

Location == [route: Routes, query: Query]
NoPath == [route |-> "none"]

\* Where location.href points when it was assigned and the page not left yet, or
\* where the tab is while it is away.
NoNav == [to |-> "app"]
Nav ==
    {NoNav, [to |-> "logout"]}
        \cup [to: {"authorize"}, challenge: Verifiers]
        \cup [to: {"tos"}, challenge: Verifiers, invited: BOOLEAN]

\* The memoized promise of requestToken.
NoMemo == [state |-> "none"]
Memo ==
    {NoMemo}
        \cup [state: {"pending"}, code: Code, verifier: Verifiers,
              sentAt: Nat, firstUse: BOOLEAN]
        \cup [state: {"fulfilled"}, token: Token]
        \cup [state: {"rejected"}, error: Errors]

\* What a login() was called with: where from, with which verifier, and whether
\* the page then held, or was redeeming, the answer to an earlier login.
LoginRecord == [route: Routes, challenge: Challenge, overlaps: BOOLEAN]

\* A call: not made, waiting for the promise, or settled with a token that was
\* still valid or already expired, with undefined, or with an error.
CallStates == {"idle", "waiting", "valid", "expired", "nothing", "failed"}

VARIABLES
    page,               \* "app", or "away" at the place nav names
    nav,                \* pending navigation
    url,                \* window.location
    oauthParams,        \* session storage: the stored code verifier or state
    userState,          \* session storage: the stored user state
    redirectPath,       \* session storage: location to restore after login
    memo,               \* the client's memoized exchange
    calls,              \* the calls of getAccessTokenContext
    hasRequestedToken,  \* the client's flag of that name
    redirectInProgress, \* the client's flag of that name
    autoPending,        \* the constructor's setTimeout has not run yet
    issued,             \* auth host: number of codes and tokens issued
    presented,          \* auth host: ids of codes it was asked to redeem
    tosSigned,          \* auth host: the user has accepted the terms
    lastLogin           \* history: the login the tab was last sent to

browserVars == <<page, nav, url>>
sessionVars == <<oauthParams, userState, redirectPath, lastLogin>>
callVars    == <<memo, calls, hasRequestedToken, redirectInProgress, autoPending>>
hostVars    == <<issued, presented, tosSigned>>
vars == <<tmVars, browserVars, sessionVars, callVars, hostVars>>

-----------------------------------------------------------------------------
\* Faulty variant: the lifetime of the token is taken for its expiry.
IsAuthenticatedByLifetime ==
    LET token == Lookup(ClientTenant)
    IN  token # NoToken /\ token.expiresIn + MaxClockSkew > now

\* isAuthenticated: the cached token counts as valid until maxClockSkew after
\* its expiry.
IsAuthenticated ==
    LET token == Lookup(ClientTenant)
    IN  token # NoToken /\ token.expiresAt + MaxClockSkew > now

\* What the caller finds when a call resolves to this token.
Outcome(token) ==
    IF token = NoToken THEN "nothing"
    ELSE IF token.expiresAt > now THEN "valid" ELSE "expired"

\* clearWindowLocationFragments: code and state are removed, an error stays.
Cleared(location) ==
    IF location.query.kind \in {"code", "token"}
    THEN [location EXCEPT !.query = CleanQuery]
    ELSE location

\* restorePathAfterLogin, when the setting asks for it: the stored path becomes
\* the location and is dropped.
RestorePathAfterLogin ==
    /\ url' = IF RestorePath /\ redirectPath # NoPath THEN redirectPath ELSE Cleared(url)
    /\ redirectPath' = IF RestorePath THEN NoPath ELSE redirectPath

\* Faulty variant: the block runs although a redirect is in progress.
FinallyDuringRedirect(redirecting) ==
    IF hasRequestedToken
    THEN UNCHANGED <<hasRequestedToken, url, redirectPath>>
    ELSE hasRequestedToken' = TRUE /\ RestorePathAfterLogin

\* The finally block: the first call that ends while no redirect is in progress
\* clears the location and restores the path stored before login.
Finally(redirecting) ==
    IF hasRequestedToken \/ redirecting
    THEN UNCHANGED <<hasRequestedToken, url, redirectPath>>
    ELSE hasRequestedToken' = TRUE /\ RestorePathAfterLogin

\* The challenge, or state, the answer at a location was asked with.
AnsweredAt(location) ==
    CASE location.query.kind = "code"  -> {location.query.code.challenge}
      [] location.query.kind = "token" -> {location.query.answers}
      [] OTHER                         -> {}

\* Verifiers that are stored or that an answer or a navigation is bound to.
VerifiersInUse ==
    {oauthParams}
        \cup (IF nav.to \in {"authorize", "tos"} THEN {nav.challenge} ELSE {})
        \cup AnsweredAt(url)
        \cup (IF redirectPath # NoPath THEN AnsweredAt(redirectPath) ELSE {})
        \cup (IF memo.state = "pending" THEN {memo.verifier, memo.code.challenge} ELSE {})

\* A string that was never drawn before (by its length, with certainty).
FreshVerifiers == Verifiers \ VerifiersInUse

\* The redirect storage holds complete OAuth parameters.
HasStoredParameters == oauthParams # NoVerifier

\* The authorize endpoint's URL: it carries the challenge of a verifier (PKCE) or
\* the state (implicit).
AuthorizeUrl(v) == [to |-> "authorize", challenge |-> v]

\* Faulty variant: a verifier that is still stored is not replaced.
GenerateAuthUrlKeepingVerifier ==
    \E v \in FreshVerifiers :
        /\ oauthParams' = IF oauthParams = NoVerifier THEN v ELSE oauthParams
        /\ nav' = AuthorizeUrl(v)

\* generateAuthUrl, and location.href: a new verifier (or state) is drawn, stored
\* and taken along.
GenerateAuthUrl ==
    \E v \in FreshVerifiers : oauthParams' = v /\ nav' = AuthorizeUrl(v)

\* generateTosUrl takes the stored challenge along again, and the invite.
GenerateTosUrl ==
    /\ HasStoredParameters
    /\ nav' = [to |-> "tos", challenge |-> oauthParams, invited |-> userState = "invited"]

\* generateLogoutUrl forgets the user.
GenerateLogoutUrl ==
    /\ nav' = [to |-> "logout"]
    /\ userState' = "none"

\* storePathBeforeLogin: a failure to store the path is logged and ignored.
StorePathBeforeLogin ==
    \/ redirectPath' = IF RestorePath THEN url ELSE redirectPath
    \/ StorageFails /\ UNCHANGED redirectPath

\* The query or hash of the page offers a code or a token.
CarriesAnswer == url.query.kind \in {"code", "token"}

\* The page holds the answer to a login, or is redeeming it.
Redeeming == CarriesAnswer \/ memo.state = "pending"

\* login(): remember the location, raise the flag and navigate.
Login ==
    /\ StorePathBeforeLogin
    /\ redirectInProgress' = TRUE
    /\ GenerateAuthUrl
    /\ lastLogin' = [route |-> url.route, challenge |-> nav'.challenge, overlaps |-> Redeeming]

\* login() when the verifier cannot be stored: it throws with the flag raised.
LoginThrows ==
    /\ StorageFails
    /\ StorePathBeforeLogin
    /\ redirectInProgress' = TRUE
    /\ UNCHANGED <<oauthParams, nav, lastLogin>>

Rejected(error) == [state |-> "rejected", error |-> error]

\* deleteRedirectOAuthParameters.
DeleteParameters == oauthParams' = NoVerifier

\* The parts of the user state that name an invite are deleted.
DeleteInvite == userState' = IF userState = "invited" THEN "plain" ELSE userState

\* Faulty variant: the invite outlives the exchange.
EndAttemptKeepingInvite == DeleteParameters /\ UNCHANGED userState

\* An exchange that is over, whichever way, leaves nothing of its login behind.
EndAttempt == DeleteParameters /\ DeleteInvite

\* The error that says why there is no code or token.
QueryError == IF url.query.kind = "error" THEN url.query.error ELSE "token_not_found"

\* Without a code or token in the location, or without stored parameters, the
\* promise is rejected and the location stays as it is.
NothingToRedeem ==
    /\ ~CarriesAnswer \/ ~HasStoredParameters
    /\ memo' = Rejected(IF CarriesAnswer THEN "other" ELSE QueryError)
    /\ UNCHANGED <<url, presented, oauthParams, userState>>

\* The request to the token endpoint: the code and the stored verifier.
AccessTokenRequest ==
    [state    |-> "pending",
     code     |-> url.query.code,
     verifier |-> oauthParams,
     sentAt   |-> now,
     firstUse |-> url.query.code.id \notin presented]

\* Faulty variant: the code stays in the location during the exchange.
PresentCodeKeepingLocation ==
    /\ url.query.kind = "code" /\ HasStoredParameters
    /\ memo' = AccessTokenRequest
    /\ presented' = presented \cup {url.query.code.id}
    /\ UNCHANGED <<url, oauthParams, userState>>

\* The user state can be decoded from the state parameter, and stored.
StoresUserState ==
    /\ url.query.user # "unreadable"
    /\ userState' = url.query.user

\* It cannot.
LosesUserState ==
    /\ url.query.user = "unreadable" \/ StorageFails
    /\ UNCHANGED userState

\* PKCE: the code is taken out of the location and presented to the auth host,
\* unless the user state is lost.
PresentCode ==
    /\ url.query.kind = "code" /\ HasStoredParameters
    /\ url' = Cleared(url)
    /\ \/ /\ StoresUserState
          /\ memo' = AccessTokenRequest
          /\ presented' = presented \cup {url.query.code.id}
       \/ /\ LosesUserState
          /\ memo' = Rejected("other")
          /\ UNCHANGED presented
    /\ UNCHANGED oauthParams

\* The token in the location, counted from now.
TokenInLocation ==
    MintedToken(TenantOf[Self], TenantOf[Self], url.query.expiresIn, now,
                now - url.query.mintedAt)

\* Faulty variant: the state of the answer is not compared.
TakeTokenOfAnyLogin ==
    /\ url.query.kind = "token" /\ HasStoredParameters
    /\ url' = Cleared(url)
    /\ memo' = [state |-> "fulfilled", token |-> TokenInLocation]
    /\ DeleteParameters
    /\ UNCHANGED <<presented, userState>>

\* Faulty variant: the state is not deleted once its token is taken.
TakeTokenKeepingState ==
    /\ url.query.kind = "token" /\ HasStoredParameters
    /\ url' = Cleared(url)
    /\ memo' = IF url.query.answers = oauthParams
               THEN [state |-> "fulfilled", token |-> TokenInLocation]
               ELSE Rejected("other")
    /\ UNCHANGED <<oauthParams, presented, userState>>

\* Implicit: the token is taken out of the location, if it answers the login
\* whose state is stored.
TakeToken ==
    /\ url.query.kind = "token" /\ HasStoredParameters
    /\ url' = Cleared(url)
    /\ IF url.query.answers = oauthParams
       THEN /\ memo' = [state |-> "fulfilled", token |-> TokenInLocation]
            /\ DeleteParameters
       ELSE /\ memo' = Rejected("other")
            /\ UNCHANGED oauthParams
    /\ UNCHANGED <<presented, userState>>

\* requestToken: getAccessToken of the auth manager up to its request.
RequestToken == NothingToRedeem \/ PresentCode \/ TakeToken

-----------------------------------------------------------------------------
(***************************************************************************)
(* Calls of getAccessTokenContext.                                         *)
(***************************************************************************)

OnPage == page = "app"

Settled == memo.state \in {"fulfilled", "rejected"}

\* No resumption is due.
Drained == ~ (Settled /\ \E c \in Callers : calls[c] = "waiting")

\* Faulty variant: a call that finds the exchange running does not wait for it
\* but looks for a code itself, finds none and redirects to login.
StartCallNotSharing(c) ==
    /\ OnPage
    /\ calls[c] # "waiting"
    /\ ~IsAuthenticated
    /\ IF memo.state = "pending"
       THEN /\ Login
            /\ calls' = [calls EXCEPT ![c] = "nothing"]
            /\ UNCHANGED <<tmVars, memo, page, url, userState, hasRequestedToken, issued,
                           presented, tosSigned>>
       ELSE /\ calls' = [calls EXCEPT ![c] = "waiting"]
            /\ IF memo = NoMemo THEN RequestToken
               ELSE UNCHANGED <<memo, url, presented, oauthParams, userState>>
            /\ UNCHANGED <<tmVars, page, nav, lastLogin, hasRequestedToken,
                           redirectPath, redirectInProgress, issued, tosSigned>>

\* A call up to its return or to its await.
StartCall(c) ==
    /\ OnPage
    /\ calls[c] # "waiting"
    /\ \/ /\ IsAuthenticated
          /\ calls' = [calls EXCEPT ![c] = Outcome(Lookup(ClientTenant))]
          /\ Finally(redirectInProgress)
          /\ UNCHANGED <<memo, presented, oauthParams, userState>>
       \/ /\ ~IsAuthenticated
          /\ calls' = [calls EXCEPT ![c] = "waiting"]
          /\ IF memo = NoMemo THEN RequestToken
             ELSE UNCHANGED <<memo, url, presented, oauthParams, userState>>
          /\ UNCHANGED <<hasRequestedToken, redirectPath>>
    /\ UNCHANGED <<tmVars, page, nav, lastLogin, redirectInProgress, issued, tosSigned>>

\* The call the constructor made with setTimeout(..., 0).
AutoCall ==
    /\ autoPending
    /\ Drained
    /\ autoPending' = FALSE
    /\ StartCall(AutoCaller)

\* A call of the application.
AppCall(c) ==
    /\ c # AutoCaller
    /\ StartCall(c)
    /\ UNCHANGED autoPending

\* Faulty variant: the token is stored without arming its renewal.
ResumeStoringOnly(c) ==
    /\ memo.state = "fulfilled"
    /\ store' = [store EXCEPT ![memo.token.tenant] = memo.token]
    /\ calls' = [calls EXCEPT ![c] = Outcome(memo.token)]
    /\ Finally(redirectInProgress)
    /\ UNCHANGED <<now, timer, requests, page, nav, oauthParams, userState, lastLogin,
                   redirectInProgress>>

\* After the await: the token is set, and read back from its own slot.
ResumeWithToken(c) ==
    /\ memo.state = "fulfilled"
    /\ SetToken(Self, memo.token)
    /\ calls' = [calls EXCEPT ![c] = Outcome(memo.token)]
    /\ Finally(redirectInProgress)
    /\ UNCHANGED <<now, requests, page, nav, oauthParams, userState, lastLogin,
                   redirectInProgress>>

\* Faulty variant: the redirect to the terms does not raise the flag.
ResumeWithTosUnflagged(c) ==
    /\ GrantType = "pkce"
    /\ memo.state = "rejected" /\ memo.error = "unsignedtos"
    /\ GenerateTosUrl
    /\ calls' = [calls EXCEPT ![c] = "nothing"]
    /\ Finally(redirectInProgress)
    /\ UNCHANGED <<tmVars, page, oauthParams, userState, lastLogin, redirectInProgress>>

\* The catch block, for unsigned terms of service.  generateTosUrl throws when no
\* challenge is stored, which an error left in the location by an earlier login
\* can lead to.
ResumeWithTos(c) ==
    /\ GrantType = "pkce"
    /\ memo.state = "rejected" /\ memo.error = "unsignedtos"
    /\ \/ /\ GenerateTosUrl
          /\ redirectInProgress' = TRUE
          /\ calls' = [calls EXCEPT ![c] = "nothing"]
       \/ /\ ~HasStoredParameters
          /\ UNCHANGED <<nav, redirectInProgress>>
          /\ calls' = [calls EXCEPT ![c] = "failed"]
    /\ Finally(redirectInProgress')
    /\ UNCHANGED <<tmVars, page, oauthParams, userState, lastLogin>>

\* The catch block, when there was no code to redeem: redirect to login.
ResumeWithLogin(c) ==
    /\ memo.state = "rejected" /\ memo.error = "token_not_found"
    /\ AutoRedirect
    /\ \/ Login /\ calls' = [calls EXCEPT ![c] = "nothing"]
       \/ LoginThrows /\ calls' = [calls EXCEPT ![c] = "failed"]
    /\ UNCHANGED <<tmVars, page, url, userState, hasRequestedToken>>

\* Faulty variant: only missing tokens are handled, other errors are swallowed
\* and the promise of the call never settles.
ResumeWithMissingTokenOnly(c) ==
    /\ memo.state = "rejected"
    /\ memo.error = "token_not_found" /\ ~AutoRedirect
    /\ Clear(Self)
    /\ calls' = [calls EXCEPT ![c] = "failed"]
    /\ Finally(redirectInProgress)
    /\ UNCHANGED <<page, nav, oauthParams, userState, lastLogin, redirectInProgress>>

\* Errors that neither the terms of service nor a login can cure.
Unhandled(error) ==
    \/ error = "other"
    \/ error = "unsignedtos" /\ GrantType = "implicit"
    \/ error = "token_not_found" /\ ~AutoRedirect

\* The catch block, otherwise, also when the token could not be stored: clear the
\* cache and throw.
ResumeWithError(c) ==
    /\ \/ memo.state = "fulfilled" /\ StorageFails
       \/ memo.state = "rejected" /\ Unhandled(memo.error)
    /\ Clear(Self)
    /\ calls' = [calls EXCEPT ![c] = "failed"]
    /\ Finally(redirectInProgress)
    /\ UNCHANGED <<page, nav, oauthParams, userState, lastLogin, redirectInProgress>>

Resume(c) ==
    /\ OnPage
    /\ calls[c] = "waiting"
    /\ \/ ResumeWithToken(c)
       \/ ResumeWithTos(c)
       \/ ResumeWithLogin(c)
       \/ ResumeWithError(c)
    /\ UNCHANGED <<memo, autoPending, hostVars>>

-----------------------------------------------------------------------------
(***************************************************************************)
(* The other operations of the client, which the application may call at   *)
(* any time, also while its first call is still pending.                   *)
(***************************************************************************)

AppLogin ==
    /\ OnPage
    /\ Login \/ LoginThrows
    /\ UNCHANGED <<tmVars, page, url, userState, memo, calls, hasRequestedToken,
                   autoPending, hostVars>>

AppLogout ==
    /\ OnPage
    /\ Clear(Self)
    /\ redirectInProgress' = TRUE
    /\ GenerateLogoutUrl
    /\ UNCHANGED <<page, url, oauthParams, redirectPath, lastLogin, memo, calls,
                   hasRequestedToken, autoPending, hostVars>>

AppClear ==
    /\ OnPage
    /\ Clear(Self)
    /\ UNCHANGED <<browserVars, sessionVars, callVars, hostVars>>

-----------------------------------------------------------------------------
(***************************************************************************)
(* The auth host answers the exchange.                                     *)
(***************************************************************************)

\* The verifier is the code's, the code is new, and the terms are accepted.
Redeemable ==
    /\ memo.verifier = memo.code.challenge
    /\ memo.firstUse
    /\ tosSigned \/ memo.code.accept

ExchangeSucceeds ==
    /\ memo.state = "pending" /\ Redeemable
    /\ \E e \in Lifetimes, age \in 0 .. (now - memo.sentAt) :
         memo' = [state |-> "fulfilled",
                  token |-> MintedToken(TenantOf[Self], TenantOf[Self], e, now, age)]
    /\ EndAttempt
    /\ tosSigned' = TRUE

\* The parameters of the redirect are kept for the way back from the terms.
ExchangeNeedsTos ==
    /\ memo.state = "pending"
    /\ ~tosSigned /\ ~memo.code.accept
    /\ memo' = [state |-> "rejected", error |-> "unsignedtos"]
    /\ UNCHANGED <<oauthParams, userState, tosSigned>>

\* Faulty variant: the error carries no code.
ExchangeFailsUncoded ==
    /\ memo.state = "pending"
    /\ memo' = [state |-> "rejected", error |-> "undefined"]
    /\ EndAttempt
    /\ UNCHANGED tosSigned

\* Refused, lost, or answered without a refresh token.
ExchangeFails ==
    /\ memo.state = "pending"
    /\ memo' = [state |-> "rejected", error |-> "other"]
    /\ EndAttempt
    /\ UNCHANGED tosSigned

ExchangeAnswered ==
    /\ OnPage
    /\ ExchangeSucceeds \/ ExchangeNeedsTos \/ ExchangeFails
    /\ UNCHANGED <<tmVars, browserVars, redirectPath, lastLogin, calls,
                   hasRequestedToken, redirectInProgress, autoPending,
                   issued, presented>>

-----------------------------------------------------------------------------
(***************************************************************************)
(* The tab: the page is left, loaded and loaded again.  Session storage    *)
(* survives; the client, its calls and its callbacks do not.               *)
(***************************************************************************)

\* The state of a client that has just been constructed.
NewClient ==
    /\ memo' = NoMemo
    /\ calls' = [c \in Callers |-> "idle"]
    /\ hasRequestedToken' = FALSE
    /\ redirectInProgress' = FALSE

Leave ==
    /\ OnPage
    /\ Drained
    /\ nav # NoNav
    /\ page' = "away"
    /\ NewClient
    /\ autoPending' = FALSE
    /\ Reload
    /\ UNCHANGED <<nav, url, sessionVars, hostVars>>

Land(location) ==
    /\ page' = "app"
    /\ nav' = NoNav
    /\ url' = location
    /\ NewClient
    /\ autoPending' = AutoRedirect
    /\ UNCHANGED sessionVars

\* The user signs in, or accepts the terms: the auth host issues a code for the
\* challenge of the authorize or terms request, or of another login.
ReturnWithCode ==
    /\ GrantType = "pkce"
    /\ page = "away"
    /\ nav.to \in {"authorize", "tos"}
    /\ issued < MaxCodes
    /\ issued' = issued + 1
    /\ \E user \in StateParameters, challenge \in {nav.challenge, NoVerifier} :
         Land([route |-> Home,
               query |-> [kind |-> "code", user |-> user,
                          code |-> [challenge |-> challenge,
                                    id        |-> issued + 1,
                                    accept    |-> nav.to = "tos"]]])
    /\ UNCHANGED <<tmVars, presented, tosSigned>>

\* The user signs in and the auth host answers with a token.
ReturnWithToken ==
    /\ GrantType = "implicit"
    /\ page = "away"
    /\ nav.to = "authorize"
    /\ issued < MaxCodes
    /\ issued' = issued + 1
    /\ \E e \in Lifetimes, challenge \in {nav.challenge, NoVerifier} :
         Land([route |-> Home,
               query |-> [kind |-> "token", answers |-> challenge,
                          expiresIn |-> e, mintedAt |-> now]])
    /\ UNCHANGED <<tmVars, presented, tosSigned>>

ReturnWithError ==
    /\ page = "away"
    /\ nav.to \in {"authorize", "tos"}
    /\ \E error \in Errors \ {"token_not_found"} :
         Land([route |-> Home, query |-> [kind |-> "error", error |-> error]])
    /\ UNCHANGED <<tmVars, hostVars>>

\* After logout, or when the user gives up and opens the application again.
ReturnClean ==
    /\ page = "away"
    /\ \E route \in Routes : Land([route |-> route, query |-> CleanQuery])
    /\ UNCHANGED <<tmVars, hostVars>>

ReloadPage ==
    /\ OnPage
    /\ Drained
    /\ Land(url)
    /\ Reload
    /\ UNCHANGED hostVars

-----------------------------------------------------------------------------
\* Timers and answers of the token manager are tasks of the page.
RenewalTask ==
    /\ OnPage
    /\ Drained
    /\ \/ TimerFires(Self)
       \/ \E r \in requests : RefreshSucceeds(r) \/ RefreshFails(r)
    /\ UNCHANGED <<browserVars, sessionVars, callVars, hostVars>>

TimePasses ==
    /\ Drained
    /\ memo.state = "pending" => now < memo.sentAt + ResponseTime
    /\ Tick
    /\ UNCHANGED <<browserVars, sessionVars, callVars, hostVars>>

Init ==
    /\ TMInit
    /\ page = "app"
    /\ nav = NoNav
    /\ url \in [route: Routes, query: {CleanQuery}]
    /\ oauthParams = NoVerifier
    /\ userState = "none"
    /\ redirectPath = NoPath
    /\ lastLogin = [route |-> url.route, challenge |-> NoVerifier, overlaps |-> FALSE]
    /\ memo = NoMemo
    /\ calls = [c \in Callers |-> "idle"]
    /\ hasRequestedToken = FALSE
    /\ redirectInProgress = FALSE
    /\ autoPending = AutoRedirect
    /\ issued = 0
    /\ presented = {}
    /\ tosSigned \in BOOLEAN

Next ==
    \/ AutoCall
    \/ \E c \in Callers : AppCall(c) \/ Resume(c)
    \/ AppLogin \/ AppLogout \/ AppClear
    \/ ExchangeAnswered
    \/ Leave \/ ReturnWithCode \/ ReturnWithToken \/ ReturnWithError \/ ReturnClean \/ ReloadPage
    \/ RenewalTask
    \/ TimePasses

Spec == Init /\ [][Next]_vars

\* Answers arrive or fail, and microtasks run, in the end.
FairSpec ==
    /\ Spec
    /\ \A c \in Callers : WF_vars(Resume(c))
    /\ WF_vars(ExchangeAnswered)

-----------------------------------------------------------------------------
(***************************************************************************)
(* What the client promises.                                               *)
(***************************************************************************)

\* Type correctness of the tab, the session storage, the client and the host.
TypeOK ==
    /\ TMTypeOK
    /\ page \in {"app", "away"}
    /\ nav \in Nav
    /\ url \in Location
    /\ oauthParams \in Verifiers \cup {NoVerifier}
    /\ userState \in UserStates
    /\ redirectPath \in Location \cup {NoPath}
    /\ lastLogin \in LoginRecord
    /\ memo \in Memo
    /\ calls \in [Callers -> CallStates]
    /\ hasRequestedToken \in BOOLEAN
    /\ redirectInProgress \in BOOLEAN
    /\ autoPending \in BOOLEAN
    /\ issued \in 0 .. MaxCodes
    /\ presented \subseteq 1 .. MaxCodes
    /\ tosSigned \in BOOLEAN

\* Whatever calls, logins, detours and reloads come in between, a tab that is
\* sent to the auth host has stored the verifier of the challenge it takes along,
\* unless that login() was called while the page held or redeemed the answer to
\* another one; then it may have lost its verifier, but never for that of another
\* login.  The exchange presents it, and with a code it belongs to
\* (pkce-auth-manager.ts:196, 236-247, 302-307, 335-361).
VerifierMatchesChallenge ==
    /\ nav.to = "tos" => oauthParams = nav.challenge
    /\ nav.to = "authorize" =>
         \/ oauthParams = nav.challenge
         \/ lastLogin.overlaps /\ oauthParams = NoVerifier
    /\ memo.state = "pending" /\ ~redirectInProgress =>
         /\ oauthParams = memo.verifier
         /\ \/ memo.code.challenge \in {memo.verifier, NoVerifier}
            \/ lastLogin.overlaps \/ StorageFails

\* A sign-in answers the login this tab started last, whatever the auth host or
\* another tab sends to it, unless the tab is on its way to yet another login
\* (implicit-auth-manager.ts:135-137, pkce-auth-manager.ts:220-227, 302-307).
SignInAnswersLogin ==
    [][memo.state # "fulfilled" /\ memo'.state = "fulfilled" /\ ~redirectInProgress
         => lastLogin.challenge = IF memo.state = "pending" THEN memo.code.challenge
                                  ELSE url.query.answers]_vars

\* No code is presented again with the verifier it can be redeemed with: neither
\* by concurrent calls nor by a page that is loaded again in the middle of the
\* exchange (splunk-auth-client.ts:266, pkce-auth-manager.ts:198).
CodePresentedOnce ==
    memo.state = "pending" /\ memo.verifier = memo.code.challenge => memo.firstUse

\* After a sign-in the user is back at the path the login was started from, also
\* when accepting the terms took the tab away in between
\* (splunk-auth-client.ts:174-180, 215-218, 272-294).
PathRestoredAfterLogin ==
    RestorePath /\ memo.state = "fulfilled" /\ hasRequestedToken
        => url.route = lastLogin.route

\* While the exchange is in flight no call sends the tab away, however many calls
\* there are: only the application's own login() and logout() do
\* (splunk-auth-client.ts:145, 158-165, 266).
NoLoginDuringExchange ==
    [][memo.state = "pending" /\ nav' \notin {nav, NoNav} => AppLogin \/ AppLogout]_vars

\* The flag that keeps the first call from clearing the location and restoring
\* the path is up exactly while a navigation is pending, unless login() throws
\* (splunk-auth-client.ts:174-180, 219, 229, 251).
FlagMeansRedirect ==
    ~StorageFails => (redirectInProgress <=> OnPage /\ nav # NoNav)

\* No call redirects to login while the cache holds a token that has not expired
\* (splunk-auth-client.ts:130: "If a token has been cached in the TokenManager and
\* is still valid, this method returns the cached AccessToken";
\* splunk-auth-client-settings.ts:151-152: "(now > actualExpiration - maxClockSkew)
\* will be considered expired").  The code may take it for valid longer than that.
NoNeedlessLogin ==
    [][\A c \in Callers :
         Resume(c) /\ nav' # nav /\ nav'.to = "authorize"
            => \A s \in Slots :
                 store[s] # NoToken => store[s].expiresAt - MaxClockSkew <= now]_vars

\* The client uses the token manager as module TokenManager assumes, so what is
\* proved there holds here.
UsesTokenManager == TMSpec

\* What became of the exchange, as the user sees it.
Exchange ==
    CASE memo.state = "none"      -> "none"
      [] memo.state = "pending"   -> "pending"
      [] memo.state = "fulfilled" -> "granted"
      [] memo.state = "rejected"  ->
            IF memo.error = "unsignedtos" THEN "terms" ELSE "refused"

Session ==
    INSTANCE LoginSession WITH
        Attempts  <- Verifiers,
        NoAttempt <- NoVerifier,
        place     <- nav,
        attempt   <- oauthParams,
        invite    <- userState = "invited",
        exchange  <- Exchange

\* Whatever calls, logins, resumptions and reloads interleave, the tab goes through
\* a login as LoginSession says: no page redeems twice or without an attempt, the
\* terms are accepted for the attempt and the invite the tab holds, and an exchange
\* that has ended leaves neither behind
\* (splunk-auth-client.ts:145-168, 215-233, pkce-auth-manager.ts:234-249, 335-368).
ImplementsLoginSession == Session!Spec

\* Every call settles, unless the page is left first.
CallsSettle == \A c \in Callers : calls[c] = "waiting" ~> calls[c] # "waiting"

\* "If a token is not cached or is expired this method will attempt to retrieve,
\* cache and return an AccessToken from the Auth Host"
\* (splunk-auth-client.ts:131-132): no call returns an expired token.
NoExpiredToken == \A c \in Callers : calls[c] # "expired"

\* "Clear any tokens saved to sessionStorage" (splunk-auth-client.ts:225): the
\* storage holds no token when the tab has left for the logout page.
LogoutLeavesNoToken ==
    page = "away" /\ nav.to = "logout" => store = EmptyStore

\* "If they have an existing session, or after they log in, they will be redirected
\* back [...] and any tokens returned will be parsed"
\* (splunk-auth-client.ts:210-212): the tab that has left to log in has kept what
\* the answer is redeemed with.
LoginCanBeAnswered ==
    page = "away" /\ nav.to = "authorize" => oauthParams = nav.challenge
=============================================================================
