--------------------------- MODULE NodeAuthManager ---------------------------
(***************************************************************************)
(* The auth managers of the Node library, shared by concurrent callers:    *)
(* src/packages/cloud-auth-node/src/{client,refresh,pkce}/*-auth-manager.ts*)
(* over the AuthContext of cloud-auth-common.  The three managers differ in*)
(* the requests a call sends to the auth host: client credentials and      *)
(* refresh send one, PKCE sends four in turn and awaits each.  Nothing      *)
(* keeps two calls from running the sequence at the same time.             *)
(***************************************************************************)
EXTENDS Integers

CONSTANTS
    Callers,       \* concurrent calls of getAccessToken
    Kind,          \* "client", "refresh" or "pkce"
    Buffer,        \* TOKEN_EXPIRY_BUFFER_MILLISECONDS
    Lifetimes,     \* values of expires_in the auth host answers with
    ResponseTime,  \* a request is answered, or fails, within this time
    NoToken,       \* authContext.accessToken is empty
    MaxTime        \* bound: the clock of the model stops here

ASSUME NodeAssumption ==
    /\ Kind \in {"client", "refresh", "pkce"}
    /\ Buffer \in Nat
    /\ Lifetimes \subseteq Nat \ {0}
    /\ ResponseTime \in Nat
    /\ MaxTime \in Nat

\* tokenExpiration is what the manager computes when the answer arrives,
\* validUntil what the auth host granted when it minted the token.
Token == [tokenExpiration: Nat, validUntil: Nat]

ASSUME NoTokenAssumption == NoToken \notin Token

\* The endpoints of the auth host.
Endpoints == {"csrf", "session", "code", "token"}

\* A call that awaits the answer of an endpoint; one that has returned a token
\* valid for another `margin` at the auth host, taken from the context or fetched;
\* one that threw; one not made.  What a PKCE call carries from one request to the
\* next, it keeps in local variables.
Awaiting == [at: Endpoints, sentAt: Nat]
Returned == [at: {"cached", "fetched"}, margin: Int]
Failed == [at |-> "failed"]
Idle == [at |-> "idle"]
Call == Awaiting \cup Returned \cup {Failed, Idle}

VARIABLES
    now,         \* Date.now()
    authContext, \* the manager's token
    calls        \* the callers' calls

nodeVars == <<now, authContext, calls>>

-----------------------------------------------------------------------------
\* Faulty variant: a token is served until it expires, without the buffer.
CachedUntilExpiry ==
    authContext # NoToken /\ authContext.tokenExpiration > now

\* The token of the context is served if it does not expire within the buffer.
Cached == authContext # NoToken /\ authContext.tokenExpiration > now + Buffer

Running(c) == calls[c].at \in Endpoints

-----------------------------------------------------------------------------
\* A request of AuthProxy that has just been sent.
Request(endpoint) == [at |-> endpoint, sentAt |-> now]

\* Client credentials and refresh ask for the token at once.
FirstRequest == IF Kind = "pkce" THEN Request("csrf") ELSE Request("token")

-----------------------------------------------------------------------------
(***************************************************************************)
(* The actions.                                                            *)
(***************************************************************************)

Init ==
    /\ now = 0
    /\ authContext = NoToken
    /\ calls = [c \in Callers |-> Idle]

\* getAccessToken up to its return or its first await.  Incomplete settings make
\* the call throw before it sends anything; the application holds the settings
\* object and may complete or change it between two calls.
GetAccessToken(c) ==
    /\ ~Running(c)
    /\ \/ /\ Cached
          /\ calls' = [calls EXCEPT ![c] =
                [at |-> "cached", margin |-> authContext.validUntil - now]]
       \/ /\ ~Cached
          /\ calls' = [calls EXCEPT ![c] = FirstRequest]
       \/ /\ ~Cached
          /\ calls' = [calls EXCEPT ![c] = Failed]
    /\ UNCHANGED <<now, authContext>>

\* The CSRF token and its cookies are sent on to open a session.
CsrfAnswered(c) ==
    /\ calls[c].at = "csrf"
    /\ calls' = [calls EXCEPT ![c] = Request("session")]
    /\ UNCHANGED <<now, authContext>>

\* A new verifier is drawn and its challenge sent with the session.
SessionAnswered(c) ==
    /\ calls[c].at = "session"
    /\ calls' = [calls EXCEPT ![c] = Request("code")]
    /\ UNCHANGED <<now, authContext>>

\* The code, bound to that challenge, is sent with the verifier.
CodeAnswered(c) ==
    /\ calls[c].at = "code"
    /\ calls' = [calls EXCEPT ![c] = Request("token")]
    /\ UNCHANGED <<now, authContext>>

\* Faulty variant: the expiry counted down from the wrong end.
TokenAnsweredNegated(c) ==
    /\ calls[c].at = "token"
    /\ \E e \in Lifetimes, age \in 0 .. (now - calls[c].sentAt) :
         /\ authContext' = [tokenExpiration |-> e - now,
                            validUntil      |-> now - age + e]
         /\ calls' = [calls EXCEPT ![c] = [at |-> "fetched", margin |-> e - age]]
    /\ UNCHANGED now

\* The token replaces whatever the context holds by then, and is returned.
TokenAnswered(c) ==
    /\ calls[c].at = "token"
    /\ \E e \in Lifetimes, age \in 0 .. (now - calls[c].sentAt) :
         /\ authContext' = [tokenExpiration |-> now + e,
                            validUntil      |-> now - age + e]
         /\ calls' = [calls EXCEPT ![c] = [at |-> "fetched", margin |-> e - age]]
    /\ UNCHANGED now

\* Faulty variant: a refused or lost request starts the sequence again.
RequestFailsRetrying(c) ==
    /\ Running(c)
    /\ calls' = [calls EXCEPT ![c] = FirstRequest]
    /\ UNCHANGED <<now, authContext>>

\* A request is refused or lost: the call throws, the context is kept.
RequestFails(c) ==
    /\ Running(c)
    /\ calls' = [calls EXCEPT ![c] = Failed]
    /\ UNCHANGED <<now, authContext>>

Answered(c) ==
    CsrfAnswered(c) \/ SessionAnswered(c) \/ CodeAnswered(c)
        \/ TokenAnswered(c) \/ RequestFails(c)

Tick ==
    /\ now < MaxTime
    /\ \A c \in Callers : Running(c) => now < calls[c].sentAt + ResponseTime
    /\ now' = now + 1
    /\ UNCHANGED <<authContext, calls>>

Next ==
    \/ \E c \in Callers : GetAccessToken(c) \/ Answered(c)
    \/ Tick

Spec == Init /\ [][Next]_nodeVars

\* Every request is answered or fails.
FairSpec == Spec /\ \A c \in Callers : WF_nodeVars(Answered(c))

-----------------------------------------------------------------------------
\* Type correctness of the context and of the calls.
TypeOK ==
    /\ now \in Nat
    /\ authContext \in Token \cup {NoToken}
    /\ calls \in [Callers -> Call]

\* A token served from the context stays valid at the auth host for longer than
\* the buffer less the time an answer takes, whichever call's answer was the last
\* to arrive; a fetched one for its lifetime less that time
\* (client-auth-manager.ts:81-85, 108; "allow for a 30 second buffer").
ServedTokensLast ==
    \A c \in Callers :
        /\ calls[c].at = "cached" => calls[c].margin > Buffer - ResponseTime
        /\ calls[c].at = "fetched" =>
             \E e \in Lifetimes : calls[c].margin >= e - ResponseTime

\* Every call returns or throws.
CallsReturn == \A c \in Callers : Running(c) ~> ~Running(c)
=============================================================================
