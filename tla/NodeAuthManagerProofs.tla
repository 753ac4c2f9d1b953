------------------------ MODULE NodeAuthManagerProofs ------------------------
(***************************************************************************)
(* Proofs about NodeAuthManager, for any number of callers, any kind of    *)
(* manager, any buffer, lifetimes and response time.                       *)
(***************************************************************************)
EXTENDS NodeAuthManager, TLAPS

-----------------------------------------------------------------------------
(***************************************************************************)
(* The inductive invariant.                                                *)
(***************************************************************************)

\* A request in flight was sent in the past, and not longer ago than the auth
\* host takes to answer.
RequestsInv ==
    \A c \in Callers :
        Running(c) => /\ calls[c].sentAt <= now
                      /\ now <= calls[c].sentAt + ResponseTime

\* The expiry the manager computed is late by at most the response time, and lies
\* no further ahead than some lifetime.
ContextInv ==
    authContext # NoToken =>
        /\ authContext.validUntil >= authContext.tokenExpiration - ResponseTime
        /\ \E e \in Lifetimes : authContext.tokenExpiration <= now + e

NodeInv ==
    /\ TypeOK
    /\ RequestsInv
    /\ ContextInv
    /\ ServedTokensLast

\* A call at an endpoint has the record of a call that awaits an answer.
LEMMA RunningIsAwaiting ==
    ASSUME TypeOK, NEW c \in Callers, Running(c)
    PROVE  calls[c] \in Awaiting
<1>1. calls[c] \in Call
  BY DEF TypeOK
<1>2. calls[c] \notin Returned
  BY DEF Running, Endpoints, Returned
<1>3. calls[c] # Failed /\ calls[c] # Idle
  BY DEF Running, Endpoints, Failed, Idle
<1> QED
  BY <1>1, <1>2, <1>3 DEF Call

\* A step that gives one call a new record, and changes nothing else of the
\* calls, keeps their type if the record has it.
LEMMA OneCallChanges ==
    ASSUME TypeOK, NEW c \in Callers, NEW r \in Call,
           calls' = [calls EXCEPT ![c] = r]
    PROVE  /\ calls' \in [Callers -> Call]
           /\ calls'[c] = r
           /\ \A d \in Callers \ {c} : calls'[d] = calls[d]
  BY DEF TypeOK

\* The record of a call that starts.
LEMMA FirstRequestFacts ==
    ASSUME now \in Nat
    PROVE  /\ FirstRequest \in Awaiting
           /\ FirstRequest.sentAt = now
           /\ FirstRequest.at = IF Kind = "pkce" THEN "csrf" ELSE "token"
  BY NodeAssumption
     DEF FirstRequest, Request, Awaiting, Endpoints

\* What an answer other than the last one makes of a call's record.
LEMMA StepFacts ==
    ASSUME TypeOK, NEW c \in Callers,
           CsrfAnswered(c) \/ SessionAnswered(c) \/ CodeAnswered(c)
    PROVE  \E r \in Awaiting : /\ calls' = [calls EXCEPT ![c] = r]
                               /\ r.sentAt = now
<1>1. now \in Nat
  BY DEF TypeOK
<1>2. \A endpoint \in Endpoints :
         Request(endpoint) \in Awaiting /\ Request(endpoint).sentAt = now
  BY <1>1 DEF Request, Awaiting
<1>3. \E endpoint \in Endpoints : calls' = [calls EXCEPT ![c] = Request(endpoint)]
  BY DEF CsrfAnswered, SessionAnswered, CodeAnswered, Endpoints
<1> QED
  BY <1>2, <1>3

-----------------------------------------------------------------------------
(***************************************************************************)
(* Every action preserves the invariant.                                   *)
(***************************************************************************)

LEMMA InitInv == Init => NodeInv
<1> SUFFICES ASSUME Init
             PROVE  NodeInv
  OBVIOUS
<1>1. \A c \in Callers : calls[c] = Idle /\ ~Running(c)
  BY DEF Init, Running, Idle, Endpoints
<1>2. TypeOK
  BY DEF Init, TypeOK, Call
<1>3. RequestsInv /\ ContextInv
  BY <1>1 DEF Init, RequestsInv, ContextInv
<1>4. ServedTokensLast
  <2>1. Idle.at = "idle"
    BY DEF Idle
  <2>2. \A c \in Callers : calls[c].at = "idle"
    BY <1>1, <2>1
  <2> QED
    BY <2>2 DEF ServedTokensLast
<1> QED
  BY <1>2, <1>3, <1>4 DEF NodeInv

\* A call that gets a record with a request just sent, or that throws, disturbs
\* nothing: this covers the start of a call, every answer but the last, and
\* failures.
LEMMA SendOrThrow ==
    ASSUME NodeInv, NEW c \in Callers,
           NEW r \in Call,
           calls' = [calls EXCEPT ![c] = r],
           \/ r = Failed
           \/ r \in Awaiting /\ r.sentAt = now,
           UNCHANGED <<now, authContext>>
    PROVE  NodeInv'
<1>1. /\ calls' \in [Callers -> Call]
      /\ calls'[c] = r
      /\ \A d \in Callers \ {c} : calls'[d] = calls[d]
  BY OneCallChanges DEF NodeInv
<1>2. TypeOK'
  BY <1>1 DEF NodeInv, TypeOK
<1>3. now \in Nat /\ ResponseTime \in Nat
  BY NodeAssumption DEF NodeInv, TypeOK
<1>4. RequestsInv'
  <2> SUFFICES ASSUME NEW d \in Callers, Running(d)'
               PROVE  calls'[d].sentAt <= now /\ now <= calls'[d].sentAt + ResponseTime
    BY DEF RequestsInv
  <2>1. CASE d = c
    <3>1. r # Failed
      BY <2>1, <1>1 DEF Running, Failed, Endpoints
    <3> QED
      BY <2>1, <3>1, <1>1, <1>3
  <2>2. CASE d # c
    BY <2>2, <1>1 DEF NodeInv, RequestsInv, Running
  <2> QED
    BY <2>1, <2>2
<1>5. ContextInv'
  BY DEF NodeInv, ContextInv
<1>6. ServedTokensLast'
  <2>1. r.at # "cached" /\ r.at # "fetched"
    BY DEF Failed, Awaiting, Endpoints
  <2> QED
    BY <2>1, <1>1 DEF NodeInv, ServedTokensLast
<1> QED
  BY <1>2, <1>4, <1>5, <1>6 DEF NodeInv

LEMMA GetAccessTokenInv ==
    ASSUME NodeInv, NEW c \in Callers, GetAccessToken(c)
    PROVE  NodeInv'
<1>1. /\ UNCHANGED <<now, authContext>>
      /\ now \in Nat
      /\ Buffer \in Nat /\ ResponseTime \in Nat
  BY NodeAssumption DEF GetAccessToken, NodeInv, TypeOK
<1>2. CASE Cached /\ calls' = [calls EXCEPT ![c] =
              [at |-> "cached", margin |-> authContext.validUntil - now]]
  <2> DEFINE r == [at |-> "cached", margin |-> authContext.validUntil - now]
  <2>1. /\ authContext \in Token
        /\ authContext.validUntil \in Nat
        /\ authContext.tokenExpiration \in Nat
    BY <1>2 DEF NodeInv, TypeOK, Cached, Token
  <2>2. r.margin > Buffer - ResponseTime
    BY <1>1, <1>2, <2>1 DEF NodeInv, ContextInv, Cached
  <2>3. r \in Call
    BY <1>1, <2>1 DEF Call, Returned
  <2>4. /\ calls' \in [Callers -> Call]
        /\ calls'[c] = r
        /\ \A d \in Callers \ {c} : calls'[d] = calls[d]
    BY <1>2, <2>3, OneCallChanges DEF NodeInv
  <2>5. ~Running(c)'
    BY <2>4 DEF Running, Endpoints
  <2>6. TypeOK' /\ ContextInv'
    BY <1>1, <2>4 DEF NodeInv, TypeOK, ContextInv
  <2>7. RequestsInv'
    BY <1>1, <2>4, <2>5 DEF NodeInv, RequestsInv, Running
  <2>8. ServedTokensLast'
    BY <2>2, <2>4 DEF NodeInv, ServedTokensLast
  <2> QED
    BY <2>6, <2>7, <2>8 DEF NodeInv
<1>3. CASE calls' = [calls EXCEPT ![c] = FirstRequest]
  <2>1. FirstRequest \in Awaiting /\ FirstRequest.sentAt = now
    BY <1>1, FirstRequestFacts
  <2> QED
    BY <1>1, <1>3, <2>1, SendOrThrow DEF Call
<1>4. CASE calls' = [calls EXCEPT ![c] = Failed]
  BY <1>1, <1>4, SendOrThrow DEF Call
<1> QED
  BY <1>2, <1>3, <1>4 DEF GetAccessToken

LEMMA TokenAnsweredInv ==
    ASSUME NodeInv, NEW c \in Callers, TokenAnswered(c)
    PROVE  NodeInv'
<1>1. Running(c)
  BY DEF TokenAnswered, Running, Endpoints
<1>2. calls[c].sentAt \in Nat /\ calls[c].sentAt <= now
      /\ now <= calls[c].sentAt + ResponseTime /\ now \in Nat /\ ResponseTime \in Nat
  BY <1>1, RunningIsAwaiting, NodeAssumption
     DEF NodeInv, TypeOK, RequestsInv, Awaiting
<1>3. PICK e \in Lifetimes, age \in 0 .. (now - calls[c].sentAt) :
         /\ authContext' = [tokenExpiration |-> now + e,
                            validUntil      |-> now - age + e]
         /\ calls' = [calls EXCEPT ![c] = [at |-> "fetched", margin |-> e - age]]
  BY DEF TokenAnswered
<1>4. now' = now /\ e \in Nat /\ age \in Nat /\ age <= ResponseTime /\ age <= now
  BY <1>2, <1>3, NodeAssumption DEF TokenAnswered
<1> DEFINE r == [at |-> "fetched", margin |-> e - age]
<1>5. r \in Call
  BY <1>4 DEF Call, Returned
<1>6. /\ calls' \in [Callers -> Call]
      /\ calls'[c] = r
      /\ \A d \in Callers \ {c} : calls'[d] = calls[d]
  BY <1>3, <1>5, OneCallChanges DEF NodeInv
<1>7. ~Running(c)'
  BY <1>6 DEF Running, Endpoints
<1>8. authContext' \in Token
  BY <1>2, <1>3, <1>4 DEF Token
<1>9. TypeOK'
  BY <1>2, <1>4, <1>6, <1>8 DEF TypeOK
<1>10. RequestsInv'
  BY <1>4, <1>6, <1>7 DEF NodeInv, RequestsInv, Running
<1>11. ContextInv'
  <2>1. /\ authContext'.validUntil = now - age + e
        /\ authContext'.tokenExpiration = now + e
    BY <1>3
  <2>2. authContext'.validUntil >= authContext'.tokenExpiration - ResponseTime
    BY <1>2, <1>4, <2>1
  <2>3. authContext'.tokenExpiration <= now' + e
    BY <1>2, <1>4, <2>1
  <2> QED
    BY <2>2, <2>3 DEF ContextInv
<1>12. ServedTokensLast'
  <2>1. r.margin >= e - ResponseTime /\ r.at = "fetched"
    BY <1>2, <1>4
  <2> QED
    BY <2>1, <1>6 DEF NodeInv, ServedTokensLast
<1> QED
  BY <1>9, <1>10, <1>11, <1>12 DEF NodeInv

LEMMA TickInv ==
    ASSUME NodeInv, Tick
    PROVE  NodeInv'
<1>1. now' = now + 1 /\ UNCHANGED <<authContext, calls>> /\ now \in Nat
  BY DEF NodeInv, TypeOK, Tick
<1>2. TypeOK' /\ ServedTokensLast'
  BY <1>1 DEF NodeInv, TypeOK, ServedTokensLast
<1>3. RequestsInv'
  <2> SUFFICES ASSUME NEW c \in Callers, Running(c)
               PROVE  calls[c].sentAt <= now + 1 /\ now + 1 <= calls[c].sentAt + ResponseTime
    BY <1>1 DEF RequestsInv, Running
  <2>1. calls[c].sentAt \in Nat
    BY RunningIsAwaiting DEF NodeInv, Awaiting
  <2>2. calls[c].sentAt <= now /\ now < calls[c].sentAt + ResponseTime
    BY DEF NodeInv, RequestsInv, Tick
  <2> QED
    BY <1>1, <2>1, <2>2, NodeAssumption
<1>4. ContextInv'
  <2> SUFFICES ASSUME authContext # NoToken
               PROVE  /\ authContext.validUntil >= authContext.tokenExpiration - ResponseTime
                      /\ \E e \in Lifetimes : authContext.tokenExpiration <= now + 1 + e
    BY <1>1 DEF ContextInv
  <2>1. authContext.tokenExpiration \in Nat
    BY DEF NodeInv, TypeOK, Token
  <2>2. PICK e \in Lifetimes : authContext.tokenExpiration <= now + e
    BY DEF NodeInv, ContextInv
  <2>3. e \in Nat
    BY NodeAssumption
  <2>4. authContext.tokenExpiration <= now + 1 + e
    BY <1>1, <2>1, <2>2, <2>3
  <2> QED
    BY <2>4 DEF NodeInv, ContextInv
<1> QED
  BY <1>2, <1>3, <1>4 DEF NodeInv

LEMMA NextInv == NodeInv /\ [Next]_nodeVars => NodeInv'
<1> SUFFICES ASSUME NodeInv, [Next]_nodeVars
             PROVE  NodeInv'
  OBVIOUS
<1>1. ASSUME NEW c \in Callers, GetAccessToken(c)
      PROVE  NodeInv'
  BY <1>1, GetAccessTokenInv
<1>2. ASSUME NEW c \in Callers, CsrfAnswered(c) \/ SessionAnswered(c) \/ CodeAnswered(c)
      PROVE  NodeInv'
  <2>1. PICK r \in Awaiting : calls' = [calls EXCEPT ![c] = r] /\ r.sentAt = now
    BY <1>2, StepFacts DEF NodeInv
  <2>2. UNCHANGED <<now, authContext>>
    BY <1>2 DEF CsrfAnswered, SessionAnswered, CodeAnswered
  <2> QED
    BY <2>1, <2>2, SendOrThrow DEF Call
<1>3. ASSUME NEW c \in Callers, TokenAnswered(c)
      PROVE  NodeInv'
  BY <1>3, TokenAnsweredInv
<1>4. ASSUME NEW c \in Callers, RequestFails(c)
      PROVE  NodeInv'
  BY <1>4, SendOrThrow DEF RequestFails, Call
<1>5. CASE Tick
  BY <1>5, TickInv
<1>6. CASE UNCHANGED nodeVars
  BY <1>6 DEF nodeVars, NodeInv, TypeOK, RequestsInv, ContextInv, ServedTokensLast, Running
<1> QED
  BY <1>1, <1>2, <1>3, <1>4, <1>5, <1>6 DEF Next, Answered

-----------------------------------------------------------------------------
(***************************************************************************)
(* The theorems.                                                           *)
(***************************************************************************)

\* NodeInv is an invariant of every manager.
THEOREM Invariant == Spec => []NodeInv
<1>1. Init => NodeInv
  BY InitInv
<1>2. NodeInv /\ [Next]_nodeVars => NodeInv'
  BY NextInv
<1> QED
  BY <1>1, <1>2, PTL DEF Spec

\* The context and the calls are well typed (auth-context and local variables of
\* getAccessToken in the three managers).
THEOREM TypeCorrect == Spec => []TypeOK
<1>1. NodeInv => TypeOK
  BY DEF NodeInv
<1> QED
  BY <1>1, Invariant, PTL

\* A served token stays valid at the auth host for the buffer less the time an
\* answer takes, whichever answers overtook each other
\* (client-auth-manager.ts:81-85, 108).
THEOREM ServedLast == Spec => []ServedTokensLast
<1>1. NodeInv => ServedTokensLast
  BY DEF NodeInv
<1> QED
  BY <1>1, Invariant, PTL

-----------------------------------------------------------------------------
(***************************************************************************)
(* Every call returns.                                                     *)
(***************************************************************************)

\* Whatever endpoint a running call awaits, its request can fail, which changes
\* the call; no answer comes to a call that awaits none.
LEMMA AnswerPossible ==
    ASSUME TypeOK, NEW c \in Callers
    PROVE  /\ Running(c) => [calls EXCEPT ![c] = Failed] # calls
           /\ ~Running(c) => ~Answered(c)
<1>1. Failed.at \notin Endpoints
  BY DEF Failed, Endpoints
<1>2. Running(c) => [calls EXCEPT ![c] = Failed] # calls
  BY <1>1 DEF TypeOK, Running
<1>3. ~Running(c) => ~Answered(c)
  BY DEF Answered, CsrfAnswered, SessionAnswered, CodeAnswered, TokenAnswered,
             RequestFails, Running, Endpoints
<1> QED
  BY <1>2, <1>3

\* The requests of call c are answered or fail: this is WF_nodeVars(Answered(c))
\* with its enabling condition, which is Running(c) by AnswerPossible, written out.
RequestEnds(c) == []<>~Running(c) \/ []<><<Answered(c)>>_nodeVars

\* Other calls and the clock leave a call that awaits an answer as it is.
LEMMA AwaitsUntilAnswered ==
    ASSUME TypeOK, [Next]_nodeVars, NEW c \in Callers, Running(c), ~Answered(c)
    PROVE  calls'[c] = calls[c]
<1>1. CASE \E d \in Callers : GetAccessToken(d)
  BY <1>1 DEF GetAccessToken, TypeOK
<1>2. CASE \E d \in Callers : Answered(d)
  <2>1. PICK d \in Callers : Answered(d)
    BY <1>2
  <2>2. d # c
    BY <2>1
  <2> QED
    BY <2>1, <2>2 DEF Answered, CsrfAnswered, SessionAnswered, CodeAnswered, TokenAnswered,
             RequestFails, TypeOK
<1>3. CASE Tick
  BY <1>3 DEF Tick
<1>4. CASE UNCHANGED nodeVars
  BY <1>4 DEF nodeVars
<1> QED
  BY <1>1, <1>2, <1>3, <1>4 DEF Next

\* An answer takes a call to its next request, or ends it.
LEMMA AnswerMovesOn ==
    ASSUME TypeOK, NEW c \in Callers, Answered(c)
    PROVE  /\ calls[c].at = "csrf" => calls'[c].at = "session" \/ ~Running(c)'
           /\ calls[c].at = "session" => calls'[c].at = "code" \/ ~Running(c)'
           /\ calls[c].at = "code" => calls'[c].at = "token" \/ ~Running(c)'
           /\ calls[c].at = "token" => ~Running(c)'
<1>1. Running(c)
  BY AnswerPossible
<1>2. calls[c] \in Awaiting
  BY <1>1, RunningIsAwaiting
<1>3. CASE CsrfAnswered(c)
  BY <1>2, <1>3 DEF CsrfAnswered, Request, TypeOK, Awaiting
<1>4. CASE SessionAnswered(c)
  BY <1>2, <1>4 DEF SessionAnswered, Request, TypeOK, Awaiting
<1>5. CASE CodeAnswered(c)
  BY <1>2, <1>5 DEF CodeAnswered, Request, TypeOK, Awaiting
<1>6. CASE TokenAnswered(c)
  BY <1>6 DEF TokenAnswered, TypeOK, Running, Endpoints
<1>7. CASE RequestFails(c)
  BY <1>7 DEF RequestFails, TypeOK, Running, Endpoints, Failed
<1> QED
  BY <1>3, <1>4, <1>5, <1>6, <1>7 DEF Answered

\* A call whose requests end goes through the endpoints that are left to it, one
\* after the other.
LEMMA CallReturns ==
    ASSUME NEW c \in Callers
    PROVE  Spec /\ RequestEnds(c) => (Running(c) ~> ~Running(c))
<1> DEFINE At(endpoint) == calls[c].at = endpoint
<1>1. TypeOK /\ At("token") /\ [Next]_nodeVars => At("token")' \/ (~Running(c))'
  BY AwaitsUntilAnswered, AnswerMovesOn DEF Running, Endpoints
<1>2. TypeOK /\ At("token") /\ <<Answered(c)>>_nodeVars => (~Running(c))'
  BY AnswerMovesOn
<1>3. TypeOK /\ At("code") /\ [Next]_nodeVars
         => At("code")' \/ At("token")' \/ (~Running(c))'
  BY AwaitsUntilAnswered, AnswerMovesOn DEF Running, Endpoints
<1>4. TypeOK /\ At("code") /\ <<Answered(c)>>_nodeVars => At("token")' \/ (~Running(c))'
  BY AnswerMovesOn
<1>5. TypeOK /\ At("session") /\ [Next]_nodeVars
         => At("session")' \/ At("code")' \/ (~Running(c))'
  BY AwaitsUntilAnswered, AnswerMovesOn DEF Running, Endpoints
<1>6. TypeOK /\ At("session") /\ <<Answered(c)>>_nodeVars => At("code")' \/ (~Running(c))'
  BY AnswerMovesOn
<1>7. TypeOK /\ At("csrf") /\ [Next]_nodeVars
         => At("csrf")' \/ At("session")' \/ (~Running(c))'
  BY AwaitsUntilAnswered, AnswerMovesOn DEF Running, Endpoints
<1>8. TypeOK /\ At("csrf") /\ <<Answered(c)>>_nodeVars => At("session")' \/ (~Running(c))'
  BY AnswerMovesOn
<1>9. Running(c) <=> At("csrf") \/ At("session") \/ At("code") \/ At("token")
  BY DEF Running, Endpoints
<1> HIDE DEF At
<1>10. Spec /\ RequestEnds(c) => (At("token") ~> ~Running(c))
  BY <1>1, <1>2, <1>9, TypeCorrect, PTL DEF Spec, RequestEnds
<1>11. Spec /\ RequestEnds(c) => (At("code") ~> At("token") \/ ~Running(c))
  BY <1>3, <1>4, <1>9, TypeCorrect, PTL DEF Spec, RequestEnds
<1>12. Spec /\ RequestEnds(c) => (At("session") ~> At("code") \/ ~Running(c))
  BY <1>5, <1>6, <1>9, TypeCorrect, PTL DEF Spec, RequestEnds
<1>13. Spec /\ RequestEnds(c) => (At("csrf") ~> At("session") \/ ~Running(c))
  BY <1>7, <1>8, <1>9, TypeCorrect, PTL DEF Spec, RequestEnds
<1> QED
  BY <1>9, <1>10, <1>11, <1>12, <1>13, PTL

\* Every call returns or throws, whatever other calls do in between, if its
\* requests end (client-auth-manager.ts:80-113, pkce-auth-manager.ts:142-198).
THEOREM Returns == Spec /\ (\A c \in Callers : RequestEnds(c)) => CallsReturn
<1>1. ASSUME NEW c \in Callers
      PROVE  Spec /\ (\A d \in Callers : RequestEnds(d)) => (Running(c) ~> ~Running(c))
  <2>1. (\A d \in Callers : RequestEnds(d)) => RequestEnds(c)
    OBVIOUS
  <2> QED
    BY <2>1, CallReturns, PTL
<1> QED
  BY <1>1 DEF CallsReturn
=============================================================================
