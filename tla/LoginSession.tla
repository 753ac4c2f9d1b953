---------------------------- MODULE LoginSession ----------------------------
(***************************************************************************)
(* What signing in is to the user of one tab, whatever the client does with*)
(* its promises, its callbacks and the location to get there: a login is an*)
(* attempt that the user takes along to the auth host and back; every page *)
(* redeems at most once, with the attempt it finds; an exchange that waits *)
(* for the terms of service keeps the attempt and the invite, any other end*)
(* of it uses up whatever attempt and invite the tab then holds.           *)
(*                                                                         *)
(* SplunkAuthClient implements this specification.                         *)
(***************************************************************************)

CONSTANTS
    Attempts,   \* identities of logins
    NoAttempt   \* no login is under way

VARIABLES
    place,      \* where the tab is, or is about to go, and what it takes along
    attempt,    \* the login whose answer the tab would redeem
    invite,     \* the tab remembers an invite
    exchange    \* what became of this page's redemption

sessionState == <<place, attempt, invite, exchange>>

AtApplication == [to |-> "app"]
AtAuthorize(a) == [to |-> "authorize", challenge |-> a]
AtTerms(a, invited) == [to |-> "tos", challenge |-> a, invited |-> invited]
AtLogout == [to |-> "logout"]

Init ==
    /\ place = AtApplication
    /\ attempt = NoAttempt
    /\ invite = FALSE
    /\ exchange = "none"

-----------------------------------------------------------------------------
\* A login replaces the attempt before it, even while that is being redeemed.
SignIn ==
    /\ \E a \in Attempts \ {attempt} : attempt' = a /\ place' = AtAuthorize(a)
    /\ UNCHANGED <<invite, exchange>>

\* The terms of service, once the auth host has asked for them, are accepted for
\* the same attempt and the same invite.
AskForTerms ==
    /\ exchange = "terms"
    /\ attempt # NoAttempt
    /\ place' = AtTerms(attempt, invite)
    /\ UNCHANGED <<attempt, invite, exchange>>

SignOut ==
    /\ place' = AtLogout
    /\ invite' = FALSE
    /\ UNCHANGED <<attempt, exchange>>

\* A new page, or none: what was being redeemed is forgotten, the attempt is not.
ChangePage ==
    /\ place' \in {place, AtApplication}
    /\ exchange' = "none"
    /\ UNCHANGED <<attempt, invite>>

\* The page came back from a login and presents its code.
Redeem ==
    /\ exchange = "none"
    /\ attempt # NoAttempt
    /\ exchange' = "pending"
    /\ invite' \in BOOLEAN
    /\ UNCHANGED <<place, attempt>>

\* The page came back with the token itself.
Accept ==
    /\ exchange = "none"
    /\ attempt # NoAttempt
    /\ exchange' = "granted"
    /\ attempt' = NoAttempt
    /\ UNCHANGED <<place, invite>>

\* The page has nothing it can redeem.
Reject ==
    /\ exchange = "none"
    /\ exchange' \in {"refused", "terms"}
    /\ UNCHANGED <<place, attempt, invite>>

\* The auth host grants a token or refuses one.  The attempt that goes is the one
\* the tab holds, also when a login has replaced the one that was redeemed.
Conclude ==
    /\ exchange = "pending"
    /\ exchange' \in {"granted", "refused"}
    /\ attempt' = NoAttempt
    /\ invite' = FALSE
    /\ UNCHANGED place

\* The auth host wants the terms to be accepted first.
Postpone ==
    /\ exchange = "pending"
    /\ exchange' = "terms"
    /\ UNCHANGED <<place, attempt, invite>>

Next ==
    \/ SignIn \/ AskForTerms \/ SignOut
    \/ ChangePage
    \/ Redeem \/ Accept \/ Reject
    \/ Conclude \/ Postpone

Spec == Init /\ [][Next]_sessionState
=============================================================================
