--------------------------------- MODULE Shell --------------------------------
(***************************************************************************)
(* What is around every page: the gate that asks who is signed in          *)
(* (ui/components/auth-gate.tsx), the two pages before it (login,          *)
(* change-password), signing out (app-nav.tsx) and the redirects of        *)
(* apiFetch (ui/lib/api.ts).                                               *)
(*                                                                         *)
(* The gate asks again on every change of path and disowns the question    *)
(* under way.  The session is a cookie shared with other tabs, the CSRF    *)
(* token is kept per tab.                                                  *)
(***************************************************************************)
EXTENDS Browser

CONSTANTS
    MaxSessions,  \* bound: sessions begun
    MaxTrips      \* bound: links followed and steps back
ASSUME ShellBounds == MaxSessions \in Nat /\ MaxTrips \in Nat

VARIABLES
    shPath,      \* the path of the tab
    shGoing,     \* where router.replace is taking it
    shReady,     \* ready: the page is shown
    shOffline,   \* offline
    shDropped,   \* observer: another navigation took the place of one under way
    shFound,     \* observer: the check that made it ready
    shChecks,    \* the checks under way; active is FALSE once disowned
    shCsrf,      \* sessionStorage: the session whose token the tab has
    shCall,      \* a request of a page under way
    shSession,   \* backend: the session of the cookie, 0 without one
    shMust,      \* backend: the password must be changed
    shMade,      \* backend: sessions so far
    shTrips

tabVars == <<shPath, shGoing, shReady, shOffline, shDropped, shFound, shChecks, shTrips>>
backVars == <<shSession, shMust, shMade>>
shVars == <<shPath, shGoing, shReady, shOffline, shDropped, shFound, shChecks, shCsrf, shCall,
            shSession, shMust, shMade, shTrips>>

Paths == {"/", "/login", "/change-password"}
ASSUME NilIsNoPath == Nil \notin Paths
Check(path) ==
    [path |-> path, active |-> TRUE, answer |-> "asked", session |-> 0, must |-> FALSE]

ShInit ==
    /\ shPath = "/" /\ shGoing = Nil /\ shReady = FALSE /\ shOffline = FALSE
    /\ shDropped = FALSE
    /\ shFound = Nil /\ shChecks = {Check("/")} /\ shCsrf = 0 /\ shCall = Nil
    /\ shSession = 0 /\ shMust \in BOOLEAN /\ shMade = 0 /\ shTrips = 0

-----------------------------------------------------------------------------
(* Going somewhere *)

\* Another path without a reload: the effect of the gate runs again.
Arrive(path) ==
    /\ shGoing' = Nil
    /\ IF path = shPath THEN UNCHANGED <<shPath, shReady, shOffline, shFound, shChecks>>
       ELSE /\ shPath' = path /\ shReady' = FALSE /\ shOffline' = FALSE /\ shFound' = Nil
            /\ shChecks' = {[c EXCEPT !.active = FALSE] : c \in shChecks} \cup {Check(path)}

\* location.replace and reload: the tab starts over.
Reload(path) ==
    /\ shPath' = path /\ shGoing' = Nil /\ shReady' = FALSE /\ shOffline' = FALSE
    /\ shFound' = Nil /\ shChecks' = {Check(path)} /\ shDropped' = FALSE

\* router.replace, or not at all: it takes the place of a navigation under way.
Replace(path) ==
    /\ shGoing' = IF path = Nil THEN shGoing ELSE path
    /\ shDropped' = (shDropped \/ (shGoing # Nil /\ shGoing' # shGoing))

RouterArrives ==
    /\ shGoing # Nil /\ Arrive(shGoing)
    /\ UNCHANGED <<shDropped, shCsrf, shCall, shSession, shMust, shMade, shTrips>>

\* A link of the page, or a step back or forward at any time.
Visit(path) ==
    /\ shTrips < MaxTrips /\ shTrips' = shTrips + 1
    /\ path # shPath /\ Arrive(path)
    /\ UNCHANGED <<shDropped, shCsrf, shCall, shSession, shMust, shMade>>

\* onRetry of the splash.
Retry ==
    /\ shOffline /\ Reload(shPath)
    /\ shCall' = Nil
    /\ UNCHANGED <<shCsrf, shSession, shMust, shMade, shTrips>>

-----------------------------------------------------------------------------
(* The gate *)

CheckServed(c) ==
    /\ c \in Open(shChecks)
    /\ \E answer \in {IF shSession = 0 THEN "none" ELSE "ok", "failed"} :
         shChecks' = Serve(shChecks, c, [c EXCEPT !.answer = answer, !.must = (answer = "ok" /\ shMust),
                         !.session = IF answer = "ok" THEN shSession ELSE 0])
    /\ UNCHANGED <<shPath, shGoing, shReady, shOffline, shDropped, shFound, shCsrf, shCall,
                   shSession, shMust, shMade, shTrips>>

\* Faulty variant of Target: a forced change redirects to itself.
TargetAgain(c) ==
    CASE c.answer = "none" -> IF c.path = "/login" THEN Nil ELSE "/login"
      [] c.answer = "ok" /\ c.must -> "/change-password"
      [] c.answer = "ok" /\ c.path = "/login" -> "/"
      [] OTHER -> Nil

\* Where the answer of a check sends the tab, if it does.
Target(c) ==
    CASE c.answer = "none" -> IF c.path = "/login" THEN Nil ELSE "/login"
      [] c.answer = "ok" /\ c.must /\ c.path # "/change-password" -> "/change-password"
      [] c.answer = "ok" /\ c.path = "/login" -> "/"
      [] OTHER -> Nil

\* Faulty variant of CheckApplied: a disowned check is applied as well.
CheckAppliedLate(c) ==
    /\ c \in Answered(shChecks)
    /\ shChecks' = shChecks \ {c}
    /\ Replace(Target(c))
    /\ shReady' = (Target(c) = Nil /\ (c.answer # "failed" \/ c.path = "/login"))
    /\ shOffline' = (c.answer = "failed" /\ c.path # "/login")
    /\ shFound' = IF shReady' THEN c ELSE Nil
    /\ shCsrf' = IF c.answer = "failed" THEN shCsrf ELSE c.session
    /\ UNCHANGED <<shPath, shCall, shSession, shMust, shMade, shTrips>>

\* Shown, sent elsewhere, or offline; a disowned check does nothing.
CheckApplied(c) ==
    /\ c \in Answered(shChecks)
    /\ shChecks' = shChecks \ {c}
    /\ IF ~c.active THEN UNCHANGED <<shGoing, shDropped, shReady, shOffline, shFound, shCsrf>>
       ELSE /\ Replace(Target(c))
            /\ shReady' = (Target(c) = Nil /\ (c.answer # "failed" \/ c.path = "/login"))
            /\ shOffline' = (c.answer = "failed" /\ c.path # "/login")
            /\ shFound' = IF shReady' THEN c ELSE Nil
            /\ shCsrf' = IF c.answer = "failed" THEN shCsrf ELSE c.session
    /\ UNCHANGED <<shPath, shCall, shSession, shMust, shMade, shTrips>>

-----------------------------------------------------------------------------
(* The requests of the pages: signing in, a new password, signing out, others *)

Request(kind) ==
    [kind |-> kind, csrf |-> shCsrf, answer |-> "asked", session |-> 0, must |-> FALSE]

\* One request at a time, from a page that is shown.
SendFrom(path, kind) ==
    /\ shReady /\ shPath = path /\ shCall = Nil
    /\ shCall' = Request(kind)
    /\ UNCHANGED <<tabVars, shCsrf, backVars>>

\* The form of the login page, and that of the password page once its two new
\* passwords agree.
SendLogin == SendFrom("/login", "login")
SendPassword == SendFrom("/change-password", "password")
\* Sign out in the navigation, and the other requests of a page behind the gate.
SignOut == SendFrom("/", "logout")
SendRequest == SendFrom("/", "page")

Answer(answer) == shCall' = [shCall EXCEPT !.answer = answer]

LoginServed ==
    /\ shCall # Nil /\ shCall.answer = "asked" /\ shCall.kind = "login"
    /\ shMade < MaxSessions
    /\ shMade' = shMade + 1 /\ shSession' = shMade + 1
    /\ shCall' = [shCall EXCEPT !.answer = "ok", !.session = shMade + 1, !.must = shMust]
    /\ UNCHANGED <<tabVars, shCsrf, shMust>>

\* The middleware: a session, no forced change but for these paths, the token.
Passes(kind) ==
    /\ shSession # 0 /\ shCall.csrf = shSession
    /\ shMust => kind \in {"password", "logout"}

CallServed ==
    /\ shCall # Nil /\ shCall.answer = "asked" /\ shCall.kind # "login"
    /\ IF Passes(shCall.kind)
       THEN /\ Answer("ok")
            /\ shMust' = (shMust /\ shCall.kind # "password")
            /\ shSession' = IF shCall.kind = "logout" THEN 0 ELSE shSession
       ELSE /\ Answer(IF shSession = 0 THEN "none"
                      ELSE IF shMust /\ shCall.kind = "page" THEN "must" ELSE "failed")
            /\ UNCHANGED <<shSession, shMust>>
    /\ UNCHANGED <<tabVars, shCsrf, shMade>>

\* Refused, or the answer lost.
CallLost ==
    /\ shCall # Nil /\ shCall.answer \in {"asked", "ok"}
    /\ Answer("failed")
    /\ UNCHANGED <<tabVars, shCsrf, backVars>>

\* apiFetch: these answers take the tab to the page that can help.
Elsewhere ==
    IF shCall.kind = "login" THEN Nil
    ELSE IF shCall.answer = "none" /\ shPath # "/login" THEN "/login"
    ELSE IF shCall.answer = "must" /\ shPath # "/change-password" THEN "/change-password"
    ELSE Nil

CallApplied ==
    /\ shCall # Nil /\ shCall.answer # "asked" /\ shCall.kind # "logout"
    /\ shCall' = Nil
    /\ shCsrf' = IF shCall.kind = "login" /\ shCall.answer = "ok" THEN shCall.session ELSE shCsrf
    /\ IF Elsewhere # Nil THEN Reload(Elsewhere)
       ELSE /\ Replace(IF shCall.answer # "ok" \/ shCall.kind = "page" THEN Nil
                       ELSE IF shCall.must THEN "/change-password" ELSE "/")
            /\ UNCHANGED <<shPath, shReady, shOffline, shFound, shChecks>>
    /\ UNCHANGED <<shTrips, backVars>>

\* logout leaves for the login page whatever the answer was.
LogoutApplied ==
    /\ shCall # Nil /\ shCall.answer # "asked" /\ shCall.kind = "logout"
    /\ shCsrf' = 0 /\ Reload("/login") /\ shCall' = Nil
    /\ UNCHANGED <<shTrips, backVars>>

\* Another tab signs in or out, or the session expires.
SessionElsewhere ==
    /\ \/ shMade < MaxSessions /\ shMade' = shMade + 1 /\ shSession' = shMade + 1
       \/ shSession # 0 /\ shSession' = 0 /\ UNCHANGED shMade
    /\ UNCHANGED <<tabVars, shCsrf, shCall, shMust>>

-----------------------------------------------------------------------------
ShUser ==
    \/ \E p \in Paths : Visit(p)
    \/ Retry
    \/ SendLogin \/ SendPassword \/ SignOut \/ SendRequest

ShAnswers ==
    \/ \E c \in shChecks : CheckServed(c) \/ CheckApplied(c)
    \/ LoginServed \/ CallServed \/ CallLost \/ CallApplied \/ LogoutApplied

ShNext == ShUser \/ ShAnswers \/ RouterArrives \/ SessionElsewhere

-----------------------------------------------------------------------------
(* Properties *)

\* A page behind the gate is shown only after a check made for it found a
\* session, and the console only to one that need not change its password, in
\* whatever order the checks of earlier paths come back.
ContentIsChecked ==
    (shReady /\ shPath # "/login") =>
        /\ shFound.path = shPath /\ shFound.session # 0
        /\ shPath = "/" => ~shFound.must

\* The login form is not shown to a session: signing out that failed ends
\* behind the gate again, not at a form that looks signed out.
LoginIsForSignedOut == (shReady /\ shPath = "/login") => shFound.session = 0

\* The splash does not stay: the gate opens or says the backend is away again
\* and again, without redirects that chase each other; unless a navigation is
\* dropped for another one to the path the tab is on, after which nothing asks.
GateSettled == shReady \/ shOffline \/ shDropped

\* What the gate lets through in every state.
GateHolds == ContentIsChecked /\ LoginIsForSignedOut
===============================================================================
