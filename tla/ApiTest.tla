------------------------------- MODULE ApiTest -------------------------------
(***************************************************************************)
(* The test page public/api-test.html: each click of a button tries four   *)
(* addresses one after the other until one answers 2xx.  Its requests pass *)
(* through secure-requests.js.  The buttons stay enabled, so several       *)
(* clicks can be under way.                                                *)
(***************************************************************************)
EXTENDS SecureRequests

CONSTANTS
    Click,    \* the clicks on the page's buttons
    Email,    \* the addresses Math.random can produce
    Known     \* the addresses that are registered at first

ASSUME ApiTestAssumption == Known \subseteq Email /\ Known /= {}

VARIABLES
    accounts,     \* the registered addresses
    test,         \* what each click is doing
    loginEmail,   \* the address field of the login test
    made          \* auxiliary: how many accounts a click's tries made

vars == <<accounts, test, loginEmail, made>>

\* The list of addresses, the same for the three tests up to the path.
urls(path) ==
    << [scheme |-> "https", host |-> "dev", ports |-> <<>>, path |-> path],
       [scheme |-> "http", host |-> "dev", ports |-> <<>>, path |-> path],
       [scheme |-> "https", host |-> "dev", ports |-> <<ServicePort>>, path |-> path],
       [scheme |-> "http", host |-> "localhost", ports |-> <<ServicePort>>, path |-> path] >>

Paths == {"/", "/register", "/login"}
NoTest == [path |-> "/", email |-> "none", try |-> 0, phase |-> "unused"]

TypeOK ==
    /\ accounts \subseteq Email
    /\ test \in [Click -> [path : Paths, email : Email \cup {"none"}, try : 0..4,
                           phase : {"unused", "trying", "passed", "failed"}]]
    /\ loginEmail \in Email
    /\ made \in [Click -> 0..4]

Init ==
    /\ accounts = Known
    /\ test = [c \in Click |-> NoTest]
    /\ loginEmail \in Known
    /\ made = [c \in Click |-> 0]

\* A click: testRegister draws an address, testLogin reads the field.
Start(c) ==
    /\ test[c].phase = "unused"
    /\ \E p \in Paths, e \in Email :
         /\ p = "/login" => e = loginEmail
         /\ test' = [test EXCEPT ![c] = [path |-> p, email |-> IF p = "/" THEN "none" ELSE e,
                                         try |-> 1, phase |-> "trying"]]
    /\ UNCHANGED <<accounts, loginEmail, made>>

\* uvicorn listens on 41285 without TLS; the proxy stands before the plain name.
Reachable(u) == u.scheme = "https" /\ u.host = "dev" /\ u.ports = <<>>

\* Mutant of Accepts: registering a known address succeeds again.
Accepts_again(t) == t.path = "/login" => t.email \in accounts

\* The service accepts: a registration of a free address, a login to a known one.
Accepts(t) ==
    CASE t.path = "/"         -> TRUE
      [] t.path = "/register" -> t.email \notin accounts
      [] t.path = "/login"    -> t.email \in accounts

\* Mutants of After: the loop runs one address too far; it starts over.
After_too_far(t, ok) ==
    IF ok THEN [t EXCEPT !.phase = "passed"]
    ELSE IF t.try <= Len(urls(t.path)) THEN [t EXCEPT !.try = @ + 1]
    ELSE [t EXCEPT !.phase = "failed"]
After_forever(t, ok) ==
    IF ok THEN [t EXCEPT !.phase = "passed"]
    ELSE [t EXCEPT !.try = IF @ < Len(urls(t.path)) THEN @ + 1 ELSE 1]

\* The loop of a test goes on after a failed try, and gives up after the last.
After(t, ok) ==
    IF ok THEN [t EXCEPT !.phase = "passed"]
    ELSE IF t.try < Len(urls(t.path)) THEN [t EXCEPT !.try = @ + 1]
    ELSE [t EXCEPT !.phase = "failed"]

\* One turn of the loop: the request is served or not, and answered or not.
Try(c) ==
    LET t == test[c]
        u == SecureFetch(urls(t.path)[t.try])
    IN  /\ t.phase = "trying"
        /\ \E served, answered \in BOOLEAN :
             LET ok == served /\ answered /\ Accepts(t)
                 makes == served /\ t.path = "/register" /\ Accepts(t)
             IN  /\ served => Reachable(u)
                 /\ answered => served
                 /\ accounts' = IF makes THEN accounts \cup {t.email} ELSE accounts
                 /\ made' = [made EXCEPT ![c] = IF makes THEN @ + 1 ELSE @]
                 /\ test' = [test EXCEPT ![c] = After(t, ok)]
                 /\ loginEmail' = IF ok /\ t.path = "/register" THEN t.email ELSE loginEmail

Next == \E c \in Click : Start(c) \/ Try(c)

Spec == Init /\ [][Next]_vars

\* A fetch is always settled.
FairSpec == Spec /\ \A c \in Click : WF_vars(Try(c))

-----------------------------------------------------------------------------
\* However often an answer is lost, the tries of one click make at most one
\* account, and a click that reports success made exactly one (testRegister
\* keeps one random address for all its tries).
OneAccountPerClick ==
    \A c \in Click :
        /\ made[c] <= 1
        /\ test[c].path = "/register" /\ test[c].phase = "passed" => made[c] = 1

\* Every click comes to a verdict (the loops over urls).
EveryTestEnds ==
    \A c \in Click : test[c].phase = "trying" ~> test[c].phase \in {"passed", "failed"}

\* The addresses under which the page could ask for what a click asks for.
Addresses(c) == {u \in Url : u.path = test[c].path}

\* Passing an address through the interceptor a second time, as when two
\* scripts wrap fetch, changes nothing more (the wrapper calls originalFetch,
\* which may be another wrapper).
RewritingSettles ==
    \A c \in Click : \A u \in Addresses(c) :
        /\ SecureFetch(SecureFetch(u)) = SecureFetch(u)
        /\ SecureOpen(SecureOpen(u)) = SecureOpen(u)

\* Whatever fetch is asked of an API path under one of the site's names, or on
\* one of the service's ports, goes over https to the service's host, at one
\* port at most (the four rewriting steps of window.fetch).
FetchReachesService ==
    \A c \in Click : \A u \in Addresses(c) :
        u.path \in ApiPath /\ (u.host = "localhost" => u.ports /= <<>>) =>
            LET v == SecureFetch(u)
            IN  v.scheme = "https" /\ v.host = "dev" /\ Len(v.ports) <= 1
=============================================================================
