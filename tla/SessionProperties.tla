--------------------------- MODULE SessionProperties ---------------------------
(***************************************************************************)
(* What the browser's pages promise about the login they share through     *)
(* localStorage, and what their messages and comments say of it.           *)
(***************************************************************************)
EXTENDS BrowserSession

Present(o, k) == storage[o][k] /= None

\* Key k is among those that loginUser in tab t, on origin o, has yet to set.
YetToSet(t, o, k) ==
    /\ script[t] = "writing" /\ origin[t] = o
    /\ \E n \in (at[t] + 1)..Len(LoginKeys) : LoginKeys[n] = k

\* logout in tab t, on origin o, has yet to remove is_logged_in.
YetToLogOut(t, o) ==
    script[t] = "removing" /\ origin[t] = o /\ at[t] < Len(LogoutKeys)

\* is_logged_in never stands alone: a missing user_id, user_name or user_role
\* is either about to be set by a login or belongs to a logout that is about
\* to remove is_logged_in too.  loginUser sets the flag first and logout
\* removes it last (login/index.html, dashboard/index.html), and it takes both
\* orders to keep this in whatever way the accesses of several tabs interleave.
LoggedInHasIdentity ==
    \A o \in Origin, k \in Key :
        Present(o, "is_logged_in") /\ ~Present(o, k) =>
            \E t \in Tab : YetToSet(t, o, k) \/ YetToLogOut(t, o)

\* The account a dashboard names is one account: the id, the name and the role
\* that the second listener read belong together (dashboard/index.html).
OneIdentity ==
    \A t \in Tab :
        page[t] = "dashboard" /\ passed[t] /\ script[t] = "idle" =>
            \E u \in issued : shown[t] = [user_id |-> u.id, user_name |-> u.name,
                                          user_role |-> u.role]

\* After a logout the next visitor of the browser is not let in: with the tab
\* back on the front page by logout(), both pages' checks fail on its origin.
LogoutLocksBothPages ==
    \A t \in Tab :
        cause[t] = "logout" =>
            \A p \in {"dashboard", "visualization"} : ~Checks(p, storage[origin[t]])

\* No script hangs: a page that disabled its button, or that is on its way to
\* another page, comes to rest (the finally blocks of loginUser and
\* registerUser, the redirects of the checks).
EveryScriptEnds ==
    \A t \in Tab : script[t] /= "idle" ~> script[t] = "idle"

\* Whoever was told to log in after registering can do so by typing the same
\* address again (main.js: 'Please click the "Click to login" link below').
RegisteredCanLogin ==
    \A t \in Tab :
        script[t] = "served" /\ reply[t].tag = "unknown" =>
            ~ \E u \in accounts : <<form[t].email, u.id>> \in welcomed

\* A login that announces the dashboard stays there (login/index.html: "Login
\* successful! Redirecting to dashboard..."): neither the page's check nor the
\* probe of dashboard.js sends the visitor away again.  The exceptions are a
\* login page that came from the service's host, whose keys the dashboard does
\* not see, and an account whose name is empty, as main.js makes it from a name
\* of blanks: the check takes it for nobody.
AnnouncedLoginStays ==
    [][\A t \in Tab :
         cause[t] = "login" /\ cause'[t] \in {"check", "probe"} =>
             shown[t].user_name = NoName]_vars
=============================================================================
