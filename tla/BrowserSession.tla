---------------------------- MODULE BrowserSession ----------------------------
(***************************************************************************)
(* The pages under public/ in the tabs of one browser: register (with      *)
(* js/main.js), login, dashboard (with js/dashboard.js) and the entrance   *)
(* of the visualization page.  What a login leaves behind is four keys of  *)
(* localStorage, which all tabs of an origin share.  A script runs to its  *)
(* next await or alert without interruption in its own tab, but nothing    *)
(* orders its storage accesses with those of another tab: each setItem and *)
(* removeItem is a step.  The pages are served by two hosts: "data", the   *)
(* static site, and "dev", the FastAPI process of main.py.                 *)
(***************************************************************************)
EXTENDS Naturals, Sequences

CONSTANTS
    Tab,          \* the tabs of the browser
    Origin,       \* the hosts visited, "data" always among them
    Id,           \* account identifiers
    Email, Name,  \* what a visitor may type
    Lower, Trim,  \* String.trim().toLowerCase() and trim(), as functions
    NoName,       \* the empty string
    Seed,         \* the accounts that exist at first
    None          \* an absent key, null

Role == {"admin", "normal"}
Account == [id : Id, email : Email, name : Name, role : Role]

ASSUME SessionAssumption ==
    /\ Origin \subseteq {"data", "dev"} /\ "data" \in Origin
    /\ Lower \in [Email -> Email] /\ Trim \in [Name -> Name]
    /\ NoName \in Name /\ NoName /= "true"
    /\ Seed \subseteq Account
    /\ None \notin Id \cup Name \cup Role \cup {"true"}

VARIABLES
    accounts,   \* the rows of the users table
    issued,     \* auxiliary: every account there has ever been
    storage,    \* localStorage of each origin
    page,       \* the page a tab shows
    origin,     \* the host it came from
    script,     \* what the page's script is doing
    at,         \* how many storage accesses of that script are behind it
    form,       \* what was submitted
    reply,      \* the service's answer to it
    passed,     \* the dashboard's login check let the visitor stay
    shown,      \* what the dashboard displays
    probe,      \* dashboard.js awaits /user/info
    welcomed,   \* auxiliary: <<typed address, account>> of announced registrations
    cause       \* auxiliary: what brought the tab to its page

vars == <<accounts, issued, storage, page, origin, script, at, form, reply,
          passed, shown, probe, welcomed, cause>>
pageVars == <<page, origin, passed, shown, probe, cause>>
serviceVars == <<accounts, issued>>

Page == {"home", "register", "login", "dashboard", "visualization", "error"}
Key == {"is_logged_in", "user_id", "user_name", "user_role"}

\* Mutant of LoginKeys: the role is not stored, as in static/login/login.html.
LoginKeys_no_role == <<"is_logged_in", "user_id", "user_name">>

\* Mutants of LogoutKeys: the id is left behind; the flag is removed first.
LogoutKeys_no_id == <<"user_name", "is_logged_in">>
LogoutKeys_flag_first == <<"is_logged_in", "user_id", "user_name">>

\* The order in which loginUser sets the keys and logout removes them.
LoginKeys == <<"is_logged_in", "user_id", "user_name", "user_role">>
LogoutKeys == <<"user_id", "user_name", "is_logged_in">>

NoForm == [kind |-> "none", email |-> None, sent |-> None, name |-> None, right |-> FALSE]
NoAnswer == [tag |-> "none", user |-> None]
Refusal(why) == [tag |-> why, user |-> None]
Success(u) == [tag |-> "ok", user |-> u]
Nothing == [user_id |-> None, user_name |-> None, user_role |-> None]

Value == Id \cup Name \cup Role \cup {"true"}

TypeOK ==
    /\ accounts \subseteq issued /\ issued \subseteq Account
    /\ storage \in [Origin -> [Key -> Value \cup {None}]]
    /\ page \in [Tab -> Page]
    /\ origin \in [Tab -> Origin]
    /\ script \in [Tab -> {"idle", "sent", "served", "writing", "removing",
                           "checking", "showing", "leaving"}]
    /\ at \in [Tab -> 0..4]
    /\ form \in [Tab -> [kind : {"none", "login", "register"}, email : Email \cup {None},
                         sent : Email \cup {None}, name : Name \cup {None},
                         right : BOOLEAN]]
    /\ reply \in [Tab -> [tag : {"none", "ok", "unknown", "refused"},
                          user : Account \cup {None}]]
    /\ passed \in [Tab -> BOOLEAN]
    /\ shown \in [Tab -> [user_id : Value \cup {None}, user_name : Value \cup {None},
                          user_role : Value \cup {None}]]
    /\ probe \in [Tab -> BOOLEAN]
    /\ welcomed \subseteq Email \X Id
    /\ cause \in [Tab -> {"visit", "login", "foreign", "check", "probe", "logout"}]

Init ==
    /\ accounts = Seed
    /\ issued = Seed
    /\ storage = [o \in Origin |-> [k \in Key |-> None]]
    /\ page = [t \in Tab |-> "home"]
    /\ origin = [t \in Tab |-> "data"]
    /\ script = [t \in Tab |-> "idle"]
    /\ at = [t \in Tab |-> 0]
    /\ form = [t \in Tab |-> NoForm]
    /\ reply = [t \in Tab |-> NoAnswer]
    /\ passed = [t \in Tab |-> FALSE]
    /\ shown = [t \in Tab |-> Nothing]
    /\ probe = [t \in Tab |-> FALSE]
    /\ welcomed = {}
    /\ cause = [t \in Tab |-> "visit"]

-----------------------------------------------------------------------------
(* Loading a page. *)

\* A tab shows page p of host o.  The dashboard and the visualization page
\* start with a script; dashboard.js is found under /static only on "dev".
Load(t, o, p, after) ==
    /\ page' = [page EXCEPT ![t] = p]
    /\ origin' = [origin EXCEPT ![t] = o]
    /\ script' = [script EXCEPT ![t] =
                     IF p \in {"dashboard", "visualization"} THEN "checking" ELSE "idle"]
    /\ at' = [at EXCEPT ![t] = 0]
    /\ form' = [form EXCEPT ![t] = NoForm]
    /\ reply' = [reply EXCEPT ![t] = NoAnswer]
    /\ passed' = [passed EXCEPT ![t] = FALSE]
    /\ shown' = [shown EXCEPT ![t] = Nothing]
    /\ probe' = [probe EXCEPT ![t] = p = "dashboard" /\ o = "dev"]
    /\ cause' = [cause EXCEPT ![t] = after]

\* The script of tab t goes on; the page stays.
Continue(t, s) ==
    /\ script' = [script EXCEPT ![t] = s]
    /\ UNCHANGED pageVars

\* Mutant of LoginAddress: the page is asked for by its file name.
LoginAddress_file(o) == "login.html"

\* main.py answers GET /login/ with 405: the relative address '/login/' is a
\* page only on "data".
LoginAddress(o) == IF o = "data" THEN "login" ELSE "error"

\* The visitor opens a page; a request under way is abandoned.
Open(t) ==
    /\ script[t] \in {"idle", "sent", "served"}
    /\ \E o \in Origin, p \in Page \ {"error"} : Load(t, o, p, "visit")
    /\ UNCHANGED <<serviceVars, storage, welcomed>>

-----------------------------------------------------------------------------
(* Registration and login. *)

\* Mutant of Finally: the block is missing and the button stays disabled.
Finally_missing(t) ==
    /\ Continue(t, script[t])
    /\ form' = [form EXCEPT ![t] = NoForm]
    /\ reply' = [reply EXCEPT ![t] = NoAnswer]

\* The page is idle again: the button is enabled and the request forgotten.
Finally(t) ==
    /\ Continue(t, "idle")
    /\ form' = [form EXCEPT ![t] = NoForm]
    /\ reply' = [reply EXCEPT ![t] = NoAnswer]

\* registerUser up to its await.  The deferred main.js replaces the function
\* of the page, which sends what was typed, by one that normalises it.
SubmitRegister(t) ==
    /\ page[t] = "register" /\ script[t] = "idle"
    /\ \E e \in Email, n \in Name \ {NoName}, mainjs \in BOOLEAN :
         form' = [form EXCEPT ![t] =
                    [kind |-> "register", email |-> e, right |-> TRUE,
                     sent |-> IF mainjs THEN Lower[e] ELSE e,
                     name |-> IF mainjs THEN Trim[n] ELSE n]]
    /\ Continue(t, "sent")
    /\ UNCHANGED <<serviceVars, storage, at, reply, welcomed>>

\* loginUser up to its await: the address goes out as it was typed.
SubmitLogin(t) ==
    /\ page[t] = "login" /\ script[t] = "idle"
    /\ \E e \in Email, right \in BOOLEAN :
         form' = [form EXCEPT ![t] =
                    [kind |-> "login", email |-> e, sent |-> e, name |-> None,
                     right |-> right]]
    /\ Continue(t, "sent")
    /\ UNCHANGED <<serviceVars, storage, at, reply, welcomed>>

HeldBy(e) == {u \in accounts : u.email = e}

\* The service as AccountService describes it, in one step.
Serve(t) ==
    /\ script[t] = "sent"
    /\ Continue(t, "served")
    /\ \/ /\ form[t].kind = "register" /\ HeldBy(form[t].sent) = {}
          /\ \E i \in Id \ {u.id : u \in issued} :
               LET u == [id |-> i, email |-> form[t].sent, name |-> form[t].name,
                         role |-> "normal"]
               IN  /\ accounts' = accounts \cup {u}
                   /\ issued' = issued \cup {u}
                   /\ reply' = [reply EXCEPT ![t] = Success(u)]
       \/ /\ form[t].kind = "register" /\ HeldBy(form[t].sent) /= {}
          /\ reply' = [reply EXCEPT ![t] = Refusal("refused")]
          /\ UNCHANGED serviceVars
       \/ /\ form[t].kind = "login" /\ HeldBy(form[t].sent) = {}
          /\ reply' = [reply EXCEPT ![t] = Refusal("unknown")]
          /\ UNCHANGED serviceVars
       \/ /\ form[t].kind = "login"
          /\ \E u \in HeldBy(form[t].sent) :
               reply' = [reply EXCEPT ![t] = IF form[t].right THEN Success(u)
                                                              ELSE Refusal("refused")]
          /\ UNCHANGED serviceVars
    /\ UNCHANGED <<storage, at, form, welcomed>>

\* fetch rejects, or the service answers 500: catch and finally.
RequestFails(t) ==
    /\ script[t] \in {"sent", "served"}
    /\ Finally(t)
    /\ UNCHANGED <<serviceVars, storage, at, welcomed>>

\* The rest of registerUser: the success message invites to log in.
registerUser(t) ==
    /\ script[t] = "served" /\ form[t].kind = "register"
    /\ welcomed' = IF reply[t].tag = "ok"
                   THEN welcomed \cup {<<form[t].email, reply[t].user.id>>}
                   ELSE welcomed
    /\ Finally(t)
    /\ UNCHANGED <<serviceVars, storage, at>>

\* The rest of loginUser up to its first setItem.
loginUser(t) ==
    /\ script[t] = "served" /\ form[t].kind = "login"
    /\ \/ /\ reply[t].tag = "ok"
          /\ Continue(t, "writing")
          /\ UNCHANGED <<form, reply>>
       \/ /\ reply[t].tag /= "ok"
          /\ Finally(t)
    /\ UNCHANGED <<serviceVars, storage, at, welcomed>>

LoginValue(u, k) ==
    CASE k = "is_logged_in" -> "true"
      [] k = "user_id"      -> u.id
      [] k = "user_name"    -> u.name
      [] k = "user_role"    -> u.role

Store(o, k, v) == storage' = [storage EXCEPT ![o][k] = v]

\* One localStorage.setItem of loginUser.
setItem(t) ==
    /\ script[t] = "writing" /\ at[t] < Len(LoginKeys)
    /\ LET k == LoginKeys[at[t] + 1]
       IN  Store(origin[t], k, LoginValue(reply[t].user, k))
    /\ at' = [at EXCEPT ![t] = @ + 1]
    /\ UNCHANGED <<serviceVars, script, form, reply, pageVars, welcomed>>

\* Mutant of LoginRedirect: the dashboard of the service, as in js/login.js.
LoginRedirect_dev(t) ==
    /\ script[t] = "writing" /\ at[t] = Len(LoginKeys)
    /\ Load(t, "dev", "dashboard", IF origin[t] = "data" THEN "login" ELSE "foreign")
    /\ UNCHANGED <<serviceVars, storage, welcomed>>

\* loginUser ends by going to the dashboard of "data", which does not see the
\* keys if the login page came from "dev": the login is then a foreign one.
LoginRedirect(t) ==
    /\ script[t] = "writing" /\ at[t] = Len(LoginKeys)
    /\ Load(t, "data", "dashboard", IF origin[t] = "data" THEN "login" ELSE "foreign")
    /\ UNCHANGED <<serviceVars, storage, welcomed>>

-----------------------------------------------------------------------------
(* The dashboard and the visualization page. *)

\* JavaScript's truth of a stored string.
Truthy(v) == v \notin {None, NoName}

\* The first inline listener of the dashboard, and the head of the
\* visualization script: without a login the page is left for '/login/'.
Checks(p, store) ==
    IF p = "dashboard" THEN Truthy(store["is_logged_in"]) /\ Truthy(store["user_name"])
                       ELSE Truthy(store["user_id"])

CheckLogin(t) ==
    /\ script[t] = "checking"
    /\ LET ok == Checks(page[t], storage[origin[t]])
       IN  /\ passed' = [passed EXCEPT ![t] = ok]
           /\ script' = [script EXCEPT ![t] = IF page[t] = "dashboard" THEN "showing"
                                              ELSE IF ok THEN "idle" ELSE "leaving"]
    /\ UNCHANGED <<serviceVars, storage, at, form, reply, page, origin, shown, probe,
                   welcomed, cause>>

\* The second inline listener runs whatever the first one decided.
ShowUser(t) ==
    /\ script[t] = "showing"
    /\ shown' = [shown EXCEPT ![t] =
                   [k \in DOMAIN Nothing |-> storage[origin[t]][k]]]
    /\ script' = [script EXCEPT ![t] = IF passed[t] THEN "idle" ELSE "leaving"]
    /\ UNCHANGED <<serviceVars, storage, at, form, reply, page, origin, passed, probe,
                   welcomed, cause>>

\* window.location.href = '/login/' takes effect.
SentToLogin(t) ==
    /\ script[t] = "leaving"
    /\ Load(t, origin[t], LoginAddress(origin[t]), "check")
    /\ UNCHANGED <<serviceVars, storage, welcomed>>

\* dashboard.js: no page writes the key userInfo it looks for, and /user/info
\* without a user_id is answered 401; every way on is redirectToLogin.
redirectToLogin(t) ==
    /\ probe[t] /\ script[t] = "idle"
    /\ Load(t, "data", "login", "probe")
    /\ UNCHANGED <<serviceVars, storage, welcomed>>

\* The logout link is displayed once the check has passed.
logout(t) ==
    /\ page[t] = "dashboard" /\ passed[t] /\ script[t] = "idle"
    /\ Continue(t, "removing")
    /\ UNCHANGED <<serviceVars, storage, at, form, reply, welcomed>>

\* One localStorage.removeItem of logout; user_role is not removed.
removeItem(t) ==
    /\ script[t] = "removing" /\ at[t] < Len(LogoutKeys)
    /\ Store(origin[t], LogoutKeys[at[t] + 1], None)
    /\ at' = [at EXCEPT ![t] = @ + 1]
    /\ UNCHANGED <<serviceVars, script, form, reply, pageVars, welcomed>>

LogoutRedirect(t) ==
    /\ script[t] = "removing" /\ at[t] = Len(LogoutKeys)
    /\ Load(t, origin[t], "home", "logout")
    /\ UNCHANGED <<serviceVars, storage, welcomed>>

\* An account is deleted through the service, from elsewhere.
DeletedElsewhere ==
    /\ \E u \in accounts : accounts' = accounts \ {u}
    /\ UNCHANGED <<issued, storage, script, at, form, reply, pageVars, welcomed>>

\* What a script does by itself once it has been started.
ScriptStep(t) ==
    \/ registerUser(t) \/ loginUser(t) \/ setItem(t) \/ LoginRedirect(t)
    \/ CheckLogin(t) \/ ShowUser(t) \/ SentToLogin(t) \/ redirectToLogin(t)
    \/ removeItem(t) \/ LogoutRedirect(t)

TabStep(t) ==
    \/ Open(t) \/ SubmitRegister(t) \/ SubmitLogin(t) \/ logout(t)
    \/ Serve(t) \/ RequestFails(t) \/ ScriptStep(t)

Next == DeletedElsewhere \/ \E t \in Tab : TabStep(t)

Spec == Init /\ [][Next]_vars

\* A browser runs a started script on, and every fetch is settled.
Fairness ==
    \A t \in Tab : WF_vars(ScriptStep(t)) /\ WF_vars(Serve(t) \/ RequestFails(t))

FairSpec == Spec /\ Fairness
=============================================================================
