-------------------------- MODULE BrowserSessionProof --------------------------
(***************************************************************************)
(* LoggedInHasIdentity for any number of tabs, origins and accounts; and,  *)
(* for a browser with one tab, what its dashboard shows, what a logout     *)
(* locks and where a login leads.                                          *)
(*                                                                         *)
(* The first property is its own induction step once two facts about one   *)
(* tab are known: a script that has not begun its storage accesses stands  *)
(* at 0, and a login that is being written has an account to write.        *)
(* ScriptInv states them; with TypeOK it is inductive by itself.           *)
(* OneTabInv is the invariant of a single tab: what the storage of a host  *)
(* says, what the dashboard showed of it, and where a login has got to.    *)
(***************************************************************************)
EXTENDS SessionProperties, TLAPS

Writers == {"writing", "removing"}

ScriptInv ==
    \A t \in Tab :
        /\ script[t] \notin Writers => at[t] = 0
        /\ script[t] = "removing" => at[t] <= 3
        /\ script[t] = "writing" => reply[t].tag = "ok"
        /\ reply[t].tag = "ok" => reply[t].user \in Account
        /\ form[t].kind /= "none" => form[t].sent \in Email /\ form[t].email \in Email
        /\ form[t].kind = "register" => form[t].name \in Name

SessionInv == TypeOK /\ ScriptInv

\* The four keys of a login and the three of a logout, in their order.
LEMMA KeyOrder ==
    /\ Len(LoginKeys) = 4 /\ Len(LogoutKeys) = 3
    /\ LoginKeys[1] = "is_logged_in" /\ LoginKeys[2] = "user_id"
    /\ LoginKeys[3] = "user_name" /\ LoginKeys[4] = "user_role"
    /\ LogoutKeys[1] = "user_id" /\ LogoutKeys[2] = "user_name"
    /\ LogoutKeys[3] = "is_logged_in"
  BY Zenon DEF LoginKeys, LogoutKeys

\* Loading a page keeps SessionInv, whatever page and host.
LEMMA LoadKeeps ==
    ASSUME SessionInv, NEW t \in Tab, NEW o \in Origin, NEW p \in Page,
           NEW after \in {"visit", "login", "foreign", "check", "probe", "logout"},
           Load(t, o, p, after), UNCHANGED <<serviceVars, storage, welcomed>>
    PROVE  SessionInv'
  <1> USE DEF SessionInv
  <1>1. TypeOK'
    <2>1. UNCHANGED <<accounts, issued, storage, welcomed>>
      BY Zenon DEF serviceVars
    <2>2. page' \in [Tab -> Page] /\ origin' \in [Tab -> Origin]
      BY Zenon DEF Load, TypeOK
    <2>3. script' \in [Tab -> {"idle", "sent", "served", "writing", "removing",
                               "checking", "showing", "leaving"}]
      BY Zenon DEF Load, TypeOK
    <2>4. at' \in [Tab -> 0..4] /\ passed' \in [Tab -> BOOLEAN] /\ probe' \in [Tab -> BOOLEAN]
      BY SMTT(60) DEF Load, TypeOK
    <2>5. /\ form' \in [Tab -> [kind : {"none", "login", "register"}, email : Email \cup {None},
                         sent : Email \cup {None}, name : Name \cup {None},
                         right : BOOLEAN]]
          /\ reply' \in [Tab -> [tag : {"none", "ok", "unknown", "refused"},
                          user : Account \cup {None}]]
      BY Zenon DEF Load, TypeOK, NoForm, NoAnswer
    <2>6. shown' \in [Tab -> [user_id : Value \cup {None}, user_name : Value \cup {None},
                          user_role : Value \cup {None}]]
      BY Zenon DEF Load, TypeOK, Nothing
    <2>7. cause' \in [Tab -> {"visit", "login", "foreign", "check", "probe", "logout"}]
      BY Zenon DEF Load, TypeOK
    <2> QED
      BY Zenon, <2>1, <2>2, <2>3, <2>4, <2>5, <2>6, <2>7 DEF TypeOK
  <1>2. ScriptInv'
    BY Zenon DEF Load, TypeOK, ScriptInv, NoForm, NoAnswer, Writers
  <1> QED
    BY Zenon, <1>1, <1>2

\* The steps that only move a script on keep SessionInv.
LEMMA SubmitKeeps ==
    ASSUME SessionInv, NEW t \in Tab, SubmitRegister(t) \/ SubmitLogin(t)
    PROVE  SessionInv'
  <1> USE SessionAssumption DEF SessionInv, Continue, pageVars, serviceVars
  <1>1. CASE SubmitRegister(t)
    <2>1. TypeOK'
      BY SMTT(60), <1>1 DEF SubmitRegister, TypeOK
    <2>2. ScriptInv'
      BY SMTT(60), <1>1 DEF SubmitRegister, TypeOK, ScriptInv, Writers
    <2> QED
      BY Zenon, <2>1, <2>2
  <1>2. CASE SubmitLogin(t)
    <2>1. TypeOK'
      BY SMTT(60), <1>2 DEF SubmitLogin, TypeOK
    <2>2. ScriptInv'
      BY SMTT(60), <1>2 DEF SubmitLogin, TypeOK, ScriptInv, Writers
    <2> QED
      BY Zenon, <2>1, <2>2
  <1> QED
    BY Zenon, <1>1, <1>2

\* The service's answer keeps SessionInv.
LEMMA ServeKeeps ==
    ASSUME SessionInv, NEW t \in Tab, Serve(t)
    PROVE  SessionInv'
  <1> USE DEF SessionInv
  <1>1. /\ accounts' \subseteq issued' /\ issued' \subseteq Account
        /\ \E a \in [tag : {"none", "ok", "unknown", "refused"}, user : Account \cup {None}] :
              /\ a.tag = "ok" => a.user \in Account
              /\ reply' = [reply EXCEPT ![t] = a]
    <2>1. CASE form[t].kind = "register" /\ HeldBy(form[t].sent) = {}
      <3>1. PICK i \in Id \ {u.id : u \in issued} :
               LET u == [id |-> i, email |-> form[t].sent, name |-> form[t].name,
                         role |-> "normal"]
               IN  /\ accounts' = accounts \cup {u}
                   /\ issued' = issued \cup {u}
                   /\ reply' = [reply EXCEPT ![t] = Success(u)]
        BY Zenon, <2>1 DEF Serve
      <3>2. [id |-> i, email |-> form[t].sent, name |-> form[t].name,
             role |-> "normal"] \in Account
        BY Zenon, <2>1 DEF ScriptInv, Account, Role
      <3> QED
        BY Zenon, <3>1, <3>2 DEF Success, TypeOK
    <2>2. CASE /\ UNCHANGED serviceVars
               /\ \E why \in {"refused", "unknown"} : reply' = [reply EXCEPT ![t] = Refusal(why)]
      BY Zenon, <2>2 DEF Refusal, TypeOK, serviceVars
    <2>3. CASE /\ UNCHANGED serviceVars
               /\ \E u \in accounts : reply' = [reply EXCEPT ![t] = Success(u)]
      BY Zenon, <2>3 DEF Success, TypeOK, serviceVars
    <2> QED
      BY Zenon, <2>1, <2>2, <2>3 DEF Serve, HeldBy
  <1>2. /\ script' = [script EXCEPT ![t] = "served"]
        /\ script[t] = "sent"
        /\ UNCHANGED <<storage, at, form, page, origin, passed, shown, probe, cause, welcomed>>
    BY Zenon DEF Serve, Continue, pageVars
  <1>3. TypeOK'
    BY SMTT(60), <1>1, <1>2 DEF TypeOK
  <1>4. ScriptInv'
    BY SMTT(60), <1>1, <1>2 DEF TypeOK, ScriptInv, Writers
  <1> QED
    BY Zenon, <1>3, <1>4

\* The end of a request keeps SessionInv.
LEMMA FinallyKeeps ==
    ASSUME SessionInv, NEW t \in Tab, Finally(t), script[t] \notin Writers,
           UNCHANGED <<serviceVars, storage, at>>, welcomed' \subseteq Email \X Id
    PROVE  SessionInv'
  <1> USE DEF SessionInv, Finally, Continue, pageVars, serviceVars
  <1>1. TypeOK'
    BY Zenon DEF TypeOK, NoForm, NoAnswer
  <1>2. ScriptInv'
    BY Zenon DEF TypeOK, ScriptInv, NoForm, NoAnswer, Writers
  <1> QED
    BY Zenon, <1>1, <1>2

\* One access to localStorage keeps SessionInv.
LEMMA StorageKeeps ==
    ASSUME SessionInv, NEW t \in Tab, setItem(t) \/ removeItem(t)
    PROVE  SessionInv'
  <1> USE KeyOrder DEF SessionInv
  <1>1. PICK k \in Key, v \in Value \cup {None} :
            storage' = [storage EXCEPT ![origin[t]][k] = v]
    <2>1. CASE setItem(t)
      <3>1. at[t] \in 0..3 /\ reply[t].user \in Account
        BY SMTT(60), <2>1 DEF setItem, TypeOK, ScriptInv
      <3>2. LoginKeys[at[t] + 1] \in Key
        BY SMTT(60), <3>1 DEF Key
      <3>3. \A k \in Key : LoginValue(reply[t].user, k) \in Value
        BY Zenon, <3>1 DEF LoginValue, Key, Value, Account
      <3> QED
        BY Zenon, <2>1, <3>2, <3>3 DEF setItem, Store
    <2>2. CASE removeItem(t)
      <3>1. at[t] \in 0..2
        <4>1. at[t] \in 0..4
          BY Zenon DEF TypeOK
        <4>2. at[t] < 3
          BY Zenon, <2>2 DEF removeItem
        <4> QED
          BY SMTT(60), <4>1, <4>2
      <3>2. LogoutKeys[at[t] + 1] \in Key
        BY SMTT(60), <3>1 DEF Key
      <3> QED
        BY Zenon, <2>2, <3>2 DEF removeItem, Store
    <2> QED
      BY Zenon, <2>1, <2>2
  <1>2. /\ script[t] \in Writers /\ at' = [at EXCEPT ![t] = @ + 1] /\ at[t] + 1 \in 0..4
        /\ script[t] = "removing" => at[t] + 1 <= 3
        /\ UNCHANGED <<accounts, issued, script, form, reply, page, origin, passed, shown,
                       probe, cause, welcomed>>
    <2>1. at[t] \in 0..4
      BY Zenon DEF TypeOK
    <2>2. CASE setItem(t)
      BY SMTT(60), <2>1, <2>2 DEF setItem, pageVars, serviceVars, Writers
    <2>3. CASE removeItem(t)
      BY SMTT(60), <2>1, <2>3 DEF removeItem, pageVars, serviceVars, Writers
    <2> QED
      BY Zenon, <2>2, <2>3
  <1>3. storage' \in [Origin -> [Key -> Value \cup {None}]]
    BY Zenon, <1>1 DEF TypeOK
  <1>4. TypeOK'
    BY Zenon, <1>2, <1>3 DEF TypeOK
  <1>5. ScriptInv'
    BY ZenonT(60), <1>2 DEF TypeOK, ScriptInv
  <1> QED
    BY Zenon, <1>4, <1>5

\* The dashboard's two listeners keep SessionInv.
LEMMA CheckKeeps ==
    ASSUME SessionInv, NEW t \in Tab, CheckLogin(t) \/ ShowUser(t)
    PROVE  SessionInv'
  <1> USE DEF SessionInv
  <1>1. CASE CheckLogin(t)
    <2>1. Checks(page[t], storage[origin[t]]) \in BOOLEAN
      BY Zenon DEF Checks, Truthy
    <2>2. TypeOK'
      BY Zenon, <1>1, <2>1 DEF CheckLogin, TypeOK, serviceVars
    <2>3. ScriptInv'
      BY Zenon, <1>1 DEF CheckLogin, TypeOK, ScriptInv, Writers
    <2> QED
      BY Zenon, <2>2, <2>3
  <1>2. CASE ShowUser(t)
    <2>1. [k \in DOMAIN Nothing |-> storage[origin[t]][k]]
             \in [user_id : Value \cup {None}, user_name : Value \cup {None},
                  user_role : Value \cup {None}]
      BY SMTT(60) DEF TypeOK, Nothing, Key
    <2>2. TypeOK'
      BY Zenon, <1>2, <2>1 DEF ShowUser, TypeOK, serviceVars
    <2>3. ScriptInv'
      BY Zenon, <1>2 DEF ShowUser, TypeOK, ScriptInv, Writers
    <2> QED
      BY Zenon, <2>2, <2>3
  <1> QED
    BY Zenon, <1>1, <1>2

\* Every step keeps SessionInv.
LEMMA SessionStep ==
    ASSUME SessionInv, [Next]_vars
    PROVE  SessionInv'
  <1>1. CASE UNCHANGED vars
    BY Zenon, <1>1 DEF vars, SessionInv, TypeOK, ScriptInv
  <1>2. CASE DeletedElsewhere
    BY Zenon, <1>2 DEF DeletedElsewhere, pageVars, SessionInv, TypeOK, ScriptInv
  <1>3. ASSUME NEW t \in Tab, TabStep(t)
        PROVE  SessionInv'
    <2>1. origin[t] \in Origin /\ "data" \in Origin
      BY Zenon, SessionAssumption DEF SessionInv, TypeOK
    <2>2. CASE Open(t)
      BY Zenon, <2>2, LoadKeeps DEF Open
    <2>3. CASE LoginRedirect(t)
      BY Zenon, <2>1, <2>3, LoadKeeps DEF LoginRedirect, Page
    <2>4. CASE SentToLogin(t)
      BY Zenon, <2>1, <2>4, LoadKeeps DEF SentToLogin, LoginAddress, Page
    <2>5. CASE redirectToLogin(t)
      BY Zenon, <2>1, <2>5, LoadKeeps DEF redirectToLogin, Page
    <2>6. CASE LogoutRedirect(t)
      BY Zenon, <2>1, <2>6, LoadKeeps DEF LogoutRedirect, Page
    <2>7. CASE RequestFails(t)
      BY Zenon, <2>7, FinallyKeeps DEF RequestFails, Writers, SessionInv, TypeOK
    <2>8. CASE registerUser(t)
      <3>1. welcomed' \subseteq Email \X Id
        BY SMTT(60), <2>8 DEF registerUser, SessionInv, TypeOK, ScriptInv, Account
      <3> QED
        BY Zenon, <2>8, <3>1, FinallyKeeps DEF registerUser, Writers
    <2>9. CASE loginUser(t)
      <3>1. CASE reply[t].tag = "ok"
        BY SMTT(60), <2>9, <3>1 DEF loginUser, Continue, pageVars, serviceVars, SessionInv, TypeOK,
                          ScriptInv, Writers
      <3>2. CASE reply[t].tag /= "ok"
        BY Zenon, <2>9, <3>2, FinallyKeeps DEF loginUser, Writers, SessionInv, TypeOK
      <3> QED
        BY Zenon, <3>1, <3>2
    <2>10. CASE logout(t)
      BY SMTT(60), <2>10 DEF logout, Continue, pageVars, serviceVars, SessionInv, TypeOK, ScriptInv, Writers
    <2> QED
      BY Zenon, <1>3, <2>2, <2>3, <2>4, <2>5, <2>6, <2>7, <2>8, <2>9, <2>10,
         SubmitKeeps, ServeKeeps, StorageKeeps, CheckKeeps DEF TabStep, ScriptStep
  <1> QED
    BY Zenon, <1>1, <1>2, <1>3 DEF Next

\* Every variable of the browser model keeps its type, and a script's position
\* and answer fit what it is doing, for all constants.
THEOREM SessionSafe == Spec => []SessionInv
  <1>1. Init => SessionInv
    BY SMTT(60), SessionAssumption DEF Init, SessionInv, TypeOK, ScriptInv, Page, NoForm, NoAnswer,
       Nothing, Writers
  <1> QED
    BY <1>1, SessionStep, PTL DEF Spec

-----------------------------------------------------------------------------
\* A witness of LoggedInHasIdentity that a step leaves alone stays one.
LEMMA WitnessStays ==
    ASSUME NEW s \in Tab, NEW o \in Origin, NEW k \in Key,
           YetToSet(s, o, k) \/ YetToLogOut(s, o),
           script'[s] = script[s], origin'[s] = origin[s], at'[s] = at[s]
    PROVE  (YetToSet(s, o, k) \/ YetToLogOut(s, o))'
  BY Zenon DEF YetToSet, YetToLogOut

\* Steps that leave storage alone and stop no script before its last access.
LEMMA QuietStep ==
    ASSUME SessionInv, LoggedInHasIdentity, storage' = storage, NEW t \in Tab,
           \A o \in Origin, k \in Key : ~YetToSet(t, o, k) /\ ~YetToLogOut(t, o),
           \A s \in Tab \ {t} : /\ script'[s] = script[s] /\ origin'[s] = origin[s]
                                /\ at'[s] = at[s]
    PROVE  LoggedInHasIdentity'
  <1> SUFFICES ASSUME NEW o \in Origin, NEW k \in Key,
                      Present(o, "is_logged_in")', ~Present(o, k)'
               PROVE  \E s \in Tab : (YetToSet(s, o, k) \/ YetToLogOut(s, o))'
    BY Zenon DEF LoggedInHasIdentity
  <1>1. PICK s \in Tab : YetToSet(s, o, k) \/ YetToLogOut(s, o)
    BY Zenon DEF LoggedInHasIdentity, Present
  <1>2. s /= t
    BY Zenon, <1>1
  <1> QED
    BY Zenon, <1>1, <1>2, WitnessStays

\* A script that is not at its keys, or is through with them, has none to come.
LEMMA NotWriting ==
    ASSUME NEW t \in Tab, NEW o \in Origin, NEW k \in Key,
           \/ script[t] \notin Writers
           \/ script[t] = "writing" /\ at[t] = 4
           \/ script[t] = "removing" /\ at[t] = 3
    PROVE  ~YetToSet(t, o, k) /\ ~YetToLogOut(t, o)
  BY SMTT(60), KeyOrder DEF YetToSet, YetToLogOut, Writers

\* Setting a key: the keys that follow it are still to come.
LEMMA SetItemStep ==
    ASSUME SessionInv, LoggedInHasIdentity, NEW t \in Tab, setItem(t)
    PROVE  LoggedInHasIdentity'
  <1> SUFFICES ASSUME NEW o \in Origin, NEW k \in Key,
                      Present(o, "is_logged_in")', ~Present(o, k)'
               PROVE  \E s \in Tab : (YetToSet(s, o, k) \/ YetToLogOut(s, o))'
    BY Zenon DEF LoggedInHasIdentity
  <1> DEFINE n == at[t] + 1
             key == LoginKeys[n]
  <1>1. /\ n \in 1..4 /\ origin[t] \in Origin /\ key \in Key
        /\ LoginValue(reply[t].user, key) /= None
    <2>1. at[t] \in 0..3 /\ reply[t].user \in Account /\ origin[t] \in Origin
      BY SMTT(60), KeyOrder DEF setItem, SessionInv, TypeOK, ScriptInv
    <2>2. n \in 1..4 /\ key \in Key
      BY SMTT(60), <2>1, KeyOrder DEF Key
    <2>3. \A x \in Key : LoginValue(reply[t].user, x) /= None
      BY Zenon, <2>1, SessionAssumption DEF LoginValue, Key, Account
    <2> QED
      BY Zenon, <2>1, <2>2, <2>3
  <1>2. /\ storage' = [storage EXCEPT ![origin[t]][key] = LoginValue(reply[t].user, key)]
        /\ at' = [at EXCEPT ![t] = n]
        /\ UNCHANGED <<script, origin>> /\ script[t] = "writing"
    BY Zenon DEF setItem, Store, pageVars
  <1>3. ~Present(o, k) /\ ~(o = origin[t] /\ k = key)
    BY ZenonT(60), <1>1, <1>2 DEF Present, SessionInv, TypeOK
  <1>4. at \in [Tab -> 0..4]
    BY Zenon DEF SessionInv, TypeOK
  <1>5. CASE o = origin[t] /\ key = "is_logged_in"
    <2>1. n = 1
      BY SMTT(60), <1>1, <1>5, KeyOrder
    <2>2. \E m \in 2..4 : LoginKeys[m] = k
      BY SMTT(60), <1>3, <1>5, KeyOrder DEF Key
    <2> QED
      BY SMTT(60), <1>2, <1>4, <1>5, <2>1, <2>2, KeyOrder DEF YetToSet
  <1>6. CASE ~(o = origin[t] /\ key = "is_logged_in")
    <2>1. Present(o, "is_logged_in")
      BY SMTT(60), <1>1, <1>2, <1>6 DEF Present, SessionInv, TypeOK
    <2>2. PICK s \in Tab : YetToSet(s, o, k) \/ YetToLogOut(s, o)
      BY Zenon, <1>3, <2>1 DEF LoggedInHasIdentity
    <2>3. CASE s /= t
      BY Zenon, <1>2, <1>4, <2>2, <2>3, WitnessStays DEF SessionInv, TypeOK
    <2>4. CASE s = t
      <3>1. o = origin[t] /\ \E m \in n..4 : LoginKeys[m] = k
        BY Zenon, <1>2, <2>2, <2>4, KeyOrder DEF YetToSet, YetToLogOut
      <3>2. \E m \in (n + 1)..4 : LoginKeys[m] = k
        BY SMTT(60), <1>1, <1>3, <3>1
      <3> QED
        BY Zenon, <1>2, <1>4, <3>1, <3>2, KeyOrder DEF YetToSet
    <2> QED
      BY Zenon, <2>3, <2>4
  <1> QED
    BY Zenon, <1>5, <1>6

\* Removing a key: is_logged_in is still to be removed, until it is.
LEMMA RemoveItemStep ==
    ASSUME SessionInv, LoggedInHasIdentity, NEW t \in Tab, removeItem(t)
    PROVE  LoggedInHasIdentity'
  <1> SUFFICES ASSUME NEW o \in Origin, NEW k \in Key,
                      Present(o, "is_logged_in")', ~Present(o, k)'
               PROVE  \E s \in Tab : (YetToSet(s, o, k) \/ YetToLogOut(s, o))'
    BY Zenon DEF LoggedInHasIdentity
  <1> DEFINE n == at[t] + 1
             key == LogoutKeys[n]
  <1>1. n \in 1..3 /\ origin[t] \in Origin /\ key \in Key /\ at \in [Tab -> 0..4]
    <2>1. origin[t] \in Origin /\ at \in [Tab -> 0..4]
      BY Zenon DEF SessionInv, TypeOK
    <2>2. at[t] < 3
      BY Zenon, KeyOrder DEF removeItem
    <2>3. n \in 1..3
      BY SMTT(60), <2>1, <2>2
    <2> QED
      BY SMTT(60), <2>1, <2>3, KeyOrder DEF Key
  <1>2. /\ storage' = [storage EXCEPT ![origin[t]][key] = None]
        /\ at' = [at EXCEPT ![t] = n]
        /\ UNCHANGED <<script, origin>> /\ script[t] = "removing"
    BY Zenon DEF removeItem, Store, pageVars
  <1>3. CASE o = origin[t]
    <2>1. key /= "is_logged_in"
      BY SMTT(60), <1>1, <1>2, <1>3 DEF Present, SessionInv, TypeOK
    <2>2. n <= 2
      BY SMTT(60), <1>1, <2>1, KeyOrder
    <2> QED
      BY SMTT(60), <1>1, <1>2, <1>3, <2>2, KeyOrder DEF YetToLogOut
  <1>4. CASE o /= origin[t]
    <2>1. Present(o, "is_logged_in") /\ ~Present(o, k)
      BY Zenon, <1>1, <1>2, <1>4 DEF Present, SessionInv, TypeOK
    <2>2. PICK s \in Tab : YetToSet(s, o, k) \/ YetToLogOut(s, o)
      BY Zenon, <2>1 DEF LoggedInHasIdentity
    <2>3. s /= t
      BY Zenon, <1>2, <1>4, <2>2 DEF YetToSet, YetToLogOut
    <2> QED
      BY Zenon, <1>1, <1>2, <2>2, <2>3, WitnessStays
  <1> QED
    BY Zenon, <1>3, <1>4

\* A tab that is not in the middle of its storage accesses does not disturb
\* the property with anything else it does.
LEMMA OtherStep ==
    ASSUME SessionInv, LoggedInHasIdentity, NEW t \in Tab, TabStep(t),
           ~setItem(t), ~removeItem(t)
    PROVE  LoggedInHasIdentity'
  <1>1. /\ storage' = storage
        /\ \/ script[t] \notin Writers
           \/ script[t] = "writing" /\ at[t] = 4
           \/ script[t] = "removing" /\ at[t] = 3
    <2> USE KeyOrder DEF Writers
    <2>1. CASE Open(t) \/ SubmitRegister(t) \/ SubmitLogin(t) \/ Serve(t) \/ RequestFails(t)
      BY Zenon, <2>1 DEF Open, SubmitRegister, SubmitLogin, Serve, RequestFails
    <2>2. CASE registerUser(t) \/ loginUser(t) \/ LoginRedirect(t) \/ CheckLogin(t)
      BY Zenon, <2>2 DEF registerUser, loginUser, LoginRedirect, CheckLogin
    <2>3. CASE ShowUser(t) \/ SentToLogin(t) \/ redirectToLogin(t) \/ logout(t)
               \/ LogoutRedirect(t)
      BY Zenon, <2>3 DEF ShowUser, SentToLogin, redirectToLogin, logout, LogoutRedirect
    <2> QED
      BY Zenon, <2>1, <2>2, <2>3 DEF TabStep, ScriptStep
  <1>2. \A s \in Tab \ {t} : /\ script'[s] = script[s] /\ origin'[s] = origin[s]
                             /\ at'[s] = at[s]
    <2> USE DEF SessionInv, TypeOK, Load, Continue, Finally, pageVars
    <2>1. CASE Open(t) \/ SubmitRegister(t) \/ SubmitLogin(t) \/ Serve(t) \/ RequestFails(t)
      BY ZenonT(60), <2>1 DEF Open, SubmitRegister, SubmitLogin, Serve, RequestFails
    <2>2. CASE registerUser(t) \/ loginUser(t) \/ LoginRedirect(t) \/ CheckLogin(t)
      BY Zenon, <2>2 DEF registerUser, loginUser, LoginRedirect, CheckLogin
    <2>3. CASE ShowUser(t) \/ SentToLogin(t) \/ redirectToLogin(t) \/ logout(t)
               \/ LogoutRedirect(t)
      BY SMTT(60), <2>3 DEF ShowUser, SentToLogin, redirectToLogin, logout, LogoutRedirect
    <2> QED
      BY Zenon, <2>1, <2>2, <2>3 DEF TabStep, ScriptStep
  <1>3. \A o \in Origin, k \in Key : ~YetToSet(t, o, k) /\ ~YetToLogOut(t, o)
    BY Zenon, <1>1, NotWriting
  <1> QED
    BY Zenon, <1>1, <1>2, <1>3, QuietStep

\* For any number of tabs and hosts: wherever is_logged_in is set, the rest of
\* the login is there, or a login or logout that accounts for the gap is under
\* way (the orders of setItem in login/index.html and of removeItem in
\* dashboard/index.html).
THEOREM LoginNeverHalf == Spec => []LoggedInHasIdentity
  <1>1. Init => LoggedInHasIdentity
    BY SMTT(60) DEF Init, LoggedInHasIdentity, Present, Key
  <1>2. SessionInv /\ LoggedInHasIdentity /\ [Next]_vars => LoggedInHasIdentity'
    <2> SUFFICES ASSUME SessionInv, LoggedInHasIdentity, [Next]_vars
                 PROVE  LoggedInHasIdentity'
      OBVIOUS
    <2>1. CASE UNCHANGED vars \/ DeletedElsewhere
      BY SMTT(60), <2>1 DEF vars, DeletedElsewhere, pageVars, LoggedInHasIdentity, Present, YetToSet,
         YetToLogOut
    <2>2. ASSUME NEW t \in Tab, TabStep(t)
          PROVE  LoggedInHasIdentity'
      BY Zenon, <2>2, SetItemStep, RemoveItemStep, OtherStep
    <2> QED
      BY Zenon, <2>1, <2>2 DEF Next
  <1> QED
    BY <1>1, <1>2, SessionSafe, PTL DEF Spec

-----------------------------------------------------------------------------
(* One tab.  Between two accesses of its own script nothing else touches     *)
(* localStorage, so that the keys of an origin are those of one account, or  *)
(* there is no login, except in the middle of a login or a logout.           *)

Identity(u) == [user_id |-> u.id, user_name |-> u.name, user_role |-> u.role]
LoggedInAs(o, u) == \A k \in Key : storage[o][k] = LoginValue(u, k)
LoggedOut(o) == \A k \in Key \ {"user_role"} : ~Present(o, k)
AtRest(o) == LoggedOut(o) \/ \E u \in issued : LoggedInAs(o, u)

\* What the storage holds, and what a script has done to it so far.
StoreInv(t) ==
    /\ \A o \in Origin : AtRest(o) \/ (script[t] \in Writers /\ at[t] /= 0 /\ origin[t] = o)
    /\ reply[t].tag = "ok" => reply[t].user \in issued
    /\ script[t] = "writing" => \A n \in 1..at[t] :
         storage[origin[t]][LoginKeys[n]] = LoginValue(reply[t].user, LoginKeys[n])
    /\ script[t] = "removing" => \A n \in 1..at[t] : ~Present(origin[t], LogoutKeys[n])

\* What the page shows was read from a storage at rest.
ViewInv(t) ==
    /\ script[t] \in {"sent", "served", "writing"} => page[t] /= "dashboard"
    /\ script[t] = "showing" /\ passed[t] => Present(origin[t], "is_logged_in")
    /\ page[t] = "dashboard" /\ passed[t] /\ script[t] = "idle" =>
         \E u \in issued : shown[t] = Identity(u)
    /\ cause[t] = "logout" =>
         page[t] = "home" /\ script[t] = "idle" /\ LoggedOut(origin[t])

\* The dashboard a login leads to reads what the login wrote.
LoginInv(t) ==
    cause[t] = "login" =>
        /\ page[t] = "dashboard" /\ origin[t] = "data" /\ ~probe[t]
        /\ script[t] \in {"checking", "showing"} => \E u \in issued : LoggedInAs("data", u)
        /\ script[t] = "showing" /\ ~passed[t] => storage["data"]["user_name"] = NoName
        /\ script[t] = "leaving" => shown[t].user_name = NoName

OneTabInv == \A t \in Tab : StoreInv(t) /\ ViewInv(t) /\ LoginInv(t)

\* With one tab the invariant is about that tab.
LEMMA OneTabIs ==
    ASSUME NEW t \in Tab, \A s \in Tab : s = t, (StoreInv(t) /\ ViewInv(t) /\ LoginInv(t))'
    PROVE  OneTabInv'
  <1>1. ASSUME NEW s \in Tab PROVE (StoreInv(s) /\ ViewInv(s) /\ LoginInv(s))'
    <2>1. s = t
      BY Zenon
    <2> QED BY <2>1, Zenon
  <1> QED BY <1>1, Zenon DEF OneTabInv

\* What is at rest, or logged in, stays so while the storage does.
LEMMA RestStays ==
    ASSUME storage' = storage, issued \subseteq issued'
    PROVE  /\ \A o \in Origin : AtRest(o) => AtRest(o)'
           /\ \A o : LoggedOut(o) => LoggedOut(o)'
           /\ \A o : (\E u \in issued : LoggedInAs(o, u)) => (\E u \in issued : LoggedInAs(o, u))'
  <1>1. ASSUME NEW o, LoggedOut(o) PROVE LoggedOut(o)'
    BY <1>1, Zenon DEF LoggedOut, Present
  <1>2. ASSUME NEW o, NEW u \in issued, LoggedInAs(o, u) PROVE (\E w \in issued : LoggedInAs(o, w))'
    <2>1. LoggedInAs(o, u)'
      BY <1>2, Zenon DEF LoggedInAs
    <2> QED BY <2>1, Zenon
  <1> QED BY <1>1, <1>2, Zenon DEF AtRest

\* The effect of loading a page, on the tab it is loaded in.
LEMMA LoadIs ==
    ASSUME TypeOK, NEW t \in Tab, NEW o, NEW p, NEW after, Load(t, o, p, after)
    PROVE  /\ page'[t] = p /\ origin'[t] = o /\ at'[t] = 0 /\ reply'[t] = NoAnswer
           /\ script'[t] = IF p \in {"dashboard", "visualization"} THEN "checking" ELSE "idle"
           /\ passed'[t] = FALSE /\ shown'[t] = Nothing /\ cause'[t] = after
           /\ probe'[t] = (p = "dashboard" /\ o = "dev")
  BY Zenon DEF TypeOK, Load

\* Loading a page keeps the invariant of one tab when the storage is at rest.
LEMMA LoadOneTab ==
    ASSUME TypeOK, NEW t \in Tab, \A s \in Tab : s = t,
           NEW o \in Origin, NEW p, NEW after, Load(t, o, p, after),
           UNCHANGED <<serviceVars, storage, welcomed>>,
           \A x \in Origin : AtRest(x),
           after = "logout" => p = "home" /\ LoggedOut(o),
           after = "login" => p = "dashboard" /\ o = "data" /\ \E u \in issued : LoggedInAs("data", u)
    PROVE  OneTabInv'
  <1>1. storage' = storage /\ issued' = issued
    BY Zenon DEF serviceVars
  <1>2. script'[t] \in {"checking", "idle"} /\ (p = "home" => script'[t] = "idle")
    BY LoadIs, Zenon
  <1>3. StoreInv(t)'
    <2>1. \A x \in Origin : AtRest(x)'
      BY <1>1, RestStays, Zenon
    <2>2. reply'[t].tag /= "ok"
      <3>1. reply'[t] = NoAnswer /\ NoAnswer.tag = "none"
        BY LoadIs, Zenon DEF NoAnswer
      <3> QED BY <3>1, Zenon
    <2> QED BY <1>2, <2>1, <2>2, SMT DEF StoreInv
  <1>4. ViewInv(t)'
    <2>1. p = "home" /\ LoggedOut(o) => LoggedOut(origin[t])'
      BY <1>1, LoadIs, Zenon DEF LoggedOut, Present
    <2>2. /\ page'[t] = p /\ ~passed'[t] /\ cause'[t] = after
          /\ script'[t] \notin {"sent", "served", "writing"}
      BY <1>2, LoadIs, Zenon
    <2> QED BY <1>2, <2>1, <2>2, Zenon DEF ViewInv
  <1>5. LoginInv(t)'
    <2>1. ASSUME after = "login"
          PROVE  p = "dashboard" /\ o = "data" /\ (\E u \in issued : LoggedInAs("data", u))'
      BY <1>1, <2>1, RestStays, Zenon
    <2>2. /\ page'[t] = p /\ origin'[t] = o /\ cause'[t] = after
          /\ probe'[t] = (p = "dashboard" /\ o = "dev")
          /\ script'[t] \notin {"showing", "leaving"}
      BY <1>2, LoadIs, Zenon
    <2> QED BY <2>1, <2>2, Zenon DEF LoginInv
  <1> QED BY <1>3, <1>4, <1>5, OneTabIs, Zenon

\* The storage of the other origins stays at rest while one is written.
LEMMA OthersAtRest ==
    ASSUME TypeOK, NEW p \in Origin, NEW k \in Key, NEW v, UNCHANGED issued,
           storage' = [storage EXCEPT ![p][k] = v], NEW o \in Origin, o /= p, AtRest(o)
    PROVE  AtRest(o)'
  <1>1. storage'[o] = storage[o]
    BY Zenon DEF TypeOK
  <1>2. LoggedOut(o) => LoggedOut(o)'
    BY <1>1, Zenon DEF LoggedOut, Present
  <1>3. ASSUME NEW u \in issued, LoggedInAs(o, u) PROVE AtRest(o)'
    <2>1. LoggedInAs(o, u)'
      BY <1>1, <1>3, Zenon DEF LoggedInAs
    <2> QED BY <2>1, Zenon DEF AtRest
  <1> QED BY <1>2, <1>3, Zenon DEF AtRest

\* Each setItem of a login keeps it.
LEMMA SetItemOneTab ==
    ASSUME SessionInv, OneTabInv, NEW t \in Tab, \A s \in Tab : s = t, setItem(t)
    PROVE  OneTabInv'
  <1>1. StoreInv(t) /\ ViewInv(t) /\ LoginInv(t) /\ TypeOK /\ ScriptInv
    BY Zenon DEF OneTabInv, SessionInv
  <1>2. PICK a \in 0..3 : a = at[t]
    BY <1>1, KeyOrder, SMT DEF setItem, TypeOK
  <1>3. PICK o \in Origin : o = origin[t]
    BY <1>1, Zenon DEF TypeOK
  <1>4. PICK w : w = reply[t].user
    OBVIOUS
  <1>5. PICK k : k = LoginKeys[a + 1]
    OBVIOUS
  <1>6. k \in Key /\ \A n \in 1..a : LoginKeys[n] \in Key /\ LoginKeys[n] /= k
    BY <1>2, <1>5, KeyOrder, SMT DEF Key
  <1>7. /\ storage' = [storage EXCEPT ![o][k] = LoginValue(w, k)]
        /\ at' = [at EXCEPT ![t] = a + 1] /\ script[t] = "writing"
        /\ UNCHANGED <<issued, script, reply, page, origin, passed, shown, probe, cause>>
    BY <1>2, <1>3, <1>4, <1>5, Zenon DEF setItem, Store, pageVars, serviceVars
  <1>8. at'[t] = a + 1 /\ a + 1 /= 0
    BY <1>1, <1>2, <1>7, SMT DEF TypeOK
  <1>9. /\ storage'[o][k] = LoginValue(w, k)
        /\ \A x \in Key : x /= k => storage'[o][x] = storage[o][x]
    BY <1>1, <1>6, <1>7, ZenonT(60) DEF TypeOK
  <1>10. ASSUME NEW n \in 1..(a + 1)
         PROVE  storage'[o][LoginKeys[n]] = LoginValue(w, LoginKeys[n])
    <2>1. CASE n \in 1..a
      <3>1. storage[o][LoginKeys[n]] = LoginValue(w, LoginKeys[n])
        BY <1>1, <1>2, <1>3, <1>4, <1>7, <2>1, Zenon DEF StoreInv
      <3> QED BY <1>6, <1>9, <2>1, <3>1, Zenon
    <2>2. CASE n = a + 1
      BY <1>5, <1>9, <2>2, Zenon
    <2> QED BY <1>2, <2>1, <2>2, SMT
  <1>11. \A x \in Origin : AtRest(x)' \/ x = o
    BY <1>1, <1>3, <1>6, <1>7, OthersAtRest, Zenon DEF StoreInv, ViewInv
  <1>12. StoreInv(t)'
    <2>1. \A x \in Origin : AtRest(x)' \/ (script'[t] \in Writers /\ at'[t] /= 0 /\ origin'[t] = x)
      BY <1>3, <1>7, <1>8, <1>11, Zenon DEF Writers
    <2>2. \A n \in 1..at'[t] :
            storage'[origin'[t]][LoginKeys[n]] = LoginValue(reply'[t].user, LoginKeys[n])
      BY <1>3, <1>4, <1>7, <1>8, <1>10, Zenon
    <2>3. script'[t] = "writing" /\ (reply'[t].tag = "ok" => reply'[t].user \in issued')
      BY <1>1, <1>7, Zenon DEF StoreInv
    <2> QED BY <2>1, <2>2, <2>3, Zenon DEF StoreInv
  <1>13. page[t] /= "dashboard" /\ cause[t] \notin {"login", "logout"}
    BY <1>1, <1>7, Zenon DEF ViewInv, LoginInv
  <1>14. ViewInv(t)' /\ LoginInv(t)'
    BY <1>7, <1>13, Zenon DEF ViewInv, LoginInv
  <1> QED BY <1>12, <1>14, OneTabIs, Zenon

\* Each removeItem of a logout keeps it.
LEMMA RemoveItemOneTab ==
    ASSUME SessionInv, OneTabInv, NEW t \in Tab, \A s \in Tab : s = t, removeItem(t)
    PROVE  OneTabInv'
  <1>1. StoreInv(t) /\ ViewInv(t) /\ LoginInv(t) /\ TypeOK /\ ScriptInv
    BY Zenon DEF OneTabInv, SessionInv
  <1>2. PICK a \in 0..2 : a = at[t]
    BY <1>1, KeyOrder, SMT DEF removeItem, TypeOK
  <1>3. PICK o \in Origin : o = origin[t]
    BY <1>1, Zenon DEF TypeOK
  <1>4. PICK k : k = LogoutKeys[a + 1]
    OBVIOUS
  <1>5. k \in Key /\ \A n \in 1..a : LogoutKeys[n] \in Key /\ LogoutKeys[n] /= k
    BY <1>2, <1>4, KeyOrder, SMT DEF Key
  <1>6. /\ storage' = [storage EXCEPT ![o][k] = None]
        /\ at' = [at EXCEPT ![t] = a + 1] /\ script[t] = "removing"
        /\ UNCHANGED <<issued, script, reply, page, origin, passed, shown, probe, cause>>
    BY <1>2, <1>3, <1>4, Zenon DEF removeItem, Store, pageVars, serviceVars
  <1>7. at'[t] = a + 1 /\ a + 1 /= 0
    BY <1>1, <1>2, <1>6, SMT DEF TypeOK
  <1>8. /\ storage'[o][k] = None
        /\ \A x \in Key : x /= k => storage'[o][x] = storage[o][x]
    BY <1>1, <1>5, <1>6, Zenon DEF TypeOK
  <1>9. ASSUME NEW n \in 1..(a + 1) PROVE storage'[o][LogoutKeys[n]] = None
    <2>1. CASE n \in 1..a
      <3>1. storage[o][LogoutKeys[n]] = None
        BY <1>1, <1>2, <1>3, <1>6, <2>1, Zenon DEF StoreInv, Present
      <3> QED BY <1>5, <1>8, <2>1, <3>1, Zenon
    <2>2. CASE n = a + 1
      BY <1>4, <1>8, <2>2, Zenon
    <2> QED BY <1>2, <2>1, <2>2, SMT
  <1>10. \A x \in Origin : AtRest(x)' \/ x = o
    BY <1>1, <1>3, <1>5, <1>6, OthersAtRest, Zenon DEF StoreInv, ViewInv
  <1>11. StoreInv(t)'
    <2>1. \A x \in Origin : AtRest(x)' \/ (script'[t] \in Writers /\ at'[t] /= 0 /\ origin'[t] = x)
      BY <1>3, <1>6, <1>7, <1>10, Zenon DEF Writers
    <2>2. \A n \in 1..at'[t] : storage'[origin'[t]][LogoutKeys[n]] = None
      BY <1>3, <1>6, <1>7, <1>9, Zenon
    <2>3. script'[t] = "removing" /\ (reply'[t].tag = "ok" => reply'[t].user \in issued')
      BY <1>1, <1>6, Zenon DEF StoreInv
    <2> QED BY <2>1, <2>2, <2>3, Zenon DEF StoreInv, Present
  <1>12. cause[t] /= "logout"
    BY <1>1, <1>6, Zenon DEF ViewInv
  <1>13. ViewInv(t)' /\ LoginInv(t)'
    BY <1>1, <1>6, <1>12, Zenon DEF ViewInv, LoginInv
  <1> QED BY <1>11, <1>13, OneTabIs, Zenon

\* The last access of a login and of a logout leaves the storage at rest.
LEMMA RedirectOneTab ==
    ASSUME SessionInv, OneTabInv, NEW t \in Tab, \A s \in Tab : s = t,
           Open(t) \/ LoginRedirect(t) \/ SentToLogin(t) \/ redirectToLogin(t) \/ LogoutRedirect(t)
    PROVE  OneTabInv'
  <1>1. StoreInv(t) /\ ViewInv(t) /\ LoginInv(t) /\ TypeOK /\ ScriptInv
    BY Zenon DEF OneTabInv, SessionInv
  <1>2. PICK o \in Origin : o = origin[t]
    BY <1>1, Zenon DEF TypeOK
  <1>3. "data" \in Origin
    BY SessionAssumption, Zenon DEF SessionAssumption
  <1>4. CASE Open(t) \/ SentToLogin(t) \/ redirectToLogin(t)
    <2>1. \A x \in Origin : AtRest(x)
      BY <1>1, <1>4, Zenon DEF StoreInv, Open, SentToLogin, redirectToLogin, Writers
    <2>2. PICK x \in Origin, p \in Page, after \in {"visit", "check", "probe"} :
            Load(t, x, p, after)
      BY <1>2, <1>3, <1>4, Zenon DEF Open, SentToLogin, redirectToLogin, Page, LoginAddress
    <2>3. UNCHANGED <<serviceVars, storage, welcomed>>
      BY <1>4, Zenon DEF Open, SentToLogin, redirectToLogin
    <2>4. after /= "login" /\ after /= "logout"
      BY <2>2, Zenon
    <2> QED BY <1>1, <2>1, <2>2, <2>3, <2>4, LoadOneTab, Zenon
  <1>5. CASE LoginRedirect(t)
    <2>1. script[t] = "writing" /\ at[t] = 4
      BY <1>5, KeyOrder, Zenon DEF LoginRedirect
    <2>2. PICK u \in issued : u = reply[t].user
      BY <1>1, <2>1, Zenon DEF StoreInv, ScriptInv
    <2>3. LoggedInAs(o, u)
      <3>1. \A n \in 1..4 : storage[o][LoginKeys[n]] = LoginValue(u, LoginKeys[n])
        BY <1>1, <1>2, <2>1, <2>2, Zenon DEF StoreInv
      <3>2. \A k \in Key : \E n \in 1..4 : LoginKeys[n] = k
        BY KeyOrder, SMT DEF Key
      <3> QED BY <3>1, <3>2, Zenon DEF LoggedInAs
    <2>4. \A x \in Origin : AtRest(x)
      BY <1>1, <1>2, <2>3, Zenon DEF StoreInv, AtRest
    <2>5. Load(t, "data", "dashboard", IF o = "data" THEN "login" ELSE "foreign")
      BY <1>2, <1>5, Zenon DEF LoginRedirect
    <2>6. PICK after : after = IF o = "data" THEN "login" ELSE "foreign"
      OBVIOUS
    <2>7. after /= "logout" /\ (after = "login" => \E w \in issued : LoggedInAs("data", w))
      BY <2>3, <2>6, Zenon
    <2>8. UNCHANGED <<serviceVars, storage, welcomed>>
      BY <1>5, Zenon DEF LoginRedirect
    <2>9. Load(t, "data", "dashboard", after)
      BY <2>5, <2>6, Zenon
    <2> QED BY <1>1, <1>3, <2>4, <2>7, <2>8, <2>9, LoadOneTab, Zenon
  <1>6. CASE LogoutRedirect(t)
    <2>1. script[t] = "removing" /\ at[t] = 3 /\ Load(t, o, "home", "logout")
      BY <1>2, <1>6, KeyOrder, Zenon DEF LogoutRedirect
    <2>2. LoggedOut(o)
      <3>1. \A n \in 1..3 : ~Present(o, LogoutKeys[n])
        BY <1>1, <1>2, <2>1, Zenon DEF StoreInv
      <3>2. \A k \in Key \ {"user_role"} : \E n \in 1..3 : LogoutKeys[n] = k
        BY KeyOrder, SMT DEF Key
      <3> QED BY <3>1, <3>2, Zenon DEF LoggedOut
    <2>3. \A x \in Origin : AtRest(x)
      BY <1>1, <1>2, <2>2, Zenon DEF StoreInv, AtRest
    <2>4. UNCHANGED <<serviceVars, storage, welcomed>>
      BY <1>6, Zenon DEF LogoutRedirect
    <2> QED BY <1>1, <2>1, <2>2, <2>3, <2>4, LoadOneTab, Zenon
  <1> QED BY <1>4, <1>5, <1>6

\* The steps that move a script on and leave the page and the storage alone.
LEMMA ContinueOneTab ==
    ASSUME SessionInv, OneTabInv, NEW t \in Tab, \A s \in Tab : s = t,
           NEW s \in {"sent", "served", "idle", "writing", "removing"},
           Continue(t, s), UNCHANGED <<storage, at>>, issued \subseteq issued',
           script[t] \notin Writers, cause[t] /= "logout",
           s = "removing" \/ page[t] /= "dashboard",
           reply'[t].tag = "ok" => reply'[t].user \in issued'
    PROVE  OneTabInv'
  <1>1. StoreInv(t) /\ ViewInv(t) /\ LoginInv(t) /\ TypeOK /\ ScriptInv
    BY Zenon DEF OneTabInv, SessionInv
  <1>2. at'[t] = 0 /\ script'[t] = s
    BY <1>1, Zenon DEF ScriptInv, Continue, TypeOK
  <1>3. UNCHANGED <<page, origin, passed, shown, probe, cause>>
    BY Zenon DEF Continue, pageVars
  <1>4. StoreInv(t)'
    <2>1. \A x \in Origin : AtRest(x)'
      BY <1>1, RestStays, Zenon DEF StoreInv
    <2>2. 1..at'[t] = {}
      BY <1>2, SMT
    <2> QED BY <2>1, <2>2, Zenon DEF StoreInv
  <1>5. ViewInv(t)'
    BY <1>2, <1>3, Zenon DEF ViewInv
  <1>6. LoginInv(t)'
    BY <1>1, <1>2, <1>3, Zenon DEF LoginInv
  <1> QED BY <1>4, <1>5, <1>6, OneTabIs, Zenon

\* Submitting a form, the service, and the scripts that act on its answer keep it.
LEMMA RequestOneTab ==
    ASSUME SessionInv, OneTabInv, NEW t \in Tab, \A s \in Tab : s = t,
           \/ SubmitRegister(t) \/ SubmitLogin(t) \/ Serve(t) \/ RequestFails(t)
           \/ registerUser(t) \/ loginUser(t) \/ logout(t)
    PROVE  OneTabInv'
  <1>1. StoreInv(t) /\ ViewInv(t) /\ LoginInv(t) /\ TypeOK /\ ScriptInv
    BY Zenon DEF OneTabInv, SessionInv
  <1>2. NoAnswer.tag /= "ok"
    <2>1. NoAnswer.tag = "none"
      BY Zenon DEF NoAnswer
    <2> QED BY <2>1, Zenon
  <1>3. CASE SubmitRegister(t) \/ SubmitLogin(t)
    <2>1. /\ page[t] \in {"register", "login"} /\ script[t] = "idle" /\ Continue(t, "sent")
          /\ UNCHANGED <<storage, at, issued, reply>>
      BY <1>3, Zenon DEF SubmitRegister, SubmitLogin, serviceVars
    <2>2. cause[t] /= "logout" /\ page[t] /= "dashboard" /\ script[t] \notin Writers
      BY <1>1, <2>1, Zenon DEF ViewInv, Writers
    <2>3. reply'[t].tag = "ok" => reply'[t].user \in issued'
      BY <1>1, <2>1, Zenon DEF StoreInv
    <2> QED BY <2>1, <2>2, <2>3, ContinueOneTab, Zenon
  <1>4. CASE logout(t)
    <2>1. /\ page[t] = "dashboard" /\ script[t] = "idle" /\ Continue(t, "removing")
          /\ UNCHANGED <<storage, at, issued, reply>>
      BY <1>4, Zenon DEF logout, serviceVars
    <2>2. cause[t] /= "logout" /\ script[t] \notin Writers
      BY <1>1, <2>1, Zenon DEF ViewInv, Writers
    <2>3. reply'[t].tag = "ok" => reply'[t].user \in issued'
      BY <1>1, <2>1, Zenon DEF StoreInv
    <2> QED BY <2>1, <2>2, <2>3, ContinueOneTab, Zenon
  <1>5. CASE Serve(t)
    <2>1. script[t] = "sent" /\ Continue(t, "served") /\ UNCHANGED <<storage, at>>
      BY <1>5, Zenon DEF Serve
    <2>2. cause[t] /= "logout" /\ page[t] /= "dashboard" /\ script[t] \notin Writers
      BY <1>1, <2>1, Zenon DEF ViewInv, Writers
    <2>3. /\ issued \subseteq issued'
          /\ \E a : reply' = [reply EXCEPT ![t] = a] /\ (a.tag = "ok" => a.user \in issued')
      <3>1. CASE form[t].kind = "register" /\ HeldBy(form[t].sent) = {}
        <4>1. PICK u : issued' = issued \cup {u} /\ reply' = [reply EXCEPT ![t] = Success(u)]
          BY <1>5, <3>1, Zenon DEF Serve
        <4>2. Success(u).user = u
          BY Zenon DEF Success
        <4> QED BY <4>1, <4>2, Zenon
      <3>2. CASE /\ UNCHANGED serviceVars
                 /\ \E why \in {"refused", "unknown"} : reply' = [reply EXCEPT ![t] = Refusal(why)]
        <4>1. PICK why \in {"refused", "unknown"} : reply' = [reply EXCEPT ![t] = Refusal(why)]
          BY <3>2, Zenon
        <4>2. Refusal(why).tag = why /\ why /= "ok"
          BY Zenon DEF Refusal
        <4> QED BY <3>2, <4>1, <4>2, Zenon DEF serviceVars
      <3>3. CASE /\ UNCHANGED serviceVars
                 /\ \E u \in accounts : reply' = [reply EXCEPT ![t] = Success(u)]
        <4>1. PICK u \in accounts : reply' = [reply EXCEPT ![t] = Success(u)]
          BY <3>3, Zenon
        <4>2. Success(u).user = u /\ issued' = issued /\ u \in issued
          BY <1>1, <3>3, Zenon DEF Success, serviceVars, TypeOK
        <4> QED BY <4>1, <4>2, Zenon
      <3> QED BY <1>5, <3>1, <3>2, <3>3, Zenon DEF Serve, HeldBy
    <2>4. reply'[t].tag = "ok" => reply'[t].user \in issued'
      BY <1>1, <2>3, Zenon DEF TypeOK
    <2> QED BY <2>1, <2>2, <2>3, <2>4, ContinueOneTab, Zenon
  <1>6. CASE RequestFails(t) \/ registerUser(t) \/ (loginUser(t) /\ reply[t].tag /= "ok")
    <2>1. script[t] \in {"sent", "served"} /\ Finally(t) /\ UNCHANGED <<storage, at, issued>>
      BY <1>6, Zenon DEF RequestFails, registerUser, loginUser, serviceVars
    <2>2. cause[t] /= "logout" /\ page[t] /= "dashboard" /\ script[t] \notin Writers
      BY <1>1, <2>1, Zenon DEF ViewInv, Writers
    <2>3. reply'[t] = NoAnswer /\ Continue(t, "idle")
      BY <1>1, <2>1, Zenon DEF Finally, TypeOK
    <2>4. reply'[t].tag = "ok" => reply'[t].user \in issued'
      BY <1>2, <2>3, Zenon
    <2> QED BY <2>1, <2>2, <2>3, <2>4, ContinueOneTab, Zenon
  <1>7. CASE loginUser(t) /\ reply[t].tag = "ok"
    <2>1. /\ script[t] = "served" /\ Continue(t, "writing")
          /\ UNCHANGED <<storage, at, issued, reply>>
      BY <1>7, Zenon DEF loginUser, serviceVars
    <2>2. cause[t] /= "logout" /\ page[t] /= "dashboard" /\ script[t] \notin Writers
      BY <1>1, <2>1, Zenon DEF ViewInv, Writers
    <2>3. reply'[t].tag = "ok" => reply'[t].user \in issued'
      BY <1>1, <2>1, Zenon DEF StoreInv
    <2> QED BY <2>1, <2>2, <2>3, ContinueOneTab, Zenon
  <1> QED BY <1>3, <1>4, <1>5, <1>6, <1>7

\* The dashboard's listeners read one storage at rest.
LEMMA CheckOneTab ==
    ASSUME SessionInv, OneTabInv, NEW t \in Tab, \A s \in Tab : s = t, CheckLogin(t)
    PROVE  OneTabInv'
  <1>1. StoreInv(t) /\ ViewInv(t) /\ LoginInv(t) /\ TypeOK /\ ScriptInv
    BY Zenon DEF OneTabInv, SessionInv
  <1>2. PICK ok \in BOOLEAN : ok = Checks(page[t], storage[origin[t]])
    BY Zenon DEF Checks, Truthy
  <1>3. /\ script[t] = "checking" /\ passed'[t] = ok
        /\ script'[t] = IF page[t] = "dashboard" THEN "showing" ELSE IF ok THEN "idle" ELSE "leaving"
        /\ UNCHANGED <<issued, storage, at, reply, page, origin, shown, probe, cause>>
    BY <1>1, <1>2, Zenon DEF CheckLogin, TypeOK, serviceVars
  <1>4. StoreInv(t)'
    <2>1. \A x \in Origin : AtRest(x)'
      BY <1>1, <1>3, RestStays, Zenon DEF StoreInv, Writers
    <2>2. script'[t] \notin Writers
      BY <1>3, Zenon DEF Writers
    <2> QED BY <1>1, <1>3, <2>1, <2>2, Zenon DEF StoreInv, Writers
  <1>5. page[t] = "dashboard" /\ ok => Present(origin[t], "is_logged_in")
    BY <1>2, Zenon DEF Checks, Truthy, Present
  <1>6. cause[t] /= "logout"
    BY <1>1, <1>3, Zenon DEF ViewInv
  <1>7. ViewInv(t)'
    BY <1>3, <1>5, <1>6, Zenon DEF ViewInv, Present
  <1>8. ASSUME cause[t] = "login", ~ok PROVE storage["data"]["user_name"] = NoName
    <2>1. PICK u \in issued : LoggedInAs("data", u)
      BY <1>1, <1>3, <1>8, Zenon DEF LoginInv
    <2>2. storage["data"]["is_logged_in"] = "true" /\ storage["data"]["user_name"] = u.name
      BY <2>1, SMT DEF LoggedInAs, LoginValue, Key
    <2>3. u.name \in Name
      BY <1>1, <2>1, Zenon DEF TypeOK, Account
    <2>4. Truthy("true")
      BY SessionAssumption, Zenon DEF SessionAssumption, Truthy
    <2>5. page[t] = "dashboard" /\ origin[t] = "data"
      BY <1>1, <1>8, Zenon DEF LoginInv
    <2>6. ~Truthy(u.name)
      BY <1>2, <1>8, <2>2, <2>4, <2>5, Zenon DEF Checks
    <2>7. u.name = NoName
      BY <2>3, <2>6, SessionAssumption, Zenon DEF SessionAssumption, Truthy
    <2> QED BY <2>2, <2>7
  <1>9. LoginInv(t)'
    <2>1. (\E u \in issued : LoggedInAs("data", u)) => (\E u \in issued : LoggedInAs("data", u))'
      BY <1>3, RestStays, Zenon
    <2>2. cause[t] = "login" => script'[t] = "showing"
      BY <1>1, <1>3, Zenon DEF LoginInv
    <2> QED BY <1>1, <1>3, <1>8, <2>1, <2>2, Zenon DEF LoginInv
  <1> QED BY <1>4, <1>7, <1>9, OneTabIs, Zenon

\* The dashboard showing the user keeps it.
LEMMA ShowOneTab ==
    ASSUME SessionInv, OneTabInv, NEW t \in Tab, \A s \in Tab : s = t, ShowUser(t)
    PROVE  OneTabInv'
  <1>1. StoreInv(t) /\ ViewInv(t) /\ LoginInv(t) /\ TypeOK /\ ScriptInv
    BY Zenon DEF OneTabInv, SessionInv
  <1>2. /\ script[t] = "showing"
        /\ shown'[t] = [k \in DOMAIN Nothing |-> storage[origin[t]][k]]
        /\ script'[t] = IF passed[t] THEN "idle" ELSE "leaving"
        /\ UNCHANGED <<issued, storage, at, reply, page, origin, passed, probe, cause>>
    BY <1>1, Zenon DEF ShowUser, TypeOK, serviceVars
  <1>3. \A x \in Origin : AtRest(x)
    BY <1>1, <1>2, Zenon DEF StoreInv, Writers
  <1>4. StoreInv(t)'
    <2>1. \A x \in Origin : AtRest(x)'
      BY <1>2, <1>3, RestStays, Zenon
    <2>2. script'[t] \notin Writers
      BY <1>2, Zenon DEF Writers
    <2> QED BY <1>1, <1>2, <2>1, <2>2, Zenon DEF StoreInv, Writers
  <1>5. cause[t] /= "logout"
    BY <1>1, <1>2, Zenon DEF ViewInv
  <1>6. ASSUME passed[t] PROVE \E u \in issued : shown'[t] = Identity(u)
    <2>1. Present(origin[t], "is_logged_in") /\ origin[t] \in Origin
      BY <1>1, <1>2, <1>6, Zenon DEF ViewInv, TypeOK
    <2>2. ~LoggedOut(origin[t])
      BY <2>1, SMT DEF LoggedOut, Key
    <2>3. PICK u \in issued : LoggedInAs(origin[t], u)
      BY <1>3, <2>1, <2>2, Zenon DEF AtRest
    <2>4. PICK f : f = storage[origin[t]]
      OBVIOUS
    <2>5. f["user_id"] = u.id /\ f["user_name"] = u.name /\ f["user_role"] = u.role
      BY <2>3, <2>4, SMT DEF LoggedInAs, LoginValue, Key
    <2>6. shown'[t] = [user_id |-> f["user_id"], user_name |-> f["user_name"],
                       user_role |-> f["user_role"]]
      BY <1>2, <2>4, SMT DEF Nothing
    <2> QED BY <2>3, <2>5, <2>6, Zenon DEF Identity
  <1>7. ViewInv(t)'
    BY <1>2, <1>5, <1>6, Zenon DEF ViewInv
  <1>8. shown'[t].user_name = storage[origin[t]]["user_name"]
    BY <1>2, SMT DEF Nothing
  <1>9. LoginInv(t)'
    BY <1>1, <1>2, <1>8, Zenon DEF LoginInv
  <1> QED BY <1>4, <1>7, <1>9, OneTabIs, Zenon

\* What other clients do to the accounts, and what no step does.
LEMMA ElsewhereOneTab ==
    ASSUME SessionInv, OneTabInv, DeletedElsewhere \/ UNCHANGED vars
    PROVE  OneTabInv'
  <1>1. /\ UNCHANGED <<issued, storage, script, at, reply, page, origin, passed, shown, probe, cause>>
    BY Zenon DEF DeletedElsewhere, vars, pageVars
  <1>2. ASSUME NEW t \in Tab PROVE (StoreInv(t) /\ ViewInv(t) /\ LoginInv(t))'
    <2>1. StoreInv(t) /\ ViewInv(t) /\ LoginInv(t)
      BY Zenon DEF OneTabInv
    <2>2. StoreInv(t)'
      BY <1>1, <2>1, RestStays, Zenon DEF StoreInv, Present
    <2>3. ViewInv(t)'
      BY <1>1, <2>1, Zenon DEF ViewInv, Present, LoggedOut
    <2>4. LoginInv(t)'
      BY <1>1, <2>1, Zenon DEF LoginInv, LoggedInAs
    <2> QED BY <2>2, <2>3, <2>4
  <1> QED BY <1>2, Zenon DEF OneTabInv

\* Every step keeps it.
LEMMA OneTabStep ==
    ASSUME \A s, t \in Tab : s = t, SessionInv, OneTabInv, [Next]_vars
    PROVE  OneTabInv'
  <1>1. CASE DeletedElsewhere \/ UNCHANGED vars
    BY <1>1, ElsewhereOneTab
  <1>2. ASSUME NEW t \in Tab, TabStep(t) PROVE OneTabInv'
    <2>1. \A s \in Tab : s = t
      BY Zenon
    <2> QED BY <1>2, <2>1, SetItemOneTab, RemoveItemOneTab, RedirectOneTab, RequestOneTab,
               CheckOneTab, ShowOneTab, Zenon DEF TabStep, ScriptStep
  <1> QED BY <1>1, <1>2, Zenon DEF Next

\* It holds in an empty browser.
LEMMA OneTabInit == Init => OneTabInv
  <1> SUFFICES ASSUME Init, NEW t \in Tab PROVE StoreInv(t) /\ ViewInv(t) /\ LoginInv(t)
    BY Zenon DEF OneTabInv
  <1>1. \A o \in Origin : LoggedOut(o)
    BY Zenon DEF Init, LoggedOut, Present
  <1>2. /\ script[t] = "idle" /\ page[t] = "home" /\ cause[t] = "visit"
        /\ reply[t] = NoAnswer /\ NoAnswer.tag = "none"
    BY Zenon DEF Init, NoAnswer
  <1>3. StoreInv(t)
    BY <1>1, <1>2, Zenon DEF StoreInv, AtRest
  <1>4. ViewInv(t) /\ LoginInv(t)
    BY <1>2, Zenon DEF ViewInv, LoginInv
  <1> QED BY <1>3, <1>4

\* With one tab, the storage of every origin holds one account's login or none,
\* except while the tab's own script writes it, for all constants.
THEOREM OneTabSafe ==
    ASSUME \A s, t \in Tab : s = t
    PROVE  Spec => [](SessionInv /\ OneTabInv)
  <1>1. SessionInv /\ OneTabInv /\ [Next]_vars => OneTabInv'
    BY OneTabStep
  <1> QED BY <1>1, OneTabInit, SessionSafe, PTL DEF Spec

\* Every variable of the browser model keeps its type, for any number of tabs.
THEOREM SessionTyped == Spec => []TypeOK
  <1>1. SessionInv => TypeOK
    BY DEF SessionInv
  <1> QED BY <1>1, SessionSafe, PTL

\* In a browser with one tab the account a dashboard names is one account.
\* With two tabs it need not be: nothing keeps the setItem calls of two logins
\* apart.
THEOREM OneTabOneIdentity ==
    ASSUME \A s, t \in Tab : s = t
    PROVE  Spec => []OneIdentity
  <1>1. OneTabInv => OneIdentity
    BY Zenon DEF OneTabInv, ViewInv, OneIdentity, Identity
  <1> QED BY <1>1, OneTabSafe, PTL

\* In a browser with one tab a logout locks both pages: their checks fail on
\* the origin of the front page that logout() leads to.
THEOREM OneTabLogoutLocks ==
    ASSUME \A s, t \in Tab : s = t
    PROVE  Spec => []LogoutLocksBothPages
  <1>1. OneTabInv => LogoutLocksBothPages
    <2> SUFFICES ASSUME OneTabInv, NEW t \in Tab, cause[t] = "logout"
                 PROVE  \A p \in {"dashboard", "visualization"} : ~Checks(p, storage[origin[t]])
      BY Zenon DEF LogoutLocksBothPages
    <2>1. LoggedOut(origin[t])
      BY Zenon DEF OneTabInv, ViewInv
    <2>2. storage[origin[t]]["is_logged_in"] = None /\ storage[origin[t]]["user_id"] = None
      BY <2>1, SMT DEF LoggedOut, Present, Key
    <2> QED BY <2>2, Zenon DEF Checks, Truthy
  <1> QED BY <1>1, OneTabSafe, PTL

\* In a browser with one tab a login that announces the dashboard stays there,
\* unless the account's name is empty: the check finds the keys the login
\* wrote, and the dashboard of "data" has no probe.
THEOREM OneTabLoginStays ==
    ASSUME \A s, t \in Tab : s = t
    PROVE  Spec => AnnouncedLoginStays
  <1> DEFINE Stays == \A t \in Tab :
                cause[t] = "login" /\ cause'[t] \in {"check", "probe"} => shown[t].user_name = NoName
  <1>1. SessionInv /\ OneTabInv /\ [Next]_vars => [Stays]_vars
    <2> SUFFICES ASSUME SessionInv, OneTabInv, Next, NEW t \in Tab,
                        cause[t] = "login", cause'[t] \in {"check", "probe"}
                 PROVE  shown[t].user_name = NoName
      BY Zenon DEF vars
    <2>1. LoginInv(t) /\ TypeOK
      BY Zenon DEF OneTabInv, SessionInv
    <2>2. cause'[t] /= cause[t] /\ cause'[t] \notin {"visit", "login", "foreign", "logout"}
      BY Zenon
    <2>3. SentToLogin(t) \/ redirectToLogin(t)
      <3>1. PICK s \in Tab : TabStep(s)
        BY <2>2, Zenon DEF Next, DeletedElsewhere, pageVars
      <3>2. s = t
        BY <3>1, Zenon
      <3>3. ~Open(t) /\ ~LoginRedirect(t) /\ ~LogoutRedirect(t)
        <4>1. ASSUME NEW o, NEW p, NEW after \in {"visit", "login", "foreign", "logout"},
                     Load(t, o, p, after)
              PROVE  FALSE
          BY <2>1, <2>2, <4>1, LoadIs, ZenonT(60)
        <4> QED BY <4>1, Zenon DEF Open, LoginRedirect, LogoutRedirect
      <3>4. ~SubmitRegister(t) /\ ~SubmitLogin(t) /\ ~logout(t) /\ ~Serve(t) /\ ~RequestFails(t)
        BY <2>2, Zenon DEF SubmitRegister, SubmitLogin, logout, Serve, RequestFails, Finally,
              Continue, pageVars
      <3>5. ~registerUser(t) /\ ~loginUser(t) /\ ~setItem(t) /\ ~removeItem(t)
        BY <2>2, Zenon DEF registerUser, loginUser, setItem, removeItem, Finally, Continue, pageVars
      <3>6. ~CheckLogin(t) /\ ~ShowUser(t)
        BY <2>2, Zenon DEF CheckLogin, ShowUser
      <3> QED BY <3>1, <3>2, <3>3, <3>4, <3>5, <3>6, Zenon DEF TabStep, ScriptStep
    <2>4. script[t] = "leaving"
      BY <2>1, <2>3, Zenon DEF LoginInv, SentToLogin, redirectToLogin
    <2> QED BY <2>1, <2>4, Zenon DEF LoginInv
  <1> QED BY <1>1, OneTabSafe, PTL DEF Spec, AnnouncedLoginStays
=============================================================================
