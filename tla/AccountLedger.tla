---------------------------- MODULE AccountLedger ----------------------------
(***************************************************************************)
(* What the account API promises its clients, without handlers, statements *)
(* or connections.  A request is received and later answered or lost.  On  *)
(* behalf of a request the table changes at most once, after the request   *)
(* is received and never after it is answered; a lost request may still    *)
(* take effect.  The status of an answer says which of the two happened.   *)
(***************************************************************************)
EXTENDS UsersTable

CONSTANTS Request, Menu, Seed, NoQuery

VARIABLES
    users,    \* the table
    history,  \* every row version the table has held
    ask,      \* what each request asks for
    state,    \* how far the client has got with it
    effect,   \* the identifiers of the rows written for it
    answer    \* the HTTP answer the client got

vars == <<users, history, ask, state, effect, answer>>

NoAnswer == [status |-> 0, ids |-> {}]
Refusals == {400, 401, 403, 404}

Init ==
    /\ users = Seed /\ history = Seed
    /\ ask = [r \in Request |-> NoQuery]
    /\ state = [r \in Request |-> "new"]
    /\ effect = [r \in Request |-> {}]
    /\ answer = [r \in Request |-> NoAnswer]

\* The answers a request may get, given what was done for it.  A 500 promises
\* nothing; a refusal, that nothing was written; a 200, what was asked for.
Allowed(q, done, T, a) ==
    \/ a.status = 500
    \/ a.status \in Refusals /\ done = {} /\ a.ids = {}
    \/ /\ a.status = 200
       /\ q.op = "register_user" => done /= {} /\ a.ids = done
       /\ q.op = "delete_account" => q.user_id \notin Ids(T)
       /\ q.op \notin {"register_user", "change_password", "delete_account"} => done = {}

Receive(r) ==
    /\ state[r] = "new"
    /\ \E q \in Menu : ask' = [ask EXCEPT ![r] = q]
    /\ state' = [state EXCEPT ![r] = "open"]
    /\ UNCHANGED <<users, history, effect, answer>>

\* A request that is answered as soon as it is looked at.
AnswerAtOnce(r) ==
    /\ state[r] = "new"
    /\ \E q \in Menu : ask' = [ask EXCEPT ![r] = q]
    /\ answer' \in {[answer EXCEPT ![r] = [status |-> s, ids |-> {}]]
                      : s \in Refusals \cup {200, 500}}
    /\ Allowed(ask'[r], {}, users, answer'[r])
    /\ state' = [state EXCEPT ![r] = "answered"]
    /\ UNCHANGED <<users, history, effect>>

AnswerLater(r) ==
    /\ state[r] = "open"
    /\ \E s \in Refusals \cup {200, 500}, S \in SUBSET UserId :
         /\ answer' = [answer EXCEPT ![r] = [status |-> s, ids |-> S]]
         /\ Allowed(ask[r], effect[r], users, [status |-> s, ids |-> S])
    /\ state' = [state EXCEPT ![r] = "answered"]
    /\ UNCHANGED <<users, history, ask, effect>>

\* The one change of the table for r: a new row under a free address and a
\* fresh identifier, a new password for somebody who knew one that opened the
\* account, or the end of an account.
Apply(r) ==
    LET q == ask[r]
    IN  /\ state[r] \in {"open", "lost"} /\ effect[r] = {}
        /\ \/ /\ q.op = "register_user" /\ q.email \notin Emails(users)
              /\ \E i \in UserId \ Ids(history) :
                   /\ users' = users \cup {NewRow(i, q.email, hashpw(q.password))}
                   /\ effect' = [effect EXCEPT ![r] = {i}]
           \/ /\ q.op = "change_password" /\ q.user_id \in Ids(users)
              /\ \E h \in history : /\ h.user_id = q.user_id
                                    /\ \/ q.password = h.password.text
                                       \/ h.password = [scheme |-> "raw", text |-> HashedPwd]
              /\ users' = Updated(users, q.user_id, hashpw(q.new))
              /\ effect' = [effect EXCEPT ![r] = {q.user_id}]
           \/ /\ q.op = "delete_account" /\ q.user_id \in Ids(users)
              /\ users' = Deleted(users, q.user_id)
              /\ effect' = [effect EXCEPT ![r] = {q.user_id}]
        /\ history' = history \cup users'
        /\ UNCHANGED <<ask, state, answer>>

\* The process dies and takes the open requests with it.
Lose ==
    /\ state' = [r \in Request |-> IF state[r] = "open" THEN "lost" ELSE state[r]]
    /\ UNCHANGED <<users, history, ask, effect, answer>>

Next ==
    \/ Lose
    \/ \E r \in Request : Receive(r) \/ AnswerAtOnce(r) \/ AnswerLater(r) \/ Apply(r)

Spec == Init /\ [][Next]_vars
=============================================================================
