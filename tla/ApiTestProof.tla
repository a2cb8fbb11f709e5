----------------------------- MODULE ApiTestProof -----------------------------
(***************************************************************************)
(* The test page makes at most one account per click, for every number of  *)
(* clicks and addresses; and the rewriting of secure-requests.js settles   *)
(* after one pass and leads every API request to the service.              *)
(***************************************************************************)
EXTENDS ApiTest, TLAPS

\* The addresses the rewriting steps pass to one another.
Address == [scheme : Scheme, host : Host, ports : Seq(Nat), path : Path]

KnownPort(u) == \E i \in DOMAIN u.ports : u.ports[i] \in {OldPort, ServicePort}

\* A relative address has no host, and there are no ports but the known ones.
Proper(u) ==
    /\ u \in Address
    /\ u.scheme = "relative" => u.host = "none"
    /\ u.ports = <<>> \/ KnownPort(u)

\* An address that none of the steps of window.fetch changes.
FetchSettled(v) ==
    /\ Proper(v) /\ v.scheme /= "http"
    /\ v.path \in ApiPath => v.host /= "data" /\ v.scheme /= "relative"
    /\ v.scheme /= "relative" /\ KnownPort(v) =>
         v.scheme = "https" /\ v.host = "dev" /\ v.ports = <<ServicePort>>

\* An address that neither step of XMLHttpRequest.open changes.
OpenSettled(v) == Proper(v) /\ v.scheme /= "http" /\ (v.scheme = "relative" \/ ~KnownPort(v))

\* The port lists the rewritings produce are lists of numbers.
LEMMA PortsTyped ==
    /\ <<>> \in Seq(Nat) /\ <<OldPort>> \in Seq(Nat) /\ <<ServicePort>> \in Seq(Nat)
    /\ \A p \in Seq(Nat) : LET q == <<ServicePort>> \o p
                          IN  q \in Seq(Nat) /\ 1 \in DOMAIN q /\ q[1] = ServicePort
  BY SMT DEF OldPort, ServicePort

\* Each port list they write names one of the service's ports.
LEMMA PortsKnown ==
    /\ \A p \in {<<OldPort>>, <<ServicePort>>} : \E i \in DOMAIN p : p[i] \in {OldPort, ServicePort}
    /\ <<ServicePort>> /= <<>>
  BY SMT

\* The names of schemes and hosts are different names.
LEMMA NamesDiffer ==
    /\ "relative" /= "http" /\ "relative" /= "https" /\ "http" /= "https"
    /\ "none" /= "data" /\ "none" /= "dev" /\ "data" /= "dev"
    /\ Scheme = {"http", "https", "relative"} /\ "dev" \in Host /\ "none" \in Host
  BY SMT DEF Scheme, Host

\* Every address of the page is a proper one.
LEMMA UrlProper == ASSUME NEW u \in Url PROVE Proper(u)
  <1>1. CASE u \in [scheme : {"relative"}, host : {"none"}, ports : {<<>>}, path : Path]
    BY <1>1, PortsTyped, NamesDiffer, Zenon DEF Proper, Address
  <1>2. CASE u \in [scheme : {"http", "https"}, host : Host \ {"none"},
                    ports : {<<>>, <<OldPort>>, <<ServicePort>>}, path : Path]
    <2>1. u \in Address /\ u.scheme /= "relative"
      BY <1>2, PortsTyped, NamesDiffer, Zenon DEF Address
    <2>2. u.ports = <<>> \/ KnownPort(u)
      BY <1>2, PortsKnown, Zenon DEF KnownPort
    <2> QED BY <2>1, <2>2, Zenon DEF Proper
  <1> QED BY <1>1, <1>2, Zenon DEF Url

\* The four steps keep addresses proper and their paths as they are.
LEMMA UpgradeIs ==
    ASSUME NEW u, Proper(u)
    PROVE  LET v == Upgrade(u)
           IN  /\ Proper(v) /\ v.path = u.path /\ v.host = u.host /\ v.ports = u.ports
               /\ v.scheme /= "http" /\ (v.scheme = "relative" <=> u.scheme = "relative")
  <1>1. CASE u.scheme = "http"
    <2>1. PICK v : v = [u EXCEPT !.scheme = "https"]
      BY ZenonT(60)
    <2>2. /\ v \in Address /\ v.scheme = "https" /\ v.path = u.path /\ v.host = u.host
          /\ v.ports = u.ports
      BY <2>1, NamesDiffer, Zenon DEF Proper, Address
    <2>3. Proper(v)
      BY <2>2, NamesDiffer, Zenon DEF Proper, KnownPort
    <2> QED BY <1>1, <2>1, <2>2, <2>3, NamesDiffer, Zenon DEF Upgrade
  <1>2. CASE u.scheme /= "http"
    BY <1>2, Zenon DEF Upgrade
  <1> QED BY <1>1, <1>2

\* What RedirectData does: an API path on the data site goes to the service's
\* host, anything else is left alone.
LEMMA RedirectDataIs ==
    ASSUME NEW u, Proper(u)
    PROVE  LET v == RedirectData(u)
           IN  /\ Proper(v) /\ v.path = u.path /\ v.scheme = u.scheme
               /\ u.host = "data" /\ u.path \in ApiPath => v.host = "dev" /\ KnownPort(v)
               /\ ~(u.host = "data" /\ u.path \in ApiPath) => v = u
  <1>1. CASE u.host = "data" /\ u.path \in ApiPath
    <2>1. PICK p \in Seq(Nat) : p = <<ServicePort>> \o u.ports
      BY PortsTyped, Zenon DEF Proper, Address
    <2>2. 1 \in DOMAIN p /\ p[1] = ServicePort
      BY <2>1, PortsTyped, Zenon DEF Proper, Address
    <2>3. RedirectData(u) = [u EXCEPT !.host = "dev", !.ports = p]
      BY <1>1, <2>1, Zenon DEF RedirectData
    <2>4. /\ RedirectData(u).host = "dev" /\ RedirectData(u).ports = p
          /\ RedirectData(u).path = u.path /\ RedirectData(u).scheme = u.scheme
          /\ RedirectData(u) \in Address
      BY <2>3, NamesDiffer, Zenon DEF Proper, Address
    <2>5. KnownPort(RedirectData(u))
      BY <2>2, <2>4, Zenon DEF KnownPort
    <2>6. u.scheme /= "relative"
      BY <1>1, SMT DEF Proper
    <2> QED BY <1>1, <2>4, <2>5, <2>6, Zenon DEF Proper
  <1>2. CASE ~(u.host = "data" /\ u.path \in ApiPath)
    BY <1>2, Zenon DEF RedirectData
  <1> QED BY <1>1, <1>2

\* What MakeAbsolute does: a relative API path goes to the service's host over
\* https, anything else is left alone.
LEMMA MakeAbsoluteIs ==
    ASSUME NEW u, Proper(u)
    PROVE  LET v == MakeAbsolute(u)
           IN  /\ Proper(v) /\ v.path = u.path
               /\ u.scheme = "relative" /\ u.path \in ApiPath =>
                    v.scheme = "https" /\ v.host = "dev" /\ KnownPort(v)
               /\ ~(u.scheme = "relative" /\ u.path \in ApiPath) => v = u
  <1>1. CASE u.scheme = "relative" /\ u.path \in ApiPath
    <2>1. PICK v : v = MakeAbsolute(u)
      OBVIOUS
    <2>2. /\ v.scheme = "https" /\ v.host = "dev" /\ v.ports = <<ServicePort>>
          /\ v.path = u.path /\ v \in Address
      BY <1>1, <2>1, NamesDiffer, PortsTyped, Zenon DEF MakeAbsolute, Proper, Address
    <2>3. KnownPort(v)
      BY <2>2, SMT DEF KnownPort
    <2> QED BY <1>1, <2>1, <2>2, <2>3, NamesDiffer, Zenon DEF Proper
  <1>2. CASE ~(u.scheme = "relative" /\ u.path \in ApiPath)
    BY <1>2, Zenon DEF MakeAbsolute
  <1> QED BY <1>1, <1>2

\* What RewritePort does: an address with one of the service's ports goes to the
\* service's host over https with the given ports, anything else is left alone.
LEMMA RewritePortIs ==
    ASSUME NEW u, Proper(u), NEW ports \in {<<>>, <<ServicePort>>}
    PROVE  LET v == RewritePort(u, ports)
           IN  /\ Proper(v) /\ v.path = u.path
               /\ u.scheme /= "relative" /\ KnownPort(u) =>
                    v.scheme = "https" /\ v.host = "dev" /\ v.ports = ports
               /\ ~(u.scheme /= "relative" /\ KnownPort(u)) => v = u
  <1>1. PICK v : v = RewritePort(u, ports)
    OBVIOUS
  <1>2. CASE u.scheme /= "relative" /\ KnownPort(u)
    <2>1. v = [u EXCEPT !.scheme = "https", !.host = "dev", !.ports = ports]
      BY <1>1, <1>2, Zenon DEF RewritePort, KnownPort
    <2>2. /\ v.scheme = "https" /\ v.host = "dev" /\ v.ports = ports
          /\ v.path = u.path /\ v \in Address
      BY <2>1, NamesDiffer, PortsTyped, Zenon DEF Proper, Address
    <2>3. v.ports = <<>> \/ KnownPort(v)
      BY <2>2, PortsKnown, Zenon DEF KnownPort
    <2> QED BY <1>1, <1>2, <2>2, <2>3, NamesDiffer, Zenon DEF Proper
  <1>3. CASE ~(u.scheme /= "relative" /\ KnownPort(u))
    BY <1>3, Zenon DEF RewritePort, KnownPort
  <1> QED BY <1>2, <1>3

\* One pass of window.fetch settles an address.
LEMMA FetchSettles ==
    ASSUME NEW u, Proper(u)
    PROVE  FetchSettled(SecureFetch(u)) /\ SecureFetch(u).path = u.path
  <1>1. PICK a : a = Upgrade(u)
    OBVIOUS
  <1>2. Proper(a) /\ a.path = u.path /\ a.scheme /= "http"
    BY <1>1, UpgradeIs, Zenon
  <1>3. PICK b : b = RedirectData(a)
    OBVIOUS
  <1>4. /\ Proper(b) /\ b.path = u.path /\ b.scheme /= "http"
        /\ b.path \in ApiPath /\ b.host = "data" => FALSE
    BY <1>2, <1>3, RedirectDataIs, NamesDiffer, Zenon
  <1>5. PICK c : c = MakeAbsolute(b)
    OBVIOUS
  <1>6. /\ Proper(c) /\ c.path = u.path /\ c.scheme /= "http"
        /\ c.path \in ApiPath => c.host /= "data" /\ c.scheme /= "relative"
    BY <1>4, <1>5, MakeAbsoluteIs, NamesDiffer, ZenonT(60)
  <1>7. PICK d : d = RewritePort(c, <<ServicePort>>)
    OBVIOUS
  <1>8. FetchSettled(d) /\ d.path = u.path
    <2>1. Proper(d) /\ d.path = u.path
      BY <1>6, <1>7, RewritePortIs, Zenon
    <2>2. CASE c.scheme /= "relative" /\ KnownPort(c)
      <3>1. d.scheme = "https" /\ d.host = "dev" /\ d.ports = <<ServicePort>>
        BY <1>6, <1>7, <2>2, RewritePortIs, Zenon
      <3> QED BY <2>1, <3>1, NamesDiffer, Zenon DEF FetchSettled
    <2>3. CASE ~(c.scheme /= "relative" /\ KnownPort(c))
      <3>1. d = c
        BY <1>6, <1>7, <2>3, RewritePortIs, Zenon
      <3> QED BY <1>6, <2>1, <2>3, <3>1, Zenon DEF FetchSettled
    <2> QED BY <2>1, <2>2, <2>3, Zenon
  <1> QED BY <1>1, <1>3, <1>5, <1>7, <1>8, Zenon DEF SecureFetch

\* A settled address passes through window.fetch unchanged.
LEMMA FetchKeepsSettled ==
    ASSUME NEW v, FetchSettled(v)
    PROVE  SecureFetch(v) = v
  <1>1. Upgrade(v) = v
    BY Zenon DEF Upgrade, FetchSettled
  <1>2. RedirectData(v) = v
    BY Zenon DEF RedirectData, FetchSettled
  <1>3. MakeAbsolute(v) = v
    BY Zenon DEF MakeAbsolute, FetchSettled
  <1>4. RewritePort(v, <<ServicePort>>) = v
    <2>1. CASE v.scheme /= "relative" /\ KnownPort(v)
      <3>1. v.scheme = "https" /\ v.host = "dev" /\ v.ports = <<ServicePort>> /\ v \in Address
        BY <2>1, Zenon DEF FetchSettled, Proper
      <3>2. [v EXCEPT !.scheme = "https", !.host = "dev", !.ports = <<ServicePort>>] = v
        BY <3>1, Zenon DEF Address
      <3> QED BY <2>1, <3>2, Zenon DEF RewritePort, KnownPort
    <2>2. CASE ~(v.scheme /= "relative" /\ KnownPort(v))
      BY <2>2, Zenon DEF RewritePort, KnownPort
    <2> QED BY <2>1, <2>2
  <1> QED BY <1>1, <1>2, <1>3, <1>4, Zenon DEF SecureFetch

\* The same for XMLHttpRequest.open, which rewrites less.
LEMMA OpenSettles ==
    ASSUME NEW u, Proper(u)
    PROVE  OpenSettled(SecureOpen(u))
  <1>1. PICK a : a = Upgrade(u)
    OBVIOUS
  <1>2. Proper(a) /\ a.scheme /= "http"
    BY <1>1, UpgradeIs, Zenon
  <1>3. PICK b : b = RewritePort(a, <<>>)
    OBVIOUS
  <1>4. CASE a.scheme /= "relative" /\ KnownPort(a)
    <2>1. Proper(b) /\ b.scheme = "https" /\ b.ports = <<>>
      BY <1>2, <1>3, <1>4, RewritePortIs, Zenon
    <2>2. ~KnownPort(b)
      BY <2>1, SMT DEF KnownPort
    <2> QED BY <1>1, <1>3, <2>1, <2>2, NamesDiffer, Zenon DEF OpenSettled, SecureOpen
  <1>5. CASE ~(a.scheme /= "relative" /\ KnownPort(a))
    <2>1. b = a
      BY <1>3, <1>5, Zenon DEF RewritePort, KnownPort
    <2> QED BY <1>1, <1>2, <1>3, <1>5, <2>1, Zenon DEF OpenSettled, SecureOpen
  <1> QED BY <1>4, <1>5

\* XMLHttpRequest.open leaves a settled address alone.
LEMMA OpenKeepsSettled ==
    ASSUME NEW v, OpenSettled(v)
    PROVE  SecureOpen(v) = v
  BY Zenon DEF SecureOpen, OpenSettled, Upgrade, RewritePort, KnownPort

\* Where a request to an API path goes: an address under a name of the site,
\* or with a port, ends at the service's host.
LEMMA FetchLeadsToService ==
    ASSUME NEW u \in Url, u.path \in ApiPath, u.host = "localhost" => u.ports /= <<>>
    PROVE  LET v == SecureFetch(u)
           IN  v.scheme = "https" /\ v.host = "dev" /\ Len(v.ports) <= 1
  <1>1. PICK v : v = SecureFetch(u)
    OBVIOUS
  <1>2. FetchSettled(v) /\ v.path = u.path /\ Proper(u)
    BY <1>1, UrlProper, FetchSettles, Zenon
  <1>3. v.scheme = "https"
    BY <1>2, SMT DEF FetchSettled, Proper, Address, Scheme
  <1>4. PICK a : a = Upgrade(u)
    OBVIOUS
  <1>5. Proper(a) /\ a.path = u.path /\ a.host = u.host /\ a.ports = u.ports
    BY <1>2, <1>4, UpgradeIs, Zenon
  <1>6. a.scheme = "relative" \/ a.host \in {"data", "dev"} \/ KnownPort(a)
    <2>1. u.scheme = "relative" \/ u.host \in {"data", "dev", "localhost"}
      BY SMT DEF Url, Host
    <2>2. a.scheme = "relative" <=> u.scheme = "relative"
      BY <1>2, <1>4, UpgradeIs, Zenon
    <2> QED BY <1>5, <2>1, <2>2, Zenon DEF Proper
  <1>7. PICK b : b = RedirectData(a)
    OBVIOUS
  <1>8. Proper(b) /\ b.path = u.path /\ (b.scheme = "relative" \/ b.host = "dev" \/ KnownPort(b))
    BY <1>5, <1>6, <1>7, RedirectDataIs, Zenon
  <1>9. PICK c : c = MakeAbsolute(b)
    OBVIOUS
  <1>10. Proper(c) /\ c.path = u.path /\ c.scheme /= "relative" /\ (c.host = "dev" \/ KnownPort(c))
    BY <1>8, <1>9, MakeAbsoluteIs, NamesDiffer, Zenon
  <1>11. v = RewritePort(c, <<ServicePort>>)
    BY <1>1, <1>4, <1>7, <1>9, Zenon DEF SecureFetch
  <1>12. v.host = "dev" /\ v.ports \in {<<>>, <<ServicePort>>}
    <2>1. CASE KnownPort(c)
      BY <1>10, <1>11, <2>1, RewritePortIs, Zenon
    <2>2. CASE ~KnownPort(c)
      BY <1>10, <1>11, <2>2, RewritePortIs, Zenon DEF Proper
    <2> QED BY <2>1, <2>2
  <1>13. Len(v.ports) <= 1
    <2>1. Len(<<>>) <= 1 /\ Len(<<ServicePort>>) <= 1
      BY SMT
    <2> QED BY <1>12, <2>1, Zenon
  <1> QED BY <1>1, <1>3, <1>12, <1>13, Zenon

-----------------------------------------------------------------------------
\* What a click made is what it asked for: an account under its address, which
\* stays registered, so that no later try of the click makes another.
ClickOK(t, m, registered) ==
    /\ m \in {0, 1}
    /\ t.phase = "unused" => m = 0
    /\ m = 1 => t.path = "/register" /\ t.email \in registered
    /\ t.path /= "/" => t.email \in Email
    /\ t.path = "/register" /\ t.phase = "passed" => m = 1

ClickInv == \A c \in Click : ClickOK(test[c], made[c], accounts)

ApiTestInv == TypeOK /\ ClickInv

TestRecord == [path : Paths, email : Email \cup {"none"}, try : 0..4,
               phase : {"unused", "trying", "passed", "failed"}]

\* A test has four addresses to try.
LEMMA UrlsLen == ASSUME NEW path PROVE Len(urls(path)) = 4
  BY SMT DEF urls

\* A turn of the loop keeps the address and the path, and passes only if the
\* answer was good.
LEMMA AfterIs ==
    ASSUME NEW t \in TestRecord, t.phase = "trying", NEW ok \in BOOLEAN
    PROVE  LET s == After(t, ok)
           IN  /\ s \in TestRecord /\ s.path = t.path /\ s.email = t.email
               /\ s.phase /= "unused" /\ (s.phase = "passed" => ok)
  <1>1. CASE ok
    <2>1. After(t, ok) = [t EXCEPT !.phase = "passed"]
      BY <1>1, Zenon DEF After
    <2>2. PICK s : s = [t EXCEPT !.phase = "passed"]
      BY ZenonT(60)
    <2>3. s \in TestRecord /\ s.path = t.path /\ s.email = t.email /\ s.phase = "passed"
      BY <2>2, Zenon DEF TestRecord
    <2> QED BY <1>1, <2>1, <2>2, <2>3, Zenon
  <1>2. CASE ~ok /\ t.try < 4
    <2>1. After(t, ok) = [t EXCEPT !.try = @ + 1]
      BY ZenonT(60), <1>2, UrlsLen DEF After
    <2>2. t.try + 1 \in 0..4
      BY <1>2, SMT DEF TestRecord
    <2>3. PICK s : s = [t EXCEPT !.try = @ + 1]
      BY ZenonT(60)
    <2>4. s \in TestRecord /\ s.path = t.path /\ s.email = t.email /\ s.phase = "trying"
      BY <2>2, <2>3, Zenon DEF TestRecord
    <2> QED BY <2>1, <2>3, <2>4, Zenon
  <1>3. CASE ~ok /\ ~(t.try < 4)
    <2>1. After(t, ok) = [t EXCEPT !.phase = "failed"]
      BY ZenonT(60), <1>3, UrlsLen DEF After
    <2> QED BY <1>3, <2>1, SMT DEF TestRecord
  <1> QED BY <1>1, <1>2, <1>3

\* The invariant holds before the first click.
LEMMA ApiTestInit == Init => ApiTestInv
  <1> SUFFICES ASSUME Init PROVE ApiTestInv
    OBVIOUS
  <1>1. TypeOK
    BY ApiTestAssumption, SMT DEF Init, TypeOK, ApiTestAssumption, NoTest, Paths
  <1>2. ClickInv
    BY SMT DEF Init, ClickInv, ClickOK, NoTest
  <1> QED BY <1>1, <1>2 DEF ApiTestInv

\* A click keeps it.
LEMMA StartKeeps ==
    ASSUME ApiTestInv, NEW c \in Click, Start(c)
    PROVE  ApiTestInv'
  <1> USE DEF ApiTestInv
  <1>1. PICK p \in Paths, e \in Email :
          test' = [test EXCEPT ![c] = [path |-> p, email |-> IF p = "/" THEN "none" ELSE e,
                                       try |-> 1, phase |-> "trying"]]
    BY Zenon DEF Start
  <1>2. PICK t : t = [path |-> p, email |-> IF p = "/" THEN "none" ELSE e,
                      try |-> 1, phase |-> "trying"]
    BY ZenonT(60)
  <1>3. /\ t.path = p /\ t.phase = "trying" /\ (p /= "/" => t.email \in Email)
        /\ t \in TestRecord
    BY <1>2, SMT DEF TestRecord
  <1>4. test' = [test EXCEPT ![c] = t] /\ UNCHANGED <<accounts, loginEmail, made>>
    BY <1>1, <1>2, Zenon DEF Start
  <1>5. TypeOK'
    BY <1>3, <1>4, Zenon DEF TypeOK, TestRecord
  <1>6. made[c] = 0
    BY Zenon DEF Start, ClickInv, ClickOK
  <1>7. test'[c] = t /\ \A d \in Click : d /= c => test'[d] = test[d]
    BY <1>4, Zenon DEF TypeOK
  <1>8. ASSUME NEW d \in Click
        PROVE  ClickOK(test'[d], made'[d], accounts')
    <2>1. CASE d = c
      <3>1. made'[d] = 0 /\ 0 /= 1 /\ test'[d] = t
        BY <1>4, <1>6, <1>7, <2>1
      <3> QED BY <1>3, <3>1, Zenon DEF ClickOK
    <2>2. CASE d /= c
      BY <1>4, <1>7, <2>2, Zenon DEF ClickInv
    <2> QED BY <2>1, <2>2
  <1> QED BY <1>5, <1>8, Zenon DEF ClickInv

\* The settling of a fetch keeps it: the next address is tried, or the test ends.
LEMMA TryKeeps ==
    ASSUME ApiTestInv, NEW c \in Click, Try(c)
    PROVE  ApiTestInv'
  <1> USE DEF ApiTestInv
  <1>1. PICK t : t = test[c]
    OBVIOUS
  <1>2. t \in TestRecord /\ t.phase = "trying"
    BY <1>1, Zenon DEF Try, TypeOK, TestRecord
  <1>3. PICK served \in BOOLEAN, answered \in BOOLEAN :
          LET ok == served /\ answered /\ Accepts(t)
              makes == served /\ t.path = "/register" /\ Accepts(t)
          IN  /\ accounts' = IF makes THEN accounts \cup {t.email} ELSE accounts
              /\ made' = [made EXCEPT ![c] = IF makes THEN @ + 1 ELSE @]
              /\ test' = [test EXCEPT ![c] = After(t, ok)]
              /\ loginEmail' = IF ok /\ t.path = "/register" THEN t.email ELSE loginEmail
    BY <1>1, Zenon DEF Try
  <1>4. PICK ok \in BOOLEAN : ok = (served /\ answered /\ Accepts(t))
    BY Zenon
  <1>5. PICK makes \in BOOLEAN : makes = (served /\ t.path = "/register" /\ Accepts(t))
    BY Zenon
  <1>6. /\ accounts' = IF makes THEN accounts \cup {t.email} ELSE accounts
        /\ made' = [made EXCEPT ![c] = IF makes THEN @ + 1 ELSE @]
        /\ test' = [test EXCEPT ![c] = After(t, ok)]
        /\ loginEmail' = IF ok /\ t.path = "/register" THEN t.email ELSE loginEmail
    BY <1>3, <1>4, <1>5, Zenon
  <1>7. PICK s : s = After(t, ok)
    OBVIOUS
  <1>8. /\ s \in TestRecord /\ s.path = t.path /\ s.email = t.email
        /\ s.phase /= "unused" /\ (s.phase = "passed" => ok)
    BY <1>2, <1>7, AfterIs, Zenon
  <1>9. test'[c] = s /\ \A d \in Click : d /= c => test'[d] = test[d]
    BY <1>6, <1>7, Zenon DEF TypeOK
  <1>10. makes => t.path = "/register" /\ t.email \notin accounts
    <2>1. t.path = "/register" => (Accepts(t) <=> t.email \notin accounts)
      BY SMT DEF Accepts
    <2> QED BY <1>5, <2>1, Zenon
  <1>11. t.path = "/register" /\ ok => makes
    BY <1>4, <1>5, Zenon
  <1>12. t.path /= "/" => t.email \in Email
    BY <1>1, Zenon DEF ClickInv, ClickOK
  <1>13. made[c] \in {0, 1} /\ (makes => made[c] = 0)
    BY <1>1, <1>10, SMT DEF ClickInv, ClickOK
  <1>14. made'[c] = (IF makes THEN 1 ELSE made[c]) /\ \A d \in Click : d /= c => made'[d] = made[d]
    BY <1>6, <1>13, SMT DEF TypeOK
  <1>15. TypeOK'
    <2>1. accounts' \subseteq Email /\ loginEmail' \in Email
      BY <1>6, <1>10, <1>12, SMT DEF TypeOK
    <2>2. test' \in [Click -> TestRecord]
      BY <1>6, <1>7, <1>8, Zenon DEF TypeOK, TestRecord
    <2>3. (IF makes THEN made[c] + 1 ELSE made[c]) \in 0..4
      BY <1>13, SMT
    <2>4. made' \in [Click -> 0..4]
      BY <1>6, <2>3, Zenon DEF TypeOK
    <2> QED BY <2>1, <2>2, <2>4, Zenon DEF TypeOK, TestRecord
  <1>16. accounts \subseteq accounts' /\ (makes => t.email \in accounts')
    BY <1>6, Zenon
  <1>17. ASSUME NEW d \in Click
        PROVE  ClickOK(test'[d], made'[d], accounts')
    <2>1. CASE d = c
      <3>1. made[c] = 1 => t.path = "/register" /\ t.email \in accounts
        BY <1>1, Zenon DEF ClickInv, ClickOK
      <3>2. test'[d] = s /\ made'[d] = (IF makes THEN 1 ELSE made[c])
        BY <1>9, <1>14, <2>1, Zenon
      <3>3. made'[d] \in {0, 1}
        BY <1>13, <3>2, Zenon
      <3>4. made'[d] = 1 => t.path = "/register" /\ t.email \in accounts'
        BY <1>10, <1>16, <3>1, <3>2, Zenon
      <3>5. t.path = "/register" /\ ok => made'[d] = 1
        BY <1>11, <3>2, Zenon
      <3> QED BY <1>8, <1>12, <3>2, <3>3, <3>4, <3>5, Zenon DEF ClickOK
    <2>2. CASE d /= c
      <3>1. test'[d] = test[d] /\ made'[d] = made[d] /\ ClickOK(test[d], made[d], accounts)
        BY <1>9, <1>14, <2>2, Zenon DEF ClickInv
      <3> QED BY <1>16, <3>1, Zenon DEF ClickOK
    <2> QED BY <2>1, <2>2
  <1> QED BY <1>15, <1>17, Zenon DEF ClickInv

\* The inductive invariant of the test page holds in every state.
THEOREM ApiTestSafe == Spec => []ApiTestInv
  <1>1. ApiTestInv /\ Next => ApiTestInv'
    BY StartKeeps, TryKeeps, Zenon DEF Next
  <1>2. ApiTestInv /\ UNCHANGED vars => ApiTestInv'
    BY Zenon DEF ApiTestInv, ClickInv, TypeOK, vars
  <1> QED BY <1>1, <1>2, ApiTestInit, PTL DEF Spec

\* A click never tries a fifth address, and every address it registers is one
\* that Math.random can produce.
THEOREM ApiTestTyped == Spec => []TypeOK
  <1>1. ApiTestInv => TypeOK
    BY DEF ApiTestInv
  <1> QED BY <1>1, ApiTestSafe, PTL

\* However often an answer is lost and however the clicks interleave, the tries
\* of one click make at most one account, and exactly one if it reports success.
THEOREM OneAccountAlways == Spec => []OneAccountPerClick
  <1>1. ApiTestInv => OneAccountPerClick
    <2>1. 0 <= 1 /\ 1 <= 1
      BY SMT
    <2> QED BY <2>1, Zenon DEF ApiTestInv, ClickInv, ClickOK, OneAccountPerClick
  <1> QED BY <1>1, ApiTestSafe, PTL

\* A second pass through window.fetch or XMLHttpRequest.open changes nothing.
THEOREM RewritingAlwaysSettles == Spec => []RewritingSettles
  <1>1. RewritingSettles
    <2>1. ASSUME NEW u \in Url
          PROVE  /\ SecureFetch(SecureFetch(u)) = SecureFetch(u)
                 /\ SecureOpen(SecureOpen(u)) = SecureOpen(u)
      BY UrlProper, FetchSettles, FetchKeepsSettled, OpenSettles, OpenKeepsSettled, Zenon
    <2> QED BY <2>1, Zenon DEF RewritingSettles, Addresses
  <1> QED BY <1>1, PTL

\* Whatever fetch is asked of an API path under one of the site's names, or on
\* one of the service's ports, goes over https to the service's host.
THEOREM FetchAlwaysReaches == Spec => []FetchReachesService
  <1>1. FetchReachesService
    BY FetchLeadsToService, Zenon DEF FetchReachesService, Addresses
  <1> QED BY <1>1, PTL
=============================================================================
