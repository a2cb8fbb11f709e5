---------------------------- MODULE SecureRequests ----------------------------
(***************************************************************************)
(* The rewriting of request addresses by js/secure-requests.js.  An        *)
(* address is its scheme, host, ports and path; a string replacement can   *)
(* leave two ports behind a host ("dev.thintuit.com:41285:41284"), so the  *)
(* ports are a sequence.                                                   *)
(***************************************************************************)
EXTENDS Naturals, Sequences

OldPort == 41284
ServicePort == 41285

Scheme == {"http", "https", "relative"}
Host == {"data", "dev", "localhost", "none"}
\* '/admin/users' contains '/user'; the last two contain no word of the list.
ApiPath == {"/login", "/register", "/user/info", "/logout", "/change-password",
            "/delete-account", "/admin/users"}
Path == ApiPath \cup {"/", "/api/accuracy"}

\* An address a page can hold: relative, or absolute with at most one port.
Url ==
    [scheme : {"relative"}, host : {"none"}, ports : {<<>>}, path : Path] \cup
    [scheme : {"http", "https"}, host : Host \ {"none"},
     ports : {<<>>, <<OldPort>>, <<ServicePort>>}, path : Path]

\* Mutant of Upgrade: the pattern is 'http', without its colon.
Upgrade_prefix(u) ==
    CASE u.scheme = "http"  -> [u EXCEPT !.scheme = "https"]
      [] u.scheme = "https" -> [u EXCEPT !.scheme = "httpss"]
      [] OTHER              -> u

\* url.replace('http:', 'https:')
Upgrade(u) == IF u.scheme = "http" THEN [u EXCEPT !.scheme = "https"] ELSE u

\* 'data.thintuit.com' becomes 'dev.thintuit.com:41285', before any port.
RedirectData(u) ==
    IF u.host = "data" /\ u.path \in ApiPath
    THEN [u EXCEPT !.host = "dev", !.ports = <<ServicePort>> \o @]
    ELSE u

\* A relative API path gets the service's host and port in front.
MakeAbsolute(u) ==
    IF u.scheme = "relative" /\ u.path \in ApiPath
    THEN [u EXCEPT !.scheme = "https", !.host = "dev", !.ports = <<ServicePort>>]
    ELSE u

\* Mutant of RewritePort: the pattern ends at the first port.
RewritePort_first(u, ports) ==
    IF u.scheme /= "relative" /\ Len(u.ports) = 1
    THEN [u EXCEPT !.scheme = "https", !.host = "dev", !.ports = ports]
    ELSE u

\* The regular expression takes everything up to the last port it knows.
RewritePort(u, ports) ==
    IF u.scheme /= "relative" /\ \E i \in DOMAIN u.ports : u.ports[i] \in {OldPort, ServicePort}
    THEN [u EXCEPT !.scheme = "https", !.host = "dev", !.ports = ports]
    ELSE u

\* What window.fetch and XMLHttpRequest.open pass on.
SecureFetch(u) == RewritePort(MakeAbsolute(RedirectData(Upgrade(u))), <<ServicePort>>)
SecureOpen(u) == RewritePort(Upgrade(u), <<>>)
=============================================================================
