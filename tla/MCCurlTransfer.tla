--------------------------- MODULE MCCurlTransfer ---------------------------
(***************************************************************************)
(* One handle and two hosts.  A client uses one of two groups of options,  *)
(* and meets the responses that matter to it: together they would be too   *)
(* many.                                                                   *)
(***************************************************************************)
EXTENDS CurlTransfer

CONSTANTS h1, h2

VARIABLE group   \* "routing" or "payload"

\* Everything some client sets: what decides where requests go and whether
\* they are sent at all, and what decides what is sent and what comes back.
ClientOptions ==
  [url |-> [scheme : {"http", "https"}, host : {h1}], followlocation |-> {TRUE},
   maxredirs |-> {0}, redir_protocols |-> {{"https"}}, protocols |-> {{"https"}},
   UNSUPPORTED |-> {TRUE}, verify |-> {FALSE},
   POST |-> {TRUE, FALSE}, UPLOAD |-> {TRUE}, HTTPGET |-> {TRUE}, nobody |-> {TRUE},
   body |-> {"callback"}, failonerror |-> {TRUE}, postredir |-> {{301}}]

OptionsIn ==
  [routing |-> {"url", "followlocation", "maxredirs", "redir_protocols", "protocols",
                "unsupported_option", "verify"},
   payload |-> {"url", "post", "upload", "nobody", "body", "failonerror", "followlocation",
                "postredir"}]

\* Redirects lead anywhere in one group, and stay on the host in the other.
StatusesIn == [routing |-> {200, 302}, payload |-> {200, 301, 303, 404}]
HostsIn == [routing |-> {h1, h2}, payload |-> {h1}]
SchemesIn == [routing |-> {"http", "https", "ftp"}, payload |-> {"http", "https"}]

\* In the second group the client asks for https.
InGroup(g, o, status, location) ==
  /\ \A name \in DOMAIN o : o[name] # Defaults[name] => name \in OptionsIn[g]
  /\ g = "payload" => o.url.scheme # "http"
  /\ status \in StatusesIn[g] \cup {0}
  /\ location.kind = "absolute" => /\ location.url.host \in HostsIn[g]
                                   /\ location.url.scheme \in SchemesIn[g]
  /\ location.kind = "netpath" => location.host \in HostsIn[g]

MCVars == <<group, ctVars>>

MCInit == group \in {"routing", "payload"} /\ CTInit

MCNext == /\ CTNext /\ UNCHANGED group
          /\ InGroup(group, opt', response_code', resp'.location)

\* The fairness of CTFairSpec: every step of curl_perform() is left to each group,
\* if not every answer to it.
MCSpec == MCInit /\ [][MCNext]_MCVars /\ WF_ctVars(Step)
=============================================================================
