---------------------------- MODULE CurlTransfer ----------------------------
(***************************************************************************)
(* One easy handle of the libcurl shim (bin/git/port/ewokos/curl_compat.c):*)
(* setting options, and curl_easy_perform with its retry and its redirects.*)
(* The HTTP client tinyhttpsc, the servers and the client's callbacks are  *)
(* external: they may answer anything the code has a branch for.           *)
(*                                                                         *)
(* A URL is a scheme and an authority; two URLs have the same origin when  *)
(* both agree (curl_same_origin compares exactly these).                   *)
(***************************************************************************)
EXTENDS Integers

CONSTANTS Hosts,        \* authorities (host and port)
          Schemes,      \* URL schemes: "http", "https" and what is neither
          Statuses,     \* HTTP status codes servers answer with
          DefaultMaxRedirs, \* 20 in curl_easy_init; smaller in the models
          OptionValues, \* option name -> values the client sets it to
          RequestCap    \* the request counter stops counting here

ASSUME CTAssumption ==
  /\ RequestCap \in Nat /\ DefaultMaxRedirs \in Nat
  /\ Statuses \subseteq Nat
  /\ "none" \notin Hosts

VARIABLES
  opt,            \* the options stored in the CURL handle
  \* the results curl_easy_getinfo reports
  response_code, effective_url, auth_avail, result, completed,
  \* locals of curl_perform
  pc,             \* "idle", "fetch" (a request is to be sent), "response"
  current_url, method, has_body, redirects, retries,
  resp,           \* the response being handled
  \* what the outside has seen in this transfer
  sent,           \* the last request
  requests,       \* number of requests, up to RequestCap
  written         \* number of times the body was handed to write_callback

results == <<response_code, effective_url, auth_avail, result, completed>>
locals == <<current_url, method, has_body, redirects, retries>>
outside == <<sent, requests, written>>
ctVars == <<opt, response_code, effective_url, auth_avail, result, completed,
            pc, current_url, method, has_body, redirects, retries, resp,
            sent, requests, written>>

Urls == [scheme : Schemes, host : Hosts]
NoUrl == [scheme |-> "none", host |-> "none"]
Protocols == Schemes \cup {"http", "https"}
Methods == {"GET", "HEAD", "POST", "PUT", "DELETE"}
ErrorCodes == {"bad_url", "memory", "resolve", "read", "tls", "timeout", "other"}
CURLcodes == {"OK", "URL_MALFORMAT", "NOT_BUILT_IN", "UNSUPPORTED_PROTOCOL",
              "SSL_CERTPROBLEM", "READ_ERROR", "OUT_OF_MEMORY", "COULDNT_CONNECT",
              "COULDNT_RESOLVE_HOST", "SSL_CONNECT_ERROR", "OPERATION_TIMEDOUT",
              "TOO_MANY_REDIRECTS", "HTTP_RETURNED_ERROR", "WRITE_ERROR"}

\* Location headers: absolute, "//host/path", or anything relative to the host.
Locations == [kind : {"absolute"}, url : Urls]
             \cup [kind : {"netpath"}, host : Hosts]
             \cup [kind : {"relative", "missing"}]
NoResponse == [status |-> 0, location |-> [kind |-> "missing"], challenge |-> FALSE]
Responses == [status : Statuses, location : Locations, challenge : BOOLEAN]
NoRequest == [url |-> NoUrl, method |-> "GET", body |-> FALSE, secret |-> FALSE]

\* curl_easy_init
Defaults ==
  [url |-> NoUrl, custom_request |-> "none", post |-> FALSE, upload |-> FALSE,
   nobody |-> FALSE, body |-> "none", followlocation |-> FALSE, maxredirs |-> DefaultMaxRedirs,
   postredir |-> {}, failonerror |-> FALSE,
   protocols |-> {"http", "https"}, redir_protocols |-> {"http", "https"},
   verify |-> TRUE, unsupported_option |-> FALSE, proxy |-> FALSE,
   basic_auth |-> FALSE, secret_headers |-> FALSE]

\* The members of struct CURL that hold options.
Options ==
  [url : Urls \cup {NoUrl}, custom_request : Methods \cup {"none"}, post : BOOLEAN,
   upload : BOOLEAN, nobody : BOOLEAN, body : {"none", "fields", "callback"},
   followlocation : BOOLEAN, maxredirs : Nat, postredir : SUBSET Nat, failonerror : BOOLEAN,
   protocols : SUBSET Protocols, redir_protocols : SUBSET Protocols, verify : BOOLEAN,
   unsupported_option : BOOLEAN, proxy : BOOLEAN, basic_auth : BOOLEAN,
   secret_headers : BOOLEAN]

\* The options a client sets have values of their type; those that choose the
\* method, and the one that is not supported, are named as libcurl names them.
ASSUME OptionAssumption ==
  \A name \in DOMAIN OptionValues :
    \/ name \in {"POST", "UPLOAD", "HTTPGET"} /\ OptionValues[name] \subseteq BOOLEAN
    \/ name = "UNSUPPORTED"
    \/ /\ name \in {"url", "custom_request", "nobody", "body", "followlocation", "maxredirs",
                    "postredir", "failonerror", "protocols", "redir_protocols", "verify",
                    "proxy", "basic_auth", "secret_headers"}
       /\ \A value \in OptionValues[name] : [Defaults EXCEPT ![name] = value] \in Options

-----------------------------------------------------------------------------
\* [mutant] CURLOPT_POST leaves an upload request in place
PostKeepsUpload(name, value) ==
  /\ pc = "idle"
  /\ opt' = CASE name = "POST" -> [opt EXCEPT !.post = value]
              [] name = "UPLOAD" -> [opt EXCEPT !.upload = value, !.post = (@ /\ ~value)]
              [] name = "HTTPGET" -> [opt EXCEPT !.post = FALSE, !.upload = FALSE]
              [] name = "UNSUPPORTED" -> [opt EXCEPT !.unsupported_option = TRUE]
              [] OTHER -> [opt EXCEPT ![name] = value]
  /\ UNCHANGED <<results, pc, locals, resp, outside>>

\* The options of which the handle keeps a copy: there may be no memory for it.
CopiedStrings == {"url", "custom_request", "proxy", "basic_auth"}

\* curl_easy_setopt, between transfers.  The options that choose the request
\* method clear each other; an option tinyhttpsc cannot honour is remembered
\* for good in unsupported_option; the others are stored.  Without memory for a
\* string the option keeps its value and the handle's result reports it.
curl_easy_setopt(name, value) ==
  /\ pc = "idle"
  /\ \/ /\ opt' =
              CASE name = "POST" ->
                     IF value THEN [opt EXCEPT !.post = TRUE, !.upload = FALSE, !.nobody = FALSE]
                              ELSE [opt EXCEPT !.post = FALSE]
                [] name = "UPLOAD" ->
                     IF value THEN [opt EXCEPT !.upload = TRUE, !.post = FALSE, !.nobody = FALSE]
                              ELSE [opt EXCEPT !.upload = FALSE]
                [] name = "HTTPGET" ->
                     IF value THEN [opt EXCEPT !.post = FALSE, !.upload = FALSE, !.nobody = FALSE]
                              ELSE opt
                [] name = "UNSUPPORTED" -> [opt EXCEPT !.unsupported_option = TRUE]
                [] OTHER -> [opt EXCEPT ![name] = value]
        /\ UNCHANGED result
     \/ /\ name \in CopiedStrings /\ value # Defaults[name]
        /\ result' = "OUT_OF_MEMORY" /\ UNCHANGED opt
  /\ UNCHANGED <<response_code, effective_url, auth_avail, completed, pc, locals, resp, outside>>

-----------------------------------------------------------------------------
curl_scheme_allowed(url, protocols) ==
  url.scheme \in {"http", "https"} /\ url.scheme \in protocols

curl_same_origin(a, b) == a.scheme = b.scheme /\ a.host = b.host

curl_redirect_url(base, location) ==
  CASE location.kind = "absolute" -> location.url
    [] location.kind = "netpath" -> [base EXCEPT !.host = location.host]
    [] OTHER -> base

\* The method of the first request.
FirstMethod == IF opt.custom_request # "none" THEN opt.custom_request
               ELSE IF opt.upload THEN "PUT"
               ELSE IF opt.post THEN "POST"
               ELSE IF opt.nobody THEN "HEAD" ELSE "GET"

\* The checks before anything is sent, in their order.
Refusal == IF opt.url = NoUrl THEN "URL_MALFORMAT"
           ELSE IF opt.unsupported_option \/ opt.proxy THEN "NOT_BUILT_IN"
           ELSE IF ~curl_scheme_allowed(opt.url, opt.protocols) THEN "UNSUPPORTED_PROTOCOL"
           ELSE IF opt.url.scheme = "https" /\ ~opt.verify THEN "SSL_CERTPROBLEM"
           ELSE "OK"

\* What curl_add_request_headers adds that identifies the user: an Authorization
\* or Cookie header of the client's list, or basic authentication.
CarriesSecret(url) ==
  (opt.secret_headers \/ opt.basic_auth) /\ curl_same_origin(url, opt.url)

curl_map_response_error(code) ==
  CASE code = "bad_url" -> "URL_MALFORMAT"
    [] code = "memory" -> "OUT_OF_MEMORY"
    [] code = "resolve" -> "COULDNT_RESOLVE_HOST"
    [] code = "read" -> "READ_ERROR"
    [] code = "tls" /\ opt.url.scheme = "https" -> "SSL_CONNECT_ERROR"
    [] code = "timeout" -> "OPERATION_TIMEDOUT"
    [] OTHER -> "COULDNT_CONNECT"

MayRetry(code) ==
  /\ method \in {"GET", "POST"} /\ retries < 1
  /\ code \in {"COULDNT_CONNECT", "READ_ERROR", "SSL_CONNECT_ERROR", "OPERATION_TIMEDOUT"}

\* curl_easy_perform stores what curl_perform returned.
Return(code) ==
  /\ pc' = "idle" /\ result' = code /\ completed' = TRUE /\ resp' = NoResponse

\* [mutant] the retry is not counted
RetryUncounted(code) ==
  /\ MayRetry(code)
  /\ pc' = "fetch" /\ resp' = NoResponse
  /\ UNCHANGED <<result, completed, locals>>

\* Another round of the loop of curl_perform after a retryable failure.
Retry(code) ==
  /\ MayRetry(code)
  /\ retries' = retries + 1 /\ pc' = "fetch" /\ resp' = NoResponse
  /\ UNCHANGED <<result, completed, current_url, method, has_body, redirects>>

\* The loop ends with this code, or goes round again.
RetryOr(code) ==
  \/ Retry(code)
  \/ ~MayRetry(code) /\ Return(code) /\ UNCHANGED locals

-----------------------------------------------------------------------------
\* curl_easy_perform up to the first request.  Collecting the body can fail when
\* the read callback misbehaves.
curl_easy_perform ==
  /\ pc = "idle"
  /\ response_code' = 0 /\ effective_url' = NoUrl /\ auth_avail' = FALSE
  /\ sent' = NoRequest /\ requests' = 0 /\ written' = 0
  /\ current_url' = opt.url /\ method' = FirstMethod /\ has_body' = (opt.body # "none")
  /\ redirects' = 0 /\ retries' = 0
  /\ \/ Refusal # "OK" /\ Return(Refusal)
     \/ Refusal = "OK" /\ opt.body = "callback" /\ Return("READ_ERROR")
     \/ Refusal = "OK" /\ Return("OUT_OF_MEMORY")
     \/ Refusal = "OK" /\ pc' = "fetch" /\ result' = "OK" /\ completed' = FALSE
        /\ resp' = NoResponse
  /\ UNCHANGED opt

\* curl_add_request_headers and HttpsRequestFetch: one request leaves.
SendRequest ==
  /\ sent' = [url |-> current_url, method |-> method, body |-> has_body,
              secret |-> CarriesSecret(current_url)]
  /\ requests' = (IF requests < RequestCap THEN requests + 1 ELSE requests)

\* The request cannot be built: out of memory, or a header name is too long.
RequestFails ==
  /\ pc = "fetch"
  /\ Return("OUT_OF_MEMORY")
  /\ UNCHANGED <<opt, response_code, effective_url, auth_avail, locals, outside>>

\* tinyhttpsc returns no response object at all: no retry.
FetchNoResponse ==
  /\ pc = "fetch" /\ SendRequest
  /\ Return("COULDNT_CONNECT")
  /\ UNCHANGED <<opt, response_code, effective_url, auth_avail, locals, written>>

\* The response reports an error.
FetchError(code) ==
  /\ pc = "fetch" /\ SendRequest
  /\ RetryOr(curl_map_response_error(code))
  /\ UNCHANGED <<opt, response_code, effective_url, auth_avail, written>>

\* [mutant] the effective URL stays the one of the first response
KeepFirstUrl(r) ==
  /\ pc = "fetch" /\ SendRequest
  /\ response_code' = r.status
  /\ effective_url' = (IF effective_url = NoUrl THEN current_url ELSE effective_url)
  /\ auth_avail' = (auth_avail \/ r.challenge)
  /\ resp' = r /\ pc' = "response"
  /\ UNCHANGED <<opt, result, completed, locals, written>>

\* A response arrives: its status and URL are recorded, its headers are handed
\* to the header callback and a challenge for credentials is noted.
FetchResponse(r) ==
  /\ pc = "fetch" /\ SendRequest
  /\ response_code' = r.status /\ effective_url' = current_url
  /\ auth_avail' = (auth_avail \/ r.challenge)
  /\ resp' = r /\ pc' = "response"
  /\ UNCHANGED <<opt, result, completed, locals, written>>

\* The same, but there is no memory for the URL or for a header line, or the
\* callback refuses one, before or after the challenge.
HeadersFail(r) ==
  /\ pc = "fetch" /\ SendRequest
  /\ response_code' = r.status
  /\ \/ UNCHANGED <<effective_url, auth_avail>>
     \/ effective_url' = current_url /\ auth_avail' \in {auth_avail, auth_avail \/ r.challenge}
  /\ Return("OUT_OF_MEMORY")
  /\ UNCHANGED <<opt, locals, written>>

IsRedirect == /\ opt.followlocation /\ resp.status \in {301, 302, 303, 307, 308}
              /\ resp.location.kind # "missing"

\* [mutant] the redirect counter is compared but never incremented
RedirectUncounted ==
  LET next == curl_redirect_url(current_url, resp.location)
      toGet == \/ resp.status = 303
               \/ resp.status \in {301, 302} /\ resp.status \notin opt.postredir
  IN  /\ pc = "response" /\ IsRedirect
      /\ redirects < opt.maxredirs /\ curl_scheme_allowed(next, opt.redir_protocols)
      /\ current_url' = next
      /\ method' = (IF toGet THEN "GET" ELSE method)
      /\ has_body' = (has_body /\ ~toGet)
      /\ pc' = "fetch" /\ resp' = NoResponse
      /\ UNCHANGED <<opt, results, retries, redirects, outside>>

\* [mutant] each redirect decides anew about the request the client asked for
RedirectRestores ==
  LET next == curl_redirect_url(current_url, resp.location)
      toGet == \/ resp.status = 303
               \/ resp.status \in {301, 302} /\ resp.status \notin opt.postredir
  IN  /\ pc = "response" /\ IsRedirect
      /\ redirects < opt.maxredirs /\ curl_scheme_allowed(next, opt.redir_protocols)
      /\ redirects' = redirects + 1
      /\ current_url' = next
      /\ method' = (IF toGet THEN "GET" ELSE FirstMethod)
      /\ has_body' = (opt.body # "none" /\ ~toGet)
      /\ pc' = "fetch" /\ resp' = NoResponse
      /\ UNCHANGED <<opt, results, retries, outside>>

\* A redirect is followed.
FollowRedirect ==
  LET next == curl_redirect_url(current_url, resp.location)
      toGet == \/ resp.status = 303
               \/ resp.status \in {301, 302} /\ resp.status \notin opt.postredir
  IN  /\ pc = "response" /\ IsRedirect
      /\ redirects < opt.maxredirs /\ curl_scheme_allowed(next, opt.redir_protocols)
      /\ redirects' = redirects + 1
      /\ current_url' = next
      /\ method' = (IF toGet THEN "GET" ELSE method)
      /\ has_body' = (has_body /\ ~toGet)
      /\ pc' = "fetch" /\ resp' = NoResponse
      /\ UNCHANGED <<opt, results, retries, outside>>

\* A redirect is refused: one too many, no memory for the URL, or a protocol that
\* is not allowed.
RefuseRedirect ==
  LET next == curl_redirect_url(current_url, resp.location)
  IN  /\ pc = "response" /\ IsRedirect
      /\ redirects' = redirects + 1
      /\ \/ redirects >= opt.maxredirs /\ Return("TOO_MANY_REDIRECTS")
         \/ redirects < opt.maxredirs /\ Return("OUT_OF_MEMORY")
         \/ /\ redirects < opt.maxredirs /\ ~curl_scheme_allowed(next, opt.redir_protocols)
            /\ Return("UNSUPPORTED_PROTOCOL")
      /\ UNCHANGED <<opt, response_code, effective_url, auth_avail, current_url, method,
                     has_body, retries, outside>>

\* CURLOPT_FAILONERROR
HttpError ==
  /\ pc = "response" /\ ~IsRedirect
  /\ opt.failonerror /\ resp.status >= 400
  /\ Return("HTTP_RETURNED_ERROR")
  /\ UNCHANGED <<opt, response_code, effective_url, auth_avail, locals, outside>>

\* [mutant] the body is passed on chunk by chunk instead of being buffered
StreamBody ==
  /\ pc = "response" /\ ~IsRedirect /\ ~(opt.failonerror /\ resp.status >= 400)
  /\ \/ opt.nobody /\ Return("OK") /\ UNCHANGED <<locals, written>>
     \/ ~opt.nobody /\ RetryOr("READ_ERROR") /\ written' = written + 1
     \/ /\ ~opt.nobody /\ written' = written + 1 /\ UNCHANGED locals
        /\ Return("OK") \/ Return("WRITE_ERROR")
  /\ UNCHANGED <<opt, response_code, effective_url, auth_avail, sent, requests>>

\* curl_deliver_body reads the whole body before the one call of write_callback,
\* so a body that breaks off is retried unseen.
curl_deliver_body ==
  /\ pc = "response" /\ ~IsRedirect /\ ~(opt.failonerror /\ resp.status >= 400)
  /\ \/ opt.nobody /\ Return("OK") /\ UNCHANGED <<locals, written>>
     \/ ~opt.nobody /\ RetryOr("READ_ERROR") /\ UNCHANGED written
     \/ ~opt.nobody /\ Return("OUT_OF_MEMORY") /\ UNCHANGED <<locals, written>>
     \/ /\ ~opt.nobody /\ written' = written + 1 /\ UNCHANGED locals
        /\ Return("OK") \/ Return("WRITE_ERROR")
  /\ UNCHANGED <<opt, response_code, effective_url, auth_avail, sent, requests>>

Setopt == \E name \in DOMAIN OptionValues : \E value \in OptionValues[name] :
            curl_easy_setopt(name, value)

\* curl_perform from the first request on.
Step ==
  \/ RequestFails \/ FetchNoResponse
  \/ \E code \in ErrorCodes : FetchError(code)
  \/ \E r \in Responses : FetchResponse(r) \/ HeadersFail(r)
  \/ FollowRedirect \/ RefuseRedirect \/ HttpError \/ curl_deliver_body

CTInit ==
  /\ opt = Defaults
  /\ response_code = 0 /\ effective_url = NoUrl /\ auth_avail = FALSE
  /\ result = "OK" /\ completed = FALSE
  /\ pc = "idle" /\ current_url = NoUrl /\ method = "GET" /\ has_body = FALSE
  /\ redirects = 0 /\ retries = 0 /\ resp = NoResponse
  /\ sent = NoRequest /\ requests = 0 /\ written = 0

CTNext == Setopt \/ curl_easy_perform \/ Step

CTSpec == CTInit /\ [][CTNext]_ctVars

\* tinyhttpsc bounds every exchange with a timeout (HttpsRequestSetTimeout) and
\* curl_perform is a plain loop: once started it keeps taking steps.
CTFairSpec == CTSpec /\ WF_ctVars(Step)

-----------------------------------------------------------------------------
\* The types; of the options that choose the method, curl_easy_setopt keeps at
\* most one of POST and UPLOAD, and one transfer retries at most once.
CTTypeOK ==
  /\ opt.url \in Urls \cup {NoUrl} /\ opt.maxredirs \in Nat
  /\ {opt.post, opt.upload, opt.nobody, opt.followlocation, opt.failonerror, opt.verify,
      opt.unsupported_option, opt.proxy, opt.basic_auth, opt.secret_headers} \subseteq BOOLEAN
  /\ ~(opt.post /\ opt.upload)
  /\ response_code \in Statuses \cup {0} /\ effective_url \in Urls \cup {NoUrl}
  /\ auth_avail \in BOOLEAN /\ result \in CURLcodes /\ completed \in BOOLEAN
  /\ pc \in {"idle", "fetch", "response"}
  /\ current_url \in Urls \cup {NoUrl} /\ method \in Methods /\ has_body \in BOOLEAN
  /\ redirects \in Nat /\ retries \in 0..1
  /\ resp \in Responses \cup {NoResponse}
  /\ requests \in 0..RequestCap /\ written \in Nat

\* Requests as the client asked for them, and without its method and its body.
AsAsked(q) == q.method = FirstMethod /\ q.body = (opt.body # "none")
PlainGet(q) == q.method = "GET" /\ ~q.body

\* The status of the last response lets a redirect turn the request into a GET:
\* 303, and 301 and 302 where CURLOPT_POSTREDIR does not forbid it.
Turning == response_code = 303 \/ response_code \in {301, 302} \ opt.postredir

\* The client's method and body go along from one request of a transfer to the
\* next until a 301, 302 or 303 turns it into a plain GET, and they never come
\* back: what was posted to one server is not posted again by a later 307 or 308,
\* nor by a retry after the turn (method and has_body in curl_perform).
RequestTurnsOnce ==
  [][pc # "idle" /\ sent' # sent =>
       \/ AsAsked(sent') /\ (sent = NoRequest \/ AsAsked(sent))
       \/ /\ PlainGet(sent') /\ sent # NoRequest
          /\ PlainGet(sent) \/ (AsAsked(sent) /\ Turning)]_ctVars

\* One call of curl_easy_perform costs at most maxredirs redirects, one retry and
\* the first request, whatever the servers answer.
RequestBound ==
  pc # "idle" =>
    requests <= 2 + (IF opt.followlocation THEN opt.maxredirs ELSE 0)

\* The client's write callback sees one body per transfer, and none before the
\* transfer is over: a body that broke off and was fetched again is not seen
\* twice.
BodyOnce ==
  /\ written <= 1
  /\ pc # "idle" => written = 0
  /\ written = 1 => completed

\* A transfer reports success only for a complete final answer: of the URL the
\* last request went to, and of no error status when CURLOPT_FAILONERROR is set.
\* One that fails has handed over nothing, unless it was the client that refused.
SuccessIsFinal ==
  [][pc # "idle" /\ pc' = "idle" =>
       /\ result' = "OK" =>
            /\ effective_url = sent.url /\ response_code = resp.status
            /\ opt.failonerror => response_code < 400
            /\ opt.nobody \/ written' = 1
       /\ result' \notin {"OK", "WRITE_ERROR"} => written' = 0]_ctVars

\* curl_easy_perform returns.
Terminates == (pc # "idle") ~> (pc = "idle")
=============================================================================
