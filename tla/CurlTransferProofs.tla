------------------------- MODULE CurlTransferProofs -------------------------
(***************************************************************************)
(* TLAPS proofs about CurlTransfer, for any hosts, statuses and options.   *)
(***************************************************************************)
EXTENDS CurlTransfer, TLAPS

Requests == [url : Urls \cup {NoUrl}, method : Methods, body : BOOLEAN, secret : BOOLEAN]

\* The types.
Types ==
  /\ opt \in Options /\ ~(opt.post /\ opt.upload)
  /\ response_code \in Statuses \cup {0} /\ effective_url \in Urls \cup {NoUrl}
  /\ auth_avail \in BOOLEAN /\ result \in CURLcodes /\ completed \in BOOLEAN
  /\ pc \in {"idle", "fetch", "response"}
  /\ current_url \in Urls \cup {NoUrl} /\ method \in Methods /\ has_body \in BOOLEAN
  /\ redirects \in Nat /\ retries \in 0..1
  /\ resp \in Responses \cup {NoResponse}
  /\ sent \in Requests /\ requests \in 0..RequestCap /\ written \in Nat

\* A transfer under way: where it may go next, how many requests it has sent,
\* that the client has seen nothing of a body, and that what it records of a
\* response is the answer to its last request.
Underway ==
  pc # "idle" =>
    /\ current_url \in Urls
    /\ redirects <= (IF opt.followlocation THEN opt.maxredirs ELSE 0)
    /\ requests <= redirects + retries + (IF pc = "response" THEN 1 ELSE 0)
    /\ written = 0
    /\ pc = "response" => /\ resp \in Responses /\ response_code = resp.status
                          /\ effective_url = sent.url

\* The request a transfer sends next: the one the client asked for, as were all
\* before it, or a plain GET, from the response on that turned it into one.
Turned ==
  pc # "idle" =>
    /\ pc = "response" => sent # NoRequest
    /\ \/ /\ method = FirstMethod /\ has_body = (opt.body # "none")
          /\ sent = NoRequest \/ AsAsked(sent)
       \/ /\ method = "GET" /\ ~has_body /\ sent # NoRequest
          /\ PlainGet(sent) \/ (AsAsked(sent) /\ pc = "fetch" /\ Turning)

CTInv == Types /\ Underway /\ Turned /\ BodyOnce

-----------------------------------------------------------------------------

\* Setting an option keeps the options' types, and at most one of POST and UPLOAD.
LEMMA SetoptTypes ==
  ASSUME opt \in Options, ~(opt.post /\ opt.upload),
         NEW name \in DOMAIN OptionValues, NEW value \in OptionValues[name],
         curl_easy_setopt(name, value)
  PROVE  opt' \in Options /\ ~(opt'.post /\ opt'.upload)
<1>0. SUFFICES ASSUME opt' # opt PROVE opt' \in Options /\ ~(opt'.post /\ opt'.upload)
  OBVIOUS
<1>1. CASE name = "POST" /\ value \in BOOLEAN
  <2>1. opt' = IF value THEN [opt EXCEPT !.post = TRUE, !.upload = FALSE, !.nobody = FALSE]
                        ELSE [opt EXCEPT !.post = FALSE]
    BY <1>0, <1>1 DEF curl_easy_setopt
  <2> QED
    BY <1>1, <2>1 DEF Options
<1>2. CASE name = "UPLOAD" /\ value \in BOOLEAN
  <2>1. opt' = IF value THEN [opt EXCEPT !.upload = TRUE, !.post = FALSE, !.nobody = FALSE]
                        ELSE [opt EXCEPT !.upload = FALSE]
    BY <1>0, <1>2 DEF curl_easy_setopt
  <2> QED
    BY <1>2, <2>1 DEF Options
<1>3. CASE name = "HTTPGET" /\ value \in BOOLEAN
  <2>1. opt' = IF value THEN [opt EXCEPT !.post = FALSE, !.upload = FALSE, !.nobody = FALSE]
                        ELSE opt
    BY <1>0, <1>3 DEF curl_easy_setopt
  <2> QED
    BY <1>3, <2>1 DEF Options
<1>4. CASE name = "UNSUPPORTED"
  BY <1>0, <1>4 DEF curl_easy_setopt, Options
<1>5. ASSUME name \in {"url", "custom_request", "nobody", "body", "followlocation", "maxredirs",
                       "postredir", "failonerror", "protocols", "redir_protocols", "verify",
                       "proxy", "basic_auth", "secret_headers"},
             [Defaults EXCEPT ![name] = value] \in Options
      PROVE  opt' \in Options /\ ~(opt'.post /\ opt'.upload)
  <2>1. opt' = [opt EXCEPT ![name] = value]
    BY <1>0, <1>5 DEF curl_easy_setopt
  <2>2. [opt EXCEPT ![name] = value] \in Options
    BY <1>5 DEF Options, Defaults
  <2>3. /\ [opt EXCEPT ![name] = value].post = opt.post
        /\ [opt EXCEPT ![name] = value].upload = opt.upload
    BY <1>5 DEF Options
  <2> QED
    BY <2>1, <2>2, <2>3
<1> QED
  BY <1>1, <1>2, <1>3, <1>4, <1>5, OptionAssumption DEF OptionAssumption

-----------------------------------------------------------------------------

\* The URL a redirect leads to is a URL.
LEMMA RedirectUrl ==
  ASSUME NEW base \in Urls, NEW location \in Locations
  PROVE  curl_redirect_url(base, location) \in Urls
<1>1. CASE location \in [kind : {"absolute"}, url : Urls]
  BY <1>1 DEF curl_redirect_url
<1>2. CASE location \in [kind : {"netpath"}, host : Hosts]
  BY <1>2 DEF curl_redirect_url, Urls
<1>3. CASE location \in [kind : {"relative", "missing"}]
  BY <1>3 DEF curl_redirect_url
<1> QED
  BY <1>1, <1>2, <1>3 DEF Locations

\* Error codes of the HTTP client become error codes of libcurl.
LEMMA ErrorIsError ==
  ASSUME NEW code
  PROVE  curl_map_response_error(code) \in CURLcodes \ {"OK"}
BY DEF curl_map_response_error, CURLcodes

\* Setting an option between two transfers.
LEMMA SetoptInv ==
  ASSUME CTInv, Setopt
  PROVE  CTInv'
<1>1. PICK name \in DOMAIN OptionValues : \E value \in OptionValues[name] :
         curl_easy_setopt(name, value)
  BY DEF Setopt
<1>2. PICK value \in OptionValues[name] : curl_easy_setopt(name, value)
  BY <1>1
<1>3. /\ pc = "idle" /\ result' \in {result, "OUT_OF_MEMORY"}
      /\ UNCHANGED <<response_code, effective_url, auth_avail, completed, pc, locals, resp, outside>>
  BY <1>2 DEF curl_easy_setopt
<1>4. opt' \in Options /\ ~(opt'.post /\ opt'.upload)
  BY <1>2, SetoptTypes DEF CTInv, Types
<1>5. Types'
  BY <1>3, <1>4 DEF CTInv, Types, CURLcodes, locals, outside
<1> QED
  BY <1>3, <1>5 DEF CTInv, Underway, Turned, BodyOnce, outside

\* curl_easy_perform up to the first request.
LEMMA PerformInv ==
  ASSUME CTInv, curl_easy_perform
  PROVE  CTInv'
<1>1. /\ opt \in Options /\ opt' = opt /\ ~(opt.post /\ opt.upload)
      /\ response_code' = 0 /\ effective_url' = NoUrl /\ auth_avail' = FALSE
      /\ sent' = NoRequest /\ requests' = 0 /\ written' = 0
      /\ current_url' = opt.url /\ method' = FirstMethod /\ has_body' = (opt.body # "none")
      /\ redirects' = 0 /\ retries' = 0 /\ resp' = NoResponse
  BY DEF CTInv, Types, curl_easy_perform, Return
<1>2. /\ pc' \in {"idle", "fetch"} /\ result' \in CURLcodes /\ completed' \in BOOLEAN
      /\ pc' = "fetch" => Refusal = "OK"
  <2>1. Refusal \in CURLcodes
    BY DEF Refusal, CURLcodes
  <2> QED
    BY <2>1 DEF curl_easy_perform, Return, CURLcodes
<1>3. FirstMethod \in Methods
  BY <1>1 DEF FirstMethod, Options, Methods
<1>4. Refusal = "OK" => opt.url \in Urls
  <2>1. opt.url \in Urls \cup {NoUrl}
    BY <1>1 DEF Options
  <2> QED
    BY <2>1 DEF Refusal
<1>5. NoRequest \in Requests
  BY DEF NoRequest, Requests, Methods
<1>6. Types'
  <2>1. current_url' \in Urls \cup {NoUrl} /\ has_body' \in BOOLEAN
    BY <1>1 DEF Options
  <2>2. requests' \in 0..RequestCap /\ retries' \in 0..1 /\ redirects' \in Nat /\ written' \in Nat
    BY <1>1, CTAssumption DEF CTAssumption
  <2> QED
    BY <1>1, <1>2, <1>3, <1>5, <2>1, <2>2 DEF Types
<1>7. Underway'
  <2>1. 0 <= (IF opt'.followlocation THEN opt'.maxredirs ELSE 0)
    BY <1>1 DEF Options
  <2> QED
    BY <1>1, <1>2, <1>4, <2>1 DEF Underway
<1>8. Turned'
  BY <1>1, <1>2 DEF Turned, FirstMethod
<1> QED
  BY <1>1, <1>5, <1>6, <1>7, <1>8 DEF CTInv, BodyOnce

\* The request sent last is the one that would be sent again.
Repeats ==
  /\ sent # NoRequest
  /\ \/ method = FirstMethod /\ has_body = (opt.body # "none") /\ AsAsked(sent)
     \/ method = "GET" /\ ~has_body /\ PlainGet(sent)

\* A request leaves, with the method and the body the transfer has come to, and
\* there is one request more.
LEMMA SendInv ==
  ASSUME CTInv, pc = "fetch", SendRequest, UNCHANGED <<opt, method, has_body>>
  PROVE  /\ sent' \in Requests /\ sent'.url = current_url /\ Repeats'
         /\ requests' \in 0..RequestCap /\ requests' <= requests + 1
<1>1. /\ current_url \in Urls \cup {NoUrl} /\ method \in Methods /\ has_body \in BOOLEAN
      /\ opt \in Options /\ requests \in 0..RequestCap
  BY DEF CTInv, Types
<1>2. CarriesSecret(current_url) \in BOOLEAN
  BY DEF CarriesSecret, curl_same_origin
<1>3. /\ sent' \in Requests /\ sent'.url = current_url
      /\ sent'.method = method /\ sent'.body = has_body
  BY <1>1, <1>2 DEF SendRequest, Requests
<1>4. requests' \in 0..RequestCap /\ requests' <= requests + 1
  BY <1>1, CTAssumption DEF SendRequest, CTAssumption
<1>5. sent' # NoRequest
  <2>1. current_url \in Urls
    BY DEF CTInv, Underway
  <2>2. current_url.host # NoUrl.host
    BY <2>1, CTAssumption DEF Urls, NoUrl, CTAssumption
  <2> QED
    BY <1>3, <2>2 DEF NoRequest
<1>6. Repeats'
  <2>1. FirstMethod' = FirstMethod /\ opt' = opt /\ method' = method /\ has_body' = has_body
    BY DEF FirstMethod
  <2>2. \/ method = FirstMethod /\ has_body = (opt.body # "none")
        \/ method = "GET" /\ ~has_body
    BY DEF CTInv, Turned
  <2> QED
    BY <1>3, <1>5, <2>1, <2>2 DEF Repeats, AsAsked, PlainGet
<1> QED
  BY <1>3, <1>4, <1>6

\* A response has come to the last request.
LEMMA Answered ==
  ASSUME CTInv, pc = "response"
  PROVE  Repeats
BY DEF CTInv, Turned, Repeats

\* A transfer that ends without having handed over a body.
LEMMA ReturnInv ==
  ASSUME CTInv, pc # "idle", NEW code \in CURLcodes, Return(code),
         opt' = opt, written' = written, current_url' = current_url, method' = method,
         has_body' = has_body, redirects' \in Nat, retries' = retries,
         response_code' \in Statuses \cup {0}, effective_url' \in Urls \cup {NoUrl},
         auth_avail' \in BOOLEAN, sent' \in Requests, requests' \in 0..RequestCap
  PROVE  CTInv'
<1>1. pc' = "idle" /\ result' = code /\ completed' = TRUE /\ resp' = NoResponse
  BY DEF Return
<1>2. Types'
  BY <1>1 DEF CTInv, Types
<1>3. written' = 0
  BY DEF CTInv, Underway
<1> QED
  BY <1>1, <1>2, <1>3 DEF CTInv, Underway, Turned, BodyOnce

\* A failure is retried once, or ends the transfer.
LEMMA RetryOrInv ==
  ASSUME CTInv, pc # "idle", NEW code \in CURLcodes, RetryOr(code),
         UNCHANGED <<opt, response_code, effective_url, auth_avail, written>>,
         sent' \in Requests, requests' \in 0..RequestCap,
         Repeats',
         requests' <= redirects + retries + 1
  PROVE  CTInv'
<1>1. CASE Retry(code)
  <2>1. /\ retries < 1 /\ retries' = retries + 1 /\ pc' = "fetch" /\ resp' = NoResponse
        /\ UNCHANGED <<result, completed, current_url, method, has_body, redirects>>
    BY <1>1 DEF Retry, MayRetry
  <2>2. retries \in 0..1 /\ redirects \in Nat /\ retries' \in 0..1
    BY <2>1 DEF CTInv, Types
  <2>3. Types'
    BY <2>1, <2>2 DEF CTInv, Types
  <2>4. Underway'
    <3>1. /\ current_url \in Urls /\ written = 0
          /\ redirects <= (IF opt.followlocation THEN opt.maxredirs ELSE 0)
      BY DEF CTInv, Underway
    <3>2. requests' <= redirects' + retries' + 0
      BY <2>1, <2>2
    <3> QED
      BY <2>1, <3>1, <3>2 DEF Underway
  <2> QED
    BY <2>1, <2>3, <2>4 DEF CTInv, Underway, Turned, Repeats, BodyOnce
<1>2. CASE Return(code) /\ UNCHANGED locals
  <2>1. /\ current_url' = current_url /\ method' = method /\ has_body' = has_body
        /\ redirects' = redirects /\ retries' = retries
    BY <1>2 DEF locals
  <2>2. /\ redirects \in Nat /\ response_code \in Statuses \cup {0}
        /\ effective_url \in Urls \cup {NoUrl} /\ auth_avail \in BOOLEAN
    BY DEF CTInv, Types
  <2> QED
    BY <1>2, <2>1, <2>2, ReturnInv
<1> QED
  BY <1>1, <1>2 DEF RetryOr

\* One round of the loop up to a response or a failure to get one.
LEMMA FetchInv ==
  ASSUME CTInv,
         \/ RequestFails \/ FetchNoResponse
         \/ \E code \in ErrorCodes : FetchError(code)
         \/ \E r \in Responses : FetchResponse(r) \/ HeadersFail(r)
  PROVE  CTInv'
<1>1. pc = "fetch"
  BY DEF RequestFails, FetchNoResponse, FetchError, FetchResponse, HeadersFail
<1>2. /\ redirects \in Nat /\ retries \in 0..1 /\ requests \in 0..RequestCap
      /\ response_code \in Statuses \cup {0} /\ effective_url \in Urls \cup {NoUrl}
      /\ auth_avail \in BOOLEAN /\ sent \in Requests
      /\ current_url \in Urls /\ requests <= redirects + retries
      /\ RequestCap \in Nat
  BY <1>1, CTAssumption DEF CTInv, Types, Underway, CTAssumption
<1>3. "OUT_OF_MEMORY" \in CURLcodes /\ "COULDNT_CONNECT" \in CURLcodes
  BY DEF CURLcodes
<1>4. CASE RequestFails
  BY <1>1, <1>2, <1>3, <1>4, ReturnInv DEF RequestFails, locals, outside
<1>5. CASE FetchNoResponse
  BY <1>1, <1>2, <1>3, <1>5, SendInv, ReturnInv DEF FetchNoResponse, locals
<1>6. ASSUME NEW code \in ErrorCodes, FetchError(code)
      PROVE  CTInv'
  <2>1. /\ RetryOr(curl_map_response_error(code)) /\ SendRequest
        /\ UNCHANGED <<opt, response_code, effective_url, auth_avail, written>>
    BY <1>6 DEF FetchError
  <2>2. curl_map_response_error(code) \in CURLcodes
    BY ErrorIsError
  <2>3. /\ sent' \in Requests /\ requests' \in 0..RequestCap /\ requests' <= requests + 1
        /\ Repeats'
    <3>1. UNCHANGED <<method, has_body>>
      BY <2>1 DEF RetryOr, Retry, locals
    <3> QED
      BY <1>1, <2>1, <3>1, SendInv
  <2>4. requests' <= redirects + retries + 1
    BY <1>2, <2>3
  <2> QED
    BY <1>1, <2>1, <2>2, <2>3, <2>4, RetryOrInv
<1>7. ASSUME NEW r \in Responses, FetchResponse(r)
      PROVE  CTInv'
  <2>1. /\ SendRequest /\ response_code' = r.status /\ effective_url' = current_url
        /\ auth_avail' = (auth_avail \/ r.challenge) /\ resp' = r /\ pc' = "response"
        /\ UNCHANGED <<opt, result, completed, locals, written>>
    BY <1>7 DEF FetchResponse
  <2>2. /\ sent' \in Requests /\ requests' \in 0..RequestCap /\ requests' <= requests + 1
        /\ sent'.url = current_url /\ Repeats'
    BY <1>1, <2>1, SendInv DEF locals
  <2>3. r.status \in Statuses /\ r.challenge \in BOOLEAN
    BY DEF Responses
  <2>4. /\ current_url' = current_url /\ method' = method /\ has_body' = has_body
        /\ redirects' = redirects /\ retries' = retries
    BY <2>1 DEF locals
  <2>5. auth_avail' \in BOOLEAN
    BY <2>1
  <2>6. Types'
    BY <2>1, <2>2, <2>3, <2>4, <2>5 DEF CTInv, Types
  <2>7. Underway'
    <3>1. requests' <= redirects' + retries' + 1
      BY <1>2, <2>2, <2>4
    <3>2. written = 0 /\ redirects <= (IF opt.followlocation THEN opt.maxredirs ELSE 0)
      BY <1>1 DEF CTInv, Underway
    <3> QED
      BY <1>2, <2>1, <2>2, <2>4, <3>1, <3>2 DEF Underway
  <2> QED
    BY <2>1, <2>2, <2>6, <2>7 DEF CTInv, Turned, Repeats, BodyOnce, Underway
<1>8. ASSUME NEW r \in Responses, HeadersFail(r)
      PROVE  CTInv'
  <2>1. /\ SendRequest /\ response_code' = r.status /\ Return("OUT_OF_MEMORY")
        /\ UNCHANGED <<opt, locals, written>>
        /\ \/ UNCHANGED <<effective_url, auth_avail>>
           \/ /\ effective_url' = current_url
              /\ auth_avail' \in {auth_avail, auth_avail \/ r.challenge}
    BY <1>8 DEF HeadersFail
  <2>2. sent' \in Requests /\ requests' \in 0..RequestCap
    BY <1>1, <2>1, SendInv DEF locals
  <2>3. r.status \in Statuses
    BY DEF Responses
  <2>4. auth_avail' \in BOOLEAN /\ effective_url' \in Urls \cup {NoUrl}
    BY <1>2, <2>1
  <2>5. /\ current_url' = current_url /\ method' = method /\ has_body' = has_body
        /\ redirects' = redirects /\ retries' = retries
    BY <2>1 DEF locals
  <2> QED
    BY <1>1, <1>2, <1>3, <2>1, <2>2, <2>3, <2>4, <2>5, ReturnInv
<1> QED
  BY <1>4, <1>5, <1>6, <1>7, <1>8

\* What is done with a response: a redirect is followed or refused, an error
\* status refused, or the body handed over.
LEMMA ResponseInv ==
  ASSUME CTInv, FollowRedirect \/ RefuseRedirect \/ HttpError \/ curl_deliver_body
  PROVE  CTInv'
<1>1. pc = "response"
  BY DEF FollowRedirect, RefuseRedirect, HttpError, curl_deliver_body
<1>2. /\ opt \in Options /\ redirects \in Nat /\ retries \in 0..1 /\ requests \in 0..RequestCap
      /\ response_code \in Statuses \cup {0} /\ effective_url \in Urls \cup {NoUrl}
      /\ auth_avail \in BOOLEAN /\ sent \in Requests /\ method \in Methods /\ has_body \in BOOLEAN
      /\ current_url \in Urls /\ requests <= redirects + retries + 1
      /\ resp \in Responses /\ written = 0 /\ RequestCap \in Nat
  BY <1>1, CTAssumption DEF CTInv, Types, Underway, CTAssumption
<1>3. {"OK", "OUT_OF_MEMORY", "TOO_MANY_REDIRECTS", "UNSUPPORTED_PROTOCOL", "READ_ERROR",
       "HTTP_RETURNED_ERROR", "WRITE_ERROR"} \subseteq CURLcodes
  BY DEF CURLcodes
<1>4. CASE FollowRedirect
  <2> DEFINE next == curl_redirect_url(current_url, resp.location)
  <2>1. next \in Urls
    BY <1>2, RedirectUrl DEF Responses
  <2> HIDE DEF next
  <2>2. /\ opt.followlocation /\ redirects < opt.maxredirs /\ redirects' = redirects + 1
        /\ current_url' = next /\ pc' = "fetch" /\ resp' = NoResponse
        /\ UNCHANGED <<opt, results, retries, outside>>
    BY <1>4 DEF FollowRedirect, IsRedirect, next
  <2>3. method' \in Methods /\ has_body' \in BOOLEAN
    <3>1. "GET" \in Methods
      BY DEF Methods
    <3>2. method' \in {"GET", method}
      BY <1>4 DEF FollowRedirect
    <3>3. has_body' \in BOOLEAN
      BY <1>4 DEF FollowRedirect
    <3> QED
      BY <1>2, <3>1, <3>2, <3>3
  <2>4. opt.maxredirs \in Nat
    BY <1>2 DEF Options
  <2>5. Types'
    BY <1>2, <2>1, <2>2, <2>3 DEF CTInv, Types, results, outside
  <2>6. Underway'
    <3>1. requests' <= redirects' + retries' + 0
      BY <1>2, <2>2 DEF outside
    <3>2. redirects' <= (IF opt'.followlocation THEN opt'.maxredirs ELSE 0)
      BY <1>2, <2>2, <2>4
    <3>3. written' = 0
      BY <1>2, <2>2 DEF outside
    <3> QED
      BY <2>1, <2>2, <3>1, <3>2, <3>3 DEF Underway
  <2>7. Turned'
    <3>1. Repeats /\ response_code = resp.status
      BY <1>1, Answered DEF CTInv, Underway
    <3>2. /\ sent' = sent /\ opt' = opt /\ response_code' = response_code
          /\ FirstMethod' = FirstMethod
      BY <2>2 DEF outside, results, FirstMethod
    <3>3. CASE Turning
      <4>1. method' = "GET" /\ ~has_body'
        BY <1>4, <3>1, <3>3 DEF FollowRedirect, Turning
      <4>2. Turning'
        BY <3>2, <3>3 DEF Turning
      <4> QED
        BY <2>2, <3>1, <3>2, <4>1, <4>2 DEF Turned, Repeats, AsAsked, PlainGet
    <3>4. CASE ~Turning
      <4>1. method' = method /\ has_body' = has_body
        BY <1>2, <1>4, <3>1, <3>4 DEF FollowRedirect, Turning
      <4> QED
        BY <2>2, <3>1, <3>2, <4>1 DEF Turned, Repeats, AsAsked, PlainGet
    <3> QED
      BY <3>3, <3>4
  <2> QED
    BY <1>1, <1>2, <2>2, <2>5, <2>6, <2>7 DEF CTInv, BodyOnce, outside
<1>5. CASE RefuseRedirect
  <2>1. /\ redirects' \in Nat /\ opt' = opt /\ written' = written /\ sent' = sent
        /\ requests' = requests /\ response_code' = response_code
        /\ effective_url' = effective_url /\ auth_avail' = auth_avail
        /\ current_url' = current_url /\ method' = method /\ has_body' = has_body
        /\ retries' = retries
    BY <1>2, <1>5 DEF RefuseRedirect, outside
  <2>2. \E code \in CURLcodes : Return(code)
    BY <1>3, <1>5 DEF RefuseRedirect
  <2> QED
    BY <1>1, <1>2, <2>1, <2>2, ReturnInv
<1>6. CASE HttpError
  BY <1>1, <1>2, <1>3, <1>6, ReturnInv DEF HttpError, locals, outside
<1>7. CASE curl_deliver_body
  <2>1. UNCHANGED <<opt, response_code, effective_url, auth_avail, sent, requests>>
    BY <1>7 DEF curl_deliver_body
  <2>2. CASE \E code \in {"OK", "OUT_OF_MEMORY"} : Return(code) /\ UNCHANGED <<locals, written>>
    BY <1>1, <1>2, <1>3, <2>1, <2>2, ReturnInv DEF locals
  <2>3. CASE RetryOr("READ_ERROR") /\ UNCHANGED written
    <3>0. method' = method /\ has_body' = has_body
      BY <2>3 DEF RetryOr, Retry, locals
    <3>1. Repeats'
      BY <1>1, <2>1, <3>0, Answered DEF Repeats, AsAsked, PlainGet, FirstMethod
    <3> QED
      BY <1>1, <1>2, <1>3, <2>1, <2>3, <3>1, RetryOrInv
  <2>4. CASE /\ written' = written + 1 /\ UNCHANGED locals
             /\ Return("OK") \/ Return("WRITE_ERROR")
    <3>1. /\ pc' = "idle" /\ result' \in {"OK", "WRITE_ERROR"} /\ completed' = TRUE
          /\ resp' = NoResponse /\ written' = 1
      BY <1>2, <2>4 DEF Return
    <3>2. Types'
      BY <1>3, <2>1, <2>4, <3>1 DEF CTInv, Types, locals
    <3> QED
      BY <3>1, <3>2 DEF CTInv, Underway, Turned, BodyOnce
  <2> QED
    BY <1>7, <2>2, <2>3, <2>4 DEF curl_deliver_body
<1> QED
  BY <1>4, <1>5, <1>6, <1>7

-----------------------------------------------------------------------------

\* A new handle satisfies the invariant.
LEMMA CTInitInv == CTInit => CTInv
<1> SUFFICES ASSUME CTInit PROVE CTInv
  OBVIOUS
<1>1. Defaults \in Options /\ ~(Defaults.post /\ Defaults.upload)
  <2>1. {"http", "https"} \in SUBSET Protocols
    BY DEF Protocols
  <2>2. DefaultMaxRedirs \in Nat
    BY CTAssumption DEF CTAssumption
  <2>3. Defaults \in Options
    BY <2>1, <2>2 DEF Defaults, Options
  <2> QED
    BY <2>3 DEF Defaults
<1>2. NoRequest \in Requests /\ "GET" \in Methods /\ "OK" \in CURLcodes
  BY DEF NoRequest, Requests, Methods, CURLcodes
<1>3. Types
  <2>1. 0 \in 0..RequestCap /\ 0 \in 0..1
    BY CTAssumption DEF CTAssumption
  <2> QED
    BY <1>1, <1>2, <2>1 DEF CTInit, Types
<1> QED
  BY <1>3 DEF CTInit, CTInv, Underway, Turned, BodyOnce

\* Every step preserves the invariant.
LEMMA CTNextInv == CTInv /\ [CTNext]_ctVars => CTInv'
<1> SUFFICES ASSUME CTInv, [CTNext]_ctVars PROVE CTInv'
  OBVIOUS
<1>1. CASE Setopt
  BY <1>1, SetoptInv
<1>2. CASE curl_easy_perform
  BY <1>2, PerformInv
<1>3. CASE Step
  BY <1>3, FetchInv, ResponseInv DEF Step
<1>4. CASE UNCHANGED ctVars
  BY <1>4 DEF ctVars, CTInv, Types, Underway, Turned, BodyOnce, AsAsked, PlainGet, FirstMethod,
              Turning
<1> QED
  BY <1>1, <1>2, <1>3, <1>4 DEF CTNext

\* The invariant holds of every sequence of options and transfers on a handle.
THEOREM TransferInvariant == CTSpec => []CTInv
BY CTInitInv, CTNextInv, PTL DEF CTSpec

\* The handle keeps its types; POST and UPLOAD exclude each other, whatever the
\* order in which curl_easy_setopt() is called, and one transfer retries once.
THEOREM TransferTypes == CTSpec => []CTTypeOK
<1>1. CTInv => CTTypeOK
  BY DEF CTInv, Types, CTTypeOK, Options
<1> QED
  BY <1>1, TransferInvariant, PTL

\* The client's method and body accompany every request of a transfer until a
\* redirect turns it into a plain GET, and never come back after it: through any
\* number of later redirects and retries (method and has_body in curl_perform()).
THEOREM TransferTurnsOnce == CTSpec => RequestTurnsOnce
<1> DEFINE Turns == pc # "idle" /\ sent' # sent =>
                      \/ AsAsked(sent') /\ (sent = NoRequest \/ AsAsked(sent))
                      \/ /\ PlainGet(sent') /\ sent # NoRequest
                         /\ PlainGet(sent) \/ (AsAsked(sent) /\ Turning)
<1>1. CTInv /\ [CTNext]_ctVars => [Turns]_ctVars
  <2> SUFFICES ASSUME CTInv, CTNext, pc # "idle", sent' # sent PROVE Turns
    OBVIOUS
  <2>1. ~Setopt /\ ~curl_easy_perform
    BY DEF Setopt, curl_easy_setopt, curl_easy_perform
  <2>2. /\ ~RequestFails /\ ~FollowRedirect /\ ~RefuseRedirect /\ ~HttpError
        /\ ~curl_deliver_body
    BY DEF RequestFails, FollowRedirect, RefuseRedirect, HttpError, curl_deliver_body, outside
  <2>3. pc = "fetch" /\ SendRequest
    BY <2>1, <2>2 DEF CTNext, Step, FetchNoResponse, FetchError, FetchResponse, HeadersFail
  <2>4. sent'.method = method /\ sent'.body = has_body
    BY <2>3 DEF SendRequest
  <2> QED
    BY <2>3, <2>4 DEF CTInv, Turned, AsAsked, PlainGet
<1> QED
  BY <1>1, TransferInvariant, PTL DEF CTSpec, RequestTurnsOnce

\* The number of requests one curl_easy_perform() sends is bounded by the
\* redirects allowed, whatever the servers answer.
THEOREM TransferRequestBound == CTSpec => []RequestBound
<1>1. CTInv => RequestBound
  <2> SUFFICES ASSUME CTInv, pc # "idle"
               PROVE  requests <= 2 + (IF opt.followlocation THEN opt.maxredirs ELSE 0)
    BY DEF RequestBound
  <2>1. /\ redirects \in Nat /\ retries \in 0..1 /\ requests \in 0..RequestCap
        /\ opt.maxredirs \in Nat /\ RequestCap \in Nat
    BY CTAssumption DEF CTInv, Types, Options, CTAssumption
  <2>2. /\ redirects <= (IF opt.followlocation THEN opt.maxredirs ELSE 0)
        /\ requests <= redirects + retries + (IF pc = "response" THEN 1 ELSE 0)
    BY DEF CTInv, Underway
  <2> QED
    BY <2>1, <2>2
<1> QED
  BY <1>1, TransferInvariant, PTL

\* The client sees one body per transfer and none of a try that broke off
\* (curl_deliver_body()).
THEOREM TransferBodyOnce == CTSpec => []BodyOnce
BY TransferInvariant, PTL DEF CTInv

\* A transfer that reports success has handed over the body of the final
\* response of the URL its last request went to, and one that fails has handed
\* over nothing unless the client refused it (curl_perform()).
THEOREM TransferSuccessIsFinal == CTSpec => SuccessIsFinal
<1> DEFINE Final == pc # "idle" /\ pc' = "idle" =>
                      /\ result' = "OK" =>
                           /\ effective_url = sent.url /\ response_code = resp.status
                           /\ opt.failonerror => response_code < 400
                           /\ opt.nobody \/ written' = 1
                      /\ result' \notin {"OK", "WRITE_ERROR"} => written' = 0
<1>1. CTInv /\ [CTNext]_ctVars => [Final]_ctVars
  <2> SUFFICES ASSUME CTInv, CTNext, pc # "idle", pc' = "idle"
               PROVE  Final
    OBVIOUS
  <2>1. ~Setopt /\ ~curl_easy_perform
    BY DEF Setopt, curl_easy_setopt, curl_easy_perform
  <2>2. written = 0
    BY DEF CTInv, Underway
  <2>3. CASE \E code \in ErrorCodes : FetchError(code)
    <3>1. PICK code \in ErrorCodes : FetchError(code)
      BY <2>3
    <3>2. curl_map_response_error(code) # "OK"
      BY ErrorIsError
    <3> QED
      BY <2>2, <3>1, <3>2 DEF FetchError, RetryOr, Retry, Return
  <2>4. CASE \/ RequestFails \/ FetchNoResponse \/ FollowRedirect \/ RefuseRedirect \/ HttpError
             \/ \E r \in Responses : FetchResponse(r) \/ HeadersFail(r)
    BY <2>2, <2>4 DEF RequestFails, FetchNoResponse, FollowRedirect, RefuseRedirect, HttpError,
           FetchResponse, HeadersFail, Return, outside
  <2>5. CASE curl_deliver_body
    <3>1. /\ pc = "response" /\ ~(opt.failonerror /\ resp.status >= 400)
          /\ \/ result' = "OK" /\ opt.nobody
             \/ result' # "OK" /\ written' = written
             \/ result' \in {"OK", "WRITE_ERROR"} /\ written' = written + 1
      BY <2>5 DEF curl_deliver_body, RetryOr, Retry, Return
    <3>2. /\ resp \in Responses /\ response_code = resp.status /\ effective_url = sent.url
      BY <3>1 DEF CTInv, Underway
    <3>3. resp.status \in Nat
      BY <3>2, CTAssumption DEF Responses, CTAssumption
    <3> QED
      BY <2>2, <3>1, <3>2, <3>3
  <2> QED
    BY <2>1, <2>3, <2>4, <2>5 DEF CTNext, Step
<1> QED
  BY <1>1, TransferInvariant, PTL DEF CTSpec, SuccessIsFinal
=============================================================================
