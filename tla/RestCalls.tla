--------------------------------- MODULE RestCalls ---------------------------------
(***************************************************************************)
(* What calls the services over REST: RestApiClient with a token           *)
(* credential, as the provisioning service client and its queries use it;  *)
(* the upload of a blob; and the methods that a module invokes.            *)
(***************************************************************************)
EXTENDS Machina

CONSTANTS Pages   \* the pages that a query has

ASSUME PagesAssumption == Pages \in Nat \ {0}

\* token: _accessToken, close to its expiry or not.  at: the continuation token of
\* the query, for the page it leads to, 0: none.  client: the RestApiClient of the
\* method client has been made.
\* pages: history, the pages that the user has got; overlap: two were asked for at
\* the same time.
RestStart == [token |-> "none", at |-> 0, more |-> TRUE, client |-> FALSE,
              pages |-> <<>>, overlap |-> FALSE]

\* The page of a query is the one at the time of the call, and the first one when
\* next is to return a promise.
ForPage(cb, page) == [fn |-> cb.fn, id |-> cb.id, op |-> cb.op, then |-> cb.then,
                      err |-> cb.err, page |-> page]

\* executeApiCall: getToken.
Execute(m, cb) ==
  LET next == [cb EXCEPT !.fn = "token"] IN
  Done(m, IF m.token = "fresh" THEN Call(next, FALSE) ELSE Ask("token", next))

RestHandle(m, in, paging) ==
  CASE in.do \in {"call", "bulk"} -> Execute(m, in.cb)
    [] in.do = "next" ->
         Execute([m EXCEPT !.overlap = @ \/ paging], ForPage(in.cb, m.at))
    [] in.do = "nextPromise" ->
         Execute([m EXCEPT !.overlap = @ \/ paging], ForPage(in.cb, 0))
    [] in.do \in {"upload", "getSas"} -> Done(m, Ask("credentials", [in.cb EXCEPT !.fn = "credentials"]))
    [] in.do = "notify" -> Done(m, Ask("credentials", [in.cb EXCEPT !.fn = "notifyCredentials"]))
    [] in.do = "invoke" -> Done(m, Ask("credentials", [in.cb EXCEPT !.fn = "invokeCredentials"]))

\* runBulkEnrollmentOperation tells the callback it was given, and no promise.
Answer(cb, err) == IF cb.op = "bulk" THEN Dropped(cb) ELSE Call(ToUser(cb), err)

\* Query.next: no continuation token is left after the last page.
Paged(m, page) ==
  LET got == IF page = 0 THEN 1 ELSE page IN
  [m EXCEPT !.at = IF got = Pages THEN 0 ELSE got + 1, !.more = got # Pages,
            !.pages = Append(@, got)]

RestCallback(m, cb, err) ==
  IF err THEN Done(m, Answer(cb, TRUE))
  ELSE IF cb.fn = "token"
    THEN Done([m EXCEPT !.token = "fresh"], Ask("request", [cb EXCEPT !.fn = "answered"]))
  ELSE IF cb.op \in {"next", "nextPromise"}
    THEN Done(Paged(m, cb.page), Answer(Closure("user", cb.id, cb.op), FALSE))
  ELSE Done(m, Answer(cb, FALSE))

\* getBlobSharedAccessSignature, notifyUploadComplete: the error of
\* getDeviceCredentials is not looked at, and reading the credentials throws.
FileUpload(m, cb, err) ==
  IF err THEN Done(m, Throw)
  ELSE IF cb.fn = "credentials" THEN Done(m, Ask("sas", [cb EXCEPT !.fn = "gotSas"]))
  ELSE Done(m, Ask("notification", [cb EXCEPT !.fn = "notified"]))

\* Mutant of UploadCallback: an upload that fails is not notified.
UploadCallbackLoses(m, cb, err) ==
  CASE cb.fn \in {"credentials", "notifyCredentials"} -> FileUpload(m, cb, err)
    [] cb.fn = "gotSas" /\ cb.op = "upload" /\ ~err -> Done(m, Ask("stream", [cb EXCEPT !.fn = "uploaded"]))
    [] cb.fn = "uploaded" /\ err -> Done(m, <<>>)
    [] cb.fn = "uploaded" ->
         Done(m, Ask("credentials", [cb EXCEPT !.fn = "notifyCredentials"]))
    [] OTHER -> Done(m, Call(ToUser(cb), err \/ cb.err))

\* Mutant of UploadCallback: the user is told how the notification went.
UploadCallbackForgets(m, cb, err) ==
  CASE cb.fn \in {"credentials", "notifyCredentials"} -> FileUpload(m, cb, err)
    [] cb.fn = "gotSas" /\ cb.op = "upload" /\ ~err -> Done(m, Ask("stream", [cb EXCEPT !.fn = "uploaded"]))
    [] cb.fn = "uploaded" ->
         Done(m, Ask("credentials", [cb EXCEPT !.fn = "notifyCredentials", !.err = err]))
    [] OTHER -> Done(m, Call(ToUser(cb), err))

\* uploadToBlob: the parameters, the stream, and what has become of it.
UploadCallback(m, cb, err) ==
  CASE cb.fn \in {"credentials", "notifyCredentials"} -> FileUpload(m, cb, err)
    [] cb.fn = "gotSas" /\ cb.op = "upload" /\ ~err -> Done(m, Ask("stream", [cb EXCEPT !.fn = "uploaded"]))
    [] cb.fn = "uploaded" ->
         Done(m, Ask("credentials", [cb EXCEPT !.fn = "notifyCredentials", !.err = err]))
    [] OTHER -> Done(m, Call(ToUser(cb), err \/ cb.err))

\* invokeMethod: the client is made once the agent string is there, twice when two
\* calls wait for it.
InvokeCallback(m, cb, err) ==
  IF err THEN Done(m, Call(ToUser(cb), TRUE))
  ELSE IF cb.fn = "invokeCredentials" /\ ~m.client
    THEN Done(m, Ask("agent", [cb EXCEPT !.fn = "clientMade"]))
  ELSE IF cb.fn \in {"invokeCredentials", "clientMade"}
    THEN Done([m EXCEPT !.client = TRUE], Ask("request", [cb EXCEPT !.fn = "invoked"]))
  ELSE Done(m, Call(ToUser(cb), FALSE))

=============================================================================
