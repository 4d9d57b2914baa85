------------------------------- MODULE Handlers -------------------------------
(***************************************************************************)
(* HttpResponse, the CORS middleware, and what the handlers of ChatServer  *)
(* put into a response.  Of a response is kept what tells the client that  *)
(* it is one (the version), where it ends, and whether a page of another   *)
(* origin may read it; of a body, its size: 0 or 1.                        *)
(***************************************************************************)
EXTENDS Integers, Sequences, SequencesExt

CONSTANTS Files,          \* the resource files that can be opened
          AllowedOrigins  \* CorsConfig::allowedOrigins

NoLength == -1

NewResponse(close) ==
  [status |-> 0, version |-> FALSE, close |-> close, length |-> NoLength, body |-> 0,
   origin |-> "none", deferred |-> FALSE]

PackageResp(resp, status, close, size) ==
  [resp EXCEPT !.status = status, !.version = TRUE, !.close = close,
               !.length = size, !.body = size]

Succeeded(resp) == PackageResp(resp, 200, FALSE, 1)

Unauthorized(resp) == PackageResp(resp, 401, TRUE, 1)

(* What every handler that catches its exceptions makes of one, unless     *)
(* dump() throws at the text of the exception.                             *)
BadRequest(resp) == PackageResp(resp, 400, TRUE, 1)

-----------------------------------------------------------------------------
AddCorsHeaders(resp, origin) == [resp EXCEPT !.origin = origin]

IsOriginAllowed(origin) ==
  AllowedOrigins = <<>> \/ Contains(AllowedOrigins, "*") \/ Contains(AllowedOrigins, origin)

(* It starts from a response of its own, that closes the connection. *)
HandlePreflightRequest(req) ==
  IF IsOriginAllowed(req.origin)
  THEN [AddCorsHeaders(NewResponse(TRUE), req.origin) EXCEPT !.status = 204]
  ELSE [NewResponse(TRUE) EXCEPT !.status = 403]

After(resp) ==
  IF AllowedOrigins = <<>> THEN resp
  ELSE AddCorsHeaders(resp, IF Contains(AllowedOrigins, "*") THEN "*" ELSE AllowedOrigins[1])

-----------------------------------------------------------------------------
(* FileUtil: without the file, and without the one for "not found", size() *)
(* is -1 as an unsigned number, and making the buffer throws.              *)
FileThrows(file) == {file, "NotFound.html"} \cap Files = {}

(* An exception leaves the handler. *)
Thrown(resp) == [throws |-> TRUE, resp |-> resp]

Returned(resp) == [throws |-> FALSE, resp |-> resp]

ChatEntryHandler(req, resp) ==
  {IF FileThrows("entry.html") THEN Thrown(resp) ELSE Returned(Succeeded(resp))}

(* The handlers that ask for a login: without the flag in the session the  *)
(* answer is 401; "half" is a session that a logout empties after the flag *)
(* was read, and stoi throws on its userId.  What may come of the rest is  *)
(* a set of outcomes.                                                      *)
LoggedIn(req, resp, outcomes) ==
  CASE req.session = "none" -> {Returned(Unauthorized(resp))}
    [] req.session = "half" -> {Returned(BadRequest(resp))}
    [] req.session = "user" -> outcomes

Page(req, resp, file) ==
  LoggedIn(req, resp,
           {Returned(IF FileThrows(file) THEN BadRequest(resp) ELSE Succeeded(resp))})

ChatHandler(req, resp) == Page(req, resp, "AI.html")

AIMenuHandler(req, resp) == Page(req, resp, "menu.html")

AIUploadHandler(req, resp) == Page(req, resp, "upload.html")

(* The body of a request: "json" with what the handler needs, "empty",     *)
(* "broken", what the parser, or a field's type, throws at, or             *)
(* "ill-formed", that is not UTF-8: the parser quotes it in what(), and    *)
(* the catch clause throws in its turn when it dumps that.                 *)
CannotBeRead(req) == req.content \in {"broken", "ill-formed"}

ParseThrows(req, resp) ==
  IF req.content = "ill-formed" THEN Thrown(resp) ELSE Returned(BadRequest(resp))

Bodied(req, resp, needed, answers) ==
  LoggedIn(req, resp,
           IF CannotBeRead(req) THEN {ParseThrows(req, resp)}
           ELSE IF needed /\ req.content = "empty" THEN {Returned(BadRequest(resp))}
           ELSE {Returned(answer) : answer \in answers})

(* After the body: the recognizer, the DELETE, the helper's constructor or *)
(* the dump of a history may throw.                                        *)
MayFail(resp) == {Succeeded(resp), BadRequest(resp)}

AIUploadSendHandler(req, resp) == Bodied(req, resp, TRUE, MayFail(resp))

ChatSessionsHandler(req, resp) == LoggedIn(req, resp, {Returned(Succeeded(resp))})

ChatHistoryHandler(req, resp) == Bodied(req, resp, FALSE, MayFail(resp))

ChatDeleteSessionHandler(req, resp) == Bodied(req, resp, TRUE, MayFail(resp))

(* setDeferred(): a worker of the pool writes the answer, of its own make. *)
SetDeferred(resp) == [resp EXCEPT !.deferred = TRUE]

SendSSEHeaders ==
  [NewResponse(FALSE) EXCEPT !.status = 200, !.version = TRUE, !.body = 1, !.deferred = TRUE]

ChatSendHandler(req, resp) == Bodied(req, resp, FALSE, {SetDeferred(resp)})

ChatCreateAndSendHandler(req, resp) == Bodied(req, resp, FALSE, {SetDeferred(resp)})

(* As far as it gets without the speech service. *)
ChatSpeechHandler(req, resp) == Bodied(req, resp, FALSE, MayFail(resp))

(* Login and logout refuse a request without JSON with an empty body. *)
NotJson(resp) == PackageResp(resp, 400, TRUE, 0)

(* It reads no flag, and it parses the body when all is done. *)
ChatLogoutHandler(req, resp) ==
  {IF req.content = "empty" THEN Returned(NotJson(resp))
   ELSE IF req.session # "user" THEN Returned(BadRequest(resp))
   ELSE IF CannotBeRead(req) THEN ParseThrows(req, resp)
   ELSE Returned(PackageResp(resp, 200, TRUE, 1))}

(* The handlers that answer in one step; one that is not ChatServer's      *)
(* succeeds.                                                               *)
Handle(name, req, resp) ==
  CASE name = "ChatEntryHandler"         -> ChatEntryHandler(req, resp)
    [] name = "ChatHandler"              -> ChatHandler(req, resp)
    [] name = "AIMenuHandler"            -> AIMenuHandler(req, resp)
    [] name = "AIUploadHandler"          -> AIUploadHandler(req, resp)
    [] name = "AIUploadSendHandler"      -> AIUploadSendHandler(req, resp)
    [] name = "ChatSessionsHandler"      -> ChatSessionsHandler(req, resp)
    [] name = "ChatHistoryHandler"       -> ChatHistoryHandler(req, resp)
    [] name = "ChatDeleteSessionHandler" -> ChatDeleteSessionHandler(req, resp)
    [] name = "ChatSendHandler"          -> ChatSendHandler(req, resp)
    [] name = "ChatCreateAndSendHandler" -> ChatCreateAndSendHandler(req, resp)
    [] name = "ChatLogoutHandler"        -> ChatLogoutHandler(req, resp)
    [] OTHER                             -> {Returned(Succeeded(resp))}
=============================================================================
