------------------------------- MODULE Routing -------------------------------
(***************************************************************************)
(* Which upstream serves a call: a choice by the endpoint and the row of   *)
(* the model the request names.  A route is the status of the refusal, or  *)
(* the url the request is sent to.                                         *)
(***************************************************************************)
EXTENDS Integers

CONSTANT Configured  \* is a key of the Bailian platform configured?

Endpoints == {"chat", "multimodal", "video"}
Url == [chat |-> "chat/completions", multimodal |-> "multimodal-generation",
        video |-> "video-synthesis"]
Refusals == {400, 404, 500, 501}
Refused(code) == [refused |-> code, url |-> "none"]
RouteTo(url) == [refused |-> 0, url |-> url]

Bailian(row) == row.provider = "alibaba-bailian"

(* _resolve_provider, and the checks of what it returns. *)
ChatRoute(row) ==
  CASE row.provider = "tencent" -> Refused(501)
    [] Bailian(row) -> IF Configured THEN RouteTo(Url.chat) ELSE Refused(500)
    [] OTHER -> Refused(400)

(* The native endpoints are Bailian's, for models that can what they do. *)
NativeRoute(row, endpoint, capabilities) ==
  IF ~Bailian(row) \/ row.capability \notin capabilities THEN Refused(400)
  ELSE IF ~Configured THEN Refused(500)
  ELSE RouteTo(Url[endpoint])

MultimodalRoute(row) == NativeRoute(row, "multimodal", {"image", "audio"})
VideoRoute(row) == NativeRoute(row, "video", {"video"})

(* A client may put blanks around the name of a model: row is the one the  *)
(* name without them has, and only an active one is found.                 *)
Bare(code) == [code |-> code, blanks |-> FALSE]
Route(row, endpoint) ==
  IF ~row.active THEN Refused(404)
  ELSE CASE endpoint = "chat" -> ChatRoute(row)
         [] endpoint = "multimodal" -> MultimodalRoute(row)
         [] endpoint = "video" -> VideoRoute(row)

NameAsAsked(endpoint, asked, row) == asked \* Mutant: the chat body keeps its model.
(* The model named to the upstream: chat rewrites the body, the native     *)
(* endpoints pass it on as it came, blanks included.                       *)
NameSent(endpoint, asked, row) == IF endpoint = "chat" THEN Bare(row.upstream) ELSE asked
=============================================================================
