----------------------------- MODULE MeteredCall -----------------------------
(***************************************************************************)
(* What a call is charged, from the route to the usage log: the model is   *)
(* read once when the call is routed, the reservation is worked out from   *)
(* the request, the usage is read out of the answer or of its stream, and  *)
(* the charge is worked out from the copy of the model, while an           *)
(* administrator edits the catalogue.  How reservation and charge reach    *)
(* the wallet, and may fail to, is the subject of UsageBilling.            *)
(***************************************************************************)
EXTENDS ModelCatalogue, Routing, StreamUsage

CONSTANTS
  Calls,
  Requests,     \* what clients ask: endpoint, code and blanks around it, stream, payload
  Bodies,       \* [Requests -> JSON answers an upstream may give]
  Streams,      \* [Requests -> event streams an upstream may answer with]
  PendingLimit  \* MAX_STREAM_PENDING_BYTES

(* The counts an upstream reports are not negative. *)
ASSUME MeteredAssumption ==
  /\ \A q \in Requests :
       /\ q \in [endpoint : Endpoints, code : AllCodes, blanks : BOOLEAN, stream : BOOLEAN,
                 payload : Payloads]
       /\ \A body \in Bodies[q] : IsUsage(body.usage) /\ body.results \in Int
       /\ \A lines \in Streams[q] :
            IsStream(lines) /\ \A l \in DOMAIN lines : IsUsage(lines[l].usage)
  /\ PendingLimit \in Nat /\ Configured \in BOOLEAN

VARIABLE call \* [Calls -> what the handler of the call holds]

vars == <<catalogue, edits, call>>
catalogueVars == <<catalogue, edits>>

NoBody == [usage |-> NoUsage, results |-> -1]
NoName == Bare("none")
NewCall == [at |-> "new"]
ControlPoints == {"routed", "admitted", "streaming", "answered", "settled", "failed",
                  "refused", "abandoned"}

TypeOK ==
  /\ \A code \in AllCodes : Exists(code) => IsRow(catalogue[code])
  /\ edits \in 0 .. MaxEdits
  /\ \A c \in Calls :
       \/ call[c] = NewCall
       \/ /\ call[c].at \in ControlPoints /\ call[c].request \in Requests
          /\ (call[c].model # NoModel => IsRow(call[c].model))
          /\ call[c].reserved \in Int /\ call[c].amount \in Nat /\ call[c].quantity \in Nat
          /\ call[c].sent \in Nat /\ Len(call[c].reader.pending) <= PendingLimit

Init == CatalogueInit /\ call = [c \in Calls |-> NewCall]

-----------------------------------------------------------------------------
Set(c, fields) ==
  call' = [call EXCEPT ![c] = [f \in DOMAIN @ |-> IF f \in DOMAIN fields THEN fields[f] ELSE @[f]]]
At(c, point) == call[c].at = point
Payload(c) == call[c].request.payload
Streamed(c) == call[c].request.stream /\ call[c].request.endpoint # "video"

(* The endpoint reads the request and looks its model up by the name       *)
(* without blanks.                                                         *)
RouteCall(c, q) ==
  LET row == catalogue[q.code]
      route == Route(row, q.endpoint)
  IN  /\ At(c, "new")
      /\ call' = [call EXCEPT ![c] =
           [at |-> IF route.refused = 0 THEN "routed" ELSE "refused",
            request |-> q, model |-> row, url |-> route.url, name |-> NoName,
            reserved |-> 0, body |-> NoBody, lines |-> <<>>, sent |-> 0, reader |-> Start,
            lost |-> {}, halved |-> {}, unit |-> "none", quantity |-> 0, amount |-> 0]]
      /\ UNCHANGED catalogueVars

(* before_request_async; it may also refuse (see UsageBilling). *)
AdmitCall(c) ==
  /\ At(c, "routed")
  /\ \/ Set(c, [at |-> "admitted", reserved |-> ReservedAmount(call[c].model, Payload(c))])
     \/ Set(c, [at |-> "refused"])
  /\ UNCHANGED catalogueVars

NameAsked(q) == [code |-> q.code, blanks |-> q.blanks]
Named(c) == NameSent(call[c].request.endpoint, NameAsked(call[c].request), call[c].model)

(* The upstream cannot be reached, or answers with an error. *)
UpstreamFails(c) ==
  /\ At(c, "admitted")
  /\ Set(c, [at |-> "failed", name |-> Named(c)])
  /\ UNCHANGED catalogueVars

UpstreamAnswers(c) ==
  /\ At(c, "admitted")
  /\ \/ /\ ~Streamed(c)
        /\ \E body \in Bodies[call[c].request] :
             Set(c, [at |-> "answered", name |-> Named(c), body |-> body])
     \/ /\ Streamed(c)
        /\ \E lines \in Streams[call[c].request] :
             Set(c, [at |-> "streaming", name |-> Named(c), lines |-> lines])
  /\ UNCHANGED catalogueVars

-----------------------------------------------------------------------------
(* The stream, chunk by chunk.                                             *)

(* The lines and the characters a chunk costs the reader: all of the       *)
(* buffer when it overflows; a character it cuts in half.                  *)
LinesLost(state, chunk) ==
  IF Overflows(state, chunk, PendingLimit)
    THEN {b.line : b \in Range(state.pending \o chunk)} ELSE {}

DeliverChunk(c) ==
  LET bytes == StreamBytes(call[c].lines)
      reader == call[c].reader
      first == call[c].sent + 1
  IN  /\ At(c, "streaming")
      /\ \E last \in first .. Len(bytes) :
           LET chunk == SubSeq(bytes, first, last) IN
           Set(c, [sent |-> last,
                   reader |-> Read(call[c].lines, reader, chunk, PendingLimit),
                   lost |-> call[c].lost \cup LinesLost(reader, chunk),
                   halved |-> call[c].halved \cup
                     IF bytes[last].part = "lead" THEN {last} ELSE {}])
      /\ UNCHANGED catalogueVars

EndStream(c) ==
  /\ At(c, "streaming") /\ call[c].sent = Len(StreamBytes(call[c].lines))
  /\ Set(c, [at |-> "answered"])
  /\ UNCHANGED catalogueVars

(* The client or the upstream hangs up: the background task never runs, or *)
(* it settles what was delivered, as the server has it.                    *)
BreakStream(c) ==
  /\ At(c, "streaming")
  /\ Set(c, [at |-> "abandoned"]) \/ Set(c, [at |-> "answered"])
  /\ UNCHANGED catalogueVars

-----------------------------------------------------------------------------
(* Settlement.                                                             *)

(* The tokens of a text: the tokenizer joins up to two characters in one.  *)
TokensOf(characters) == (characters + 1) \div 2

EstimatedTokens(c) ==
  LET prompt == Payload(c).prompt
      completion == TokensOf(call[c].reader.text)
  IN  [prompt_tokens |-> prompt, completion_tokens |-> completion,
       total_tokens |-> prompt + completion]

(* _extract_bailian_usage *)
ImageUsage(body, mode, payload) ==
  CASE body.usage # NoUsage -> body.usage
    [] body.usage = NoUsage /\ body.results >= 0 -> [image_count |-> body.results]
    [] OTHER -> IF mode = "per_image" THEN [image_count |-> 1]
                ELSE IF mode = "per_10k_chars" THEN [char_count |-> payload.chars]
                ELSE [x \in {} |-> 0]

(* The usage of a video is what was asked for, 1080P and with sound unless *)
(* the request says otherwise.                                             *)
VideoUsage(payload) ==
  [second_count |-> EstimatedSeconds(payload),
   resolution |-> IF payload.resolution = "none" THEN "1080P" ELSE payload.resolution,
   sound |-> IF payload.audio = "off" THEN "silent" ELSE "voiced"]

StreamedUsage(c) ==
  LET found == call[c].reader.usage IN
  CASE found # NoUsage -> found
    [] found = NoUsage /\ call[c].request.endpoint = "chat" /\ Bailian(call[c].model) ->
         EstimatedTokens(c)
    [] found = NoUsage /\ call[c].request.endpoint = "multimodal"
         /\ call[c].model.mode = "per_10k_chars" -> [char_count |-> Payload(c).chars]
    [] OTHER -> NoUsage

UsageOf(c) ==
  IF Streamed(c) THEN StreamedUsage(c)
  ELSE CASE call[c].request.endpoint = "chat" -> call[c].body.usage
         [] call[c].request.endpoint = "multimodal" ->
              ImageUsage(call[c].body, call[c].model.mode, Payload(c))
         [] call[c].request.endpoint = "video" -> VideoUsage(Payload(c))

CurrentRow(c) == catalogue[call[c].request.code] \* Mutant: the model is read again.
(* The price sheet of the settlement: the row as the route found it.       *)
PriceSheet(c) == call[c].model

SettleCall(c) ==
  LET sheet == PriceSheet(c) IN
  /\ At(c, "answered") /\ UsageOf(c) # NoUsage /\ sheet # NoModel
  /\ Set(c, [at |-> "settled", unit |-> BillingUnit(sheet.mode),
             quantity |-> Quantity(sheet.mode, UsageOf(c)),
             amount |-> UsageCost(sheet, Used(sheet.mode, UsageOf(c)))])
  /\ UNCHANGED catalogueVars

(* No usage to settle by, or the settlement is refused (see UsageBilling). *)
FailCall(c) ==
  /\ At(c, "answered")
  /\ Set(c, [at |-> "failed"])
  /\ UNCHANGED catalogueVars

(* The quantity in the user's list of calls, by the model as it is then. *)
ShownQuantity(c) ==
  LET log == [quantity |-> call[c].quantity, amount |-> call[c].amount]
      row == catalogue[call[c].request.code]
  IN  IF row = NoModel THEN InferredQuantity(log, "token", <<>>)
                       ELSE InferredQuantity(log, row.mode, row.items)

Next ==
  \/ CatalogueNext /\ UNCHANGED call
  \/ \E c \in Calls :
       \/ \E q \in Requests : RouteCall(c, q)
       \/ AdmitCall(c) \/ UpstreamFails(c) \/ UpstreamAnswers(c)
       \/ DeliverChunk(c) \/ EndStream(c) \/ BreakStream(c)
       \/ SettleCall(c) \/ FailCall(c)

Spec == Init /\ [][Next]_vars

-----------------------------------------------------------------------------
(* Properties.                                                             *)

Settled(c) == At(c, "settled")

(* The call used no more than estimate_reserved_amount expected of it, and *)
(* the video it is charged for is the one estimated.  The estimate is not  *)
(* all a request allows: see VideoCovered.                                 *)
KeptToEstimate(c) ==
  LET mode == call[c].model.mode
      used == Used(mode, UsageOf(c))
      estimate == EstimatedUse(mode, Payload(c))
  IN  /\ \A quantity \in {"prompt", "completion", "images", "chars", "seconds"} :
           used[quantity] <= estimate[quantity]
      /\ used.resolution = estimate.resolution /\ used.sound = estimate.sound

(* estimate_reserved_amount and calculate_usage_cost: a call that keeps to *)
(* its estimate costs no more than was reserved for it, whatever an        *)
(* administrator does to the model while the call is on its way.           *)
ReservationCovers ==
  \A c \in Calls : (Settled(c) /\ KeptToEstimate(c)) => call[c].amount <= call[c].reserved

(* estimate_reserved_amount and _extract_video_usage_from_payload: what a  *)
(* video is charged for is worked out from its request alone, as is what   *)
(* is reserved for it, so that a balance that passes the check             *)
(* "可用余额不足以覆盖本次请求" should cover the charge.                   *)
VideoCovered ==
  \A c \in Calls : (Settled(c) /\ call[c].request.endpoint = "video") =>
    call[c].amount <= call[c].reserved

LinesSent(c) ==
  LET bytes == StreamBytes(call[c].lines) IN
  Max({0} \cup {bytes[i].line : i \in {j \in 1 .. call[c].sent : bytes[j].part = "feed"}})

(* forward_stream: wherever the stream is cut, the id and the usage are    *)
(* those of its last complete lines, except for lines that were in the     *)
(* buffer when it overflowed, and of the text only cut characters miss.    *)
StreamReadAsWhole ==
  \A c \in Calls : (At(c, "streaming") \/ (At(c, "answered") /\ Streamed(c))) =>
    LET lines == call[c].lines
        upto == LinesSent(c)
        read == Readable(lines, upto, call[c].lost)
        cut == {i \in call[c].halved : StreamBytes(lines)[i].line \in read}
    IN  /\ call[c].reader.id = LastId(lines, upto, call[c].lost)
        /\ call[c].reader.usage = LastUsage(lines, upto, call[c].lost)
        /\ call[c].reader.text + Cardinality(cut) = TextLength(lines, upto, call[c].lost)

(* _build_upstream_payload_bytes and the native endpoints: the upstream is *)
(* asked for the model the price sheet is about, although only one of the  *)
(* endpoints puts the name in; the administrator's rule and the            *)
(* capabilities of the endpoints have to see to the others.  Blanks around *)
(* the name reach the upstream only if a client of a native endpoint sent  *)
(* them.                                                                   *)
UpstreamNamed ==
  \A c \in Calls : (~At(c, "new") /\ call[c].name # NoName) =>
    /\ call[c].name.code = call[c].model.upstream
    /\ call[c].name.blanks => call[c].request.blanks /\ call[c].request.endpoint # "chat"

(* list_usage_logs: a charge is shown with the quantity that was used by   *)
(* the model it was routed to, also when that was edited or is gone; only  *)
(* for a charge with no quantity it is guessed.                            *)
QuantityOutlivesModel ==
  \A c \in Calls : Settled(c) =>
    LET used == Quantity(call[c].model.mode, UsageOf(c)) IN
    used > 0 \/ call[c].amount = 0 => ShownQuantity(c) = used

(* The list of models: a million tokens, an image, a second or ten         *)
(* thousand characters cost what the list shows for them.                  *)
ShownIsCharged ==
  \A code \in Listed :
    LET row == catalogue[code]
        shown == ShownItems(row)
        cost(used) == UsageCost(row, used)
    IN  CASE row.mode = "token" ->
               /\ cost([Nothing EXCEPT !.prompt = 1000]) = shown[1].price \div 1000
               /\ cost([Nothing EXCEPT !.completion = 1000]) = shown[2].price \div 1000
          [] row.mode = "per_image" -> cost([Nothing EXCEPT !.images = 1]) = shown[1].price
          [] row.mode = "per_10k_chars" -> cost([Nothing EXCEPT !.chars = 100]) = shown[1].price \div 100
          [] row.mode = "per_second" ->
               \A i \in DOMAIN shown :
                 cost([Nothing EXCEPT !.seconds = 1, !.resolution = shown[i].resolution,
                                      !.sound = shown[i].sound]) = shown[i].price
=============================================================================
