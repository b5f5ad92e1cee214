------------------------------- MODULE Pricing -------------------------------
(***************************************************************************)
(* What a call costs and what is reserved for it: pure functions of a      *)
(* model's price sheet, the request and the usage the upstream reported.   *)
(*                                                                         *)
(* Amounts are integers in millionths of a yuan, the last digit the code   *)
(* keeps.  A price per million tokens is in ten-thousandths of a yuan, as  *)
(* its column; a pricing item's price is in millionths of a yuan.          *)
(***************************************************************************)
EXTENDS Integers, Sequences

BillingModes == {"token", "per_image", "per_10k_chars", "per_second"}
Resolutions == {"none", "720P", "1080P"}
Sounds == {"none", "voiced", "silent"}

(* A pricing item by what the code reads off its label, and its price. *)
Item(resolution, sound, price) == [resolution |-> resolution, sound |-> sound, price |-> price]

RoundHalfUp(n, d) == IF n >= 0 THEN (2 * n + d) \div (2 * d)
                               ELSE -((d - 2 * n) \div (2 * d))
RoundHalfEven(n, d) ==
  LET q == n \div d
      twice == 2 * (n % d)
  IN  IF twice > d \/ (twice = d /\ q % 2 = 1) THEN q + 1 ELSE q

FirstPrice(items) == IF items = <<>> THEN 0 ELSE items[1].price

(* Of the items that name the resolution and the sound asked for, the      *)
(* first; without a match, or with nothing asked for, the sheet's first.   *)
UnitPrice(items, resolution, sound) ==
  LET asked == resolution # "none" \/ sound # "none"
      Fits(i) == /\ resolution \in {"none", items[i].resolution}
                 /\ sound \in {"none", items[i].sound}
      fitting == {i \in DOMAIN items : Fits(i)}
  IN  IF asked /\ fitting # {}
        THEN items[CHOOSE i \in fitting : \A j \in fitting : i <= j].price
        ELSE FirstPrice(items)

Positive(n) == IF n > 0 THEN n ELSE 0

(* calculate_usage_cost, of the quantities its mode looks at. *)
UsageCost(model, used) ==
  CASE model.mode = "per_image" -> Positive(used.images) * FirstPrice(model.items)
    [] model.mode = "per_10k_chars" ->
         RoundHalfUp(Positive(used.chars) * FirstPrice(model.items), 10000)
    [] model.mode = "per_second" ->
         Positive(used.seconds) * UnitPrice(model.items, used.resolution, used.sound)
    [] OTHER ->
         RoundHalfUp(used.prompt * model.inPrice + used.completion * model.outPrice, 10000)

Nothing == [prompt |-> 0, completion |-> 0, images |-> 0, chars |-> 0, seconds |-> 0,
            resolution |-> "none", sound |-> "none"]

-----------------------------------------------------------------------------
(* The reservation, from the request alone.                                *)

(* A payload: prompt is the tokens of its messages, chars the length of    *)
(* its text; a number the client leaves out is 0, which the code takes for *)
(* missing too.                                                            *)
Payloads ==
  [prompt : Nat, maxTokens : Int, n : Int, chars : Nat, duration : Int,
   resolution : Resolutions, audio : {"none", "on", "off"}, audioUrl : BOOLEAN]

Default(field, default) == IF field = 0 THEN default ELSE field

EstimatedSeconds(payload) == Positive(Default(payload.duration, 0))
EstimatedSound(payload) ==
  CASE payload.audio = "off" -> "silent"
    [] payload.audio = "on" \/ payload.audioUrl -> "voiced"
    [] OTHER -> "none"
EstimatedImages(payload) ==
  LET n == Default(payload.n, 1) IN IF n > 1 THEN n ELSE 1

(* max_tokens is taken as it is sent, a negative number included. *)
EstimatedCompletion(payload) == Default(payload.maxTokens, 1024)

EstimatedUse(mode, payload) ==
  CASE mode = "per_image" -> [Nothing EXCEPT !.images = EstimatedImages(payload)]
    [] mode = "per_10k_chars" -> [Nothing EXCEPT !.chars = payload.chars]
    [] mode = "per_second" ->
         [Nothing EXCEPT !.seconds = EstimatedSeconds(payload),
                         !.resolution = payload.resolution,
                         !.sound = EstimatedSound(payload)]
    [] OTHER -> [Nothing EXCEPT !.prompt = payload.prompt,
                                !.completion = EstimatedCompletion(payload)]

(* The estimated cost and a tenth, rounded as Decimal.quantize does. *)
ReservedAmount(model, payload) ==
  RoundHalfEven(11 * UsageCost(model, EstimatedUse(model.mode, payload)), 10)

-----------------------------------------------------------------------------
(* The settlement, from a usage: a record of the fields it reports.        *)

CountFields ==
  {"prompt_tokens", "completion_tokens", "total_tokens", "image_count", "char_count",
   "characters", "second_count", "seconds"}
IsUsage(usage) == \A field \in CountFields \cap DOMAIN usage : usage[field] \in Nat

Reported(usage, field, default) ==
  IF field \in DOMAIN usage THEN usage[field] ELSE default

UsedImages(usage) == LET n == Reported(usage, "image_count", 1) IN IF n = 0 THEN 1 ELSE n
UsedSeconds(usage) == Reported(usage, "second_count", Reported(usage, "seconds", 0))
UsedChars(usage) == Reported(usage, "char_count", Reported(usage, "characters", 0))

Used(mode, usage) ==
  CASE mode = "per_image" -> [Nothing EXCEPT !.images = UsedImages(usage)]
    [] mode = "per_10k_chars" -> [Nothing EXCEPT !.chars = UsedChars(usage)]
    [] mode = "per_second" ->
         [Nothing EXCEPT !.seconds = UsedSeconds(usage),
                         !.resolution = Reported(usage, "resolution", "none"),
                         !.sound = Reported(usage, "sound", "none")]
    [] OTHER -> [Nothing EXCEPT !.prompt = Reported(usage, "prompt_tokens", 0),
                                !.completion = Reported(usage, "completion_tokens", 0)]

(* billing_quantity of the usage log, which is also its total_tokens. *)
Quantity(mode, usage) ==
  LET used == Used(mode, usage) IN
  CASE mode = "per_image" -> used.images
    [] mode = "per_10k_chars" -> used.chars
    [] mode = "per_second" -> used.seconds
    [] OTHER -> Reported(usage, "total_tokens", used.prompt + used.completion)

BillingUnit(mode) ==
  CASE mode = "per_image" -> "image"
    [] mode = "per_second" -> "second"
    [] mode = "per_10k_chars" -> "char"
    [] OTHER -> "token"

(* Mutant: the quantity is always worked out from today's prices. *)
QuantityOfAmount(log, mode, items) ==
  LET price == FirstPrice(items)
      units == IF mode = "per_10k_chars" THEN 10000 ELSE 1
  IN  IF log.amount <= 0 \/ mode = "token" THEN 0
      ELSE IF price > 0 THEN LET q == RoundHalfEven(log.amount * units, price)
                             IN  IF q > 1 THEN q ELSE 1
      ELSE IF mode = "per_image" THEN 1 ELSE 0

(* infer_billing_quantity: what the usage lists show.  Rows older than the *)
(* column have no quantity and get one from the model as it is today.      *)
InferredQuantity(log, mode, items) ==
  IF log.quantity > 0 THEN log.quantity ELSE QuantityOfAmount(log, mode, items)
=============================================================================
