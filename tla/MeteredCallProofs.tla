-------------------------- MODULE MeteredCallProofs --------------------------
(***************************************************************************)
(* What a call is charged, for every catalogue, request, answer and way to *)
(* cut a stream: prices first, then the catalogue, then the call.          *)
(***************************************************************************)
EXTENDS MeteredCall, StreamUsageProofs

(* Rounding and products keep the order. *)
LEMMA ProductsInOrder ==
  ASSUME NEW a \in Nat, NEW b \in Nat, a <= b, NEW p \in Nat
  PROVE  a * p \in Nat /\ b * p \in Nat /\ a * p <= b * p
<1>1. (b - a) * p >= 0 /\ b - a \in Nat
  BY Z3
<1>2. b * p = a * p + (b - a) * p
  BY Z3
<1> QED BY <1>1, <1>2, Z3

LEMMA HalfUpInOrder ==
  ASSUME NEW m \in Nat, NEW n \in Nat, m <= n
  PROVE  /\ RoundHalfUp(m, 10000) \in Nat /\ RoundHalfUp(n, 10000) \in Nat
         /\ RoundHalfUp(m, 10000) <= RoundHalfUp(n, 10000)
BY Z3 DEF RoundHalfUp

(* A tenth more, rounded, is no less. *)
LEMMA TenthMore ==
  ASSUME NEW n \in Nat
  PROVE  RoundHalfEven(11 * n, 10) \in Int /\ n <= RoundHalfEven(11 * n, 10)
BY Z3 DEF RoundHalfEven

-----------------------------------------------------------------------------
(* A use of a model, of which no count is negative. *)
Counts(used) ==
  /\ used.prompt \in Nat /\ used.completion \in Nat /\ used.images \in Nat
  /\ used.chars \in Nat /\ used.seconds \in Nat

LEMMA RowIs ==
  ASSUME NEW row, IsRow(row)
  PROVE  /\ DOMAIN row = {"upstream", "provider", "capability", "mode", "inPrice", "outPrice",
                          "items", "active"}
         /\ row.mode \in BillingModes /\ row.inPrice \in Nat /\ row.outPrice \in Nat
         /\ row.items \in Seq([resolution : Resolutions, sound : Sounds, price : Nat])
         /\ row.active \in BOOLEAN
         /\ row.capability \in {"chat", "image", "audio", "video", "embedding"}
         /\ row # NoModel
<1>1. DOMAIN row = {"upstream", "provider", "capability", "mode", "inPrice", "outPrice",
                    "items", "active"}
  BY DEF IsRow, ColumnTypes
<1>2. \A column \in DOMAIN ColumnTypes : row[column] \in ColumnTypes[column]
  BY DEF IsRow
<1>3. row # NoModel
  <2>1. "mode" \in DOMAIN row /\ "mode" \notin DOMAIN NoModel
    BY <1>1 DEF NoModel
  <2> QED BY <2>1
<1> QED BY <1>1, <1>2, <1>3 DEF ColumnTypes

LEMMA FirstPriceType ==
  ASSUME NEW items \in Seq([resolution : Resolutions, sound : Sounds, price : Nat])
  PROVE  FirstPrice(items) \in Nat
<1>1. CASE items = <<>>
  BY <1>1 DEF FirstPrice
<1>2. CASE items # <<>>
  <2>1. 1 \in 1 .. Len(items)
    BY <1>2, EmptySeq, LenProperties
  <2>2. items[1] \in [resolution : Resolutions, sound : Sounds, price : Nat]
    BY <2>1, ElementOfSeq
  <2> QED BY <1>2, <2>2 DEF FirstPrice
<1> QED BY <1>1, <1>2

LEMMA UnitPriceType ==
  ASSUME NEW items \in Seq([resolution : Resolutions, sound : Sounds, price : Nat]),
         NEW resolution, NEW sound
  PROVE  UnitPrice(items, resolution, sound) \in Nat
<1> DEFINE Fits(i) == /\ resolution \in {"none", items[i].resolution}
                      /\ sound \in {"none", items[i].sound}
           fitting == {i \in DOMAIN items : Fits(i)}
           least == CHOOSE i \in fitting : \A j \in fitting : i <= j
<1>1. Len(items) \in Nat /\ DOMAIN items = 1 .. Len(items)
  BY LenProperties
<1>2. FirstPrice(items) \in Nat
  BY FirstPriceType
<1>3. fitting \in SUBSET Nat /\ fitting \subseteq 1 .. Len(items)
  BY <1>1
<1>4. ASSUME fitting # {} PROVE items[least].price \in Nat
  <2> HIDE DEF fitting
  <2>1. \E i \in fitting : \A j \in fitting : i <= j
    BY <1>3, <1>4, LeastNumber
  <2>2. least \in fitting
    BY <2>1
  <2> HIDE DEF least
  <2>3. items[least] \in [resolution : Resolutions, sound : Sounds, price : Nat]
    BY <1>3, <2>2, ElementOfSeq
  <2> QED BY <2>3
<1>5. UnitPrice(items, resolution, sound) \in {items[least].price, FirstPrice(items)}
        /\ (fitting = {} => UnitPrice(items, resolution, sound) = FirstPrice(items))
  BY DEF UnitPrice
<1> HIDE DEF fitting, least
<1> QED BY <1>2, <1>4, <1>5

(* What costs no less: more of what the mode counts, at the same price.    *)
NoLess(mode, used, most) ==
  CASE mode = "token" -> used.prompt <= most.prompt /\ used.completion <= most.completion
    [] mode = "per_image" -> used.images <= most.images
    [] mode = "per_10k_chars" -> used.chars <= most.chars
    [] mode = "per_second" -> /\ used.seconds <= most.seconds
                              /\ used.resolution = most.resolution /\ used.sound = most.sound

LEMMA NoLessItself ==
  ASSUME NEW mode \in BillingModes, NEW used, Counts(used)
  PROVE  NoLess(mode, used, used)
<1>1. used.prompt <= used.prompt /\ used.completion <= used.completion
      /\ used.images <= used.images /\ used.chars <= used.chars /\ used.seconds <= used.seconds
  BY DEF Counts
<1>2. CASE mode = "token"
  BY <1>1, <1>2 DEF NoLess
<1>3. CASE mode = "per_image"
  BY <1>1, <1>3 DEF NoLess
<1>4. CASE mode = "per_10k_chars"
  BY <1>1, <1>4 DEF NoLess
<1>5. CASE mode = "per_second"
  BY <1>1, <1>5 DEF NoLess
<1> QED BY <1>2, <1>3, <1>4, <1>5 DEF BillingModes

LEMMA CostInOrder ==
  ASSUME NEW row, IsRow(row), NEW used, Counts(used), NEW most, Counts(most),
         NoLess(row.mode, used, most)
  PROVE  /\ UsageCost(row, used) \in Nat /\ UsageCost(row, most) \in Nat
         /\ UsageCost(row, used) <= UsageCost(row, most)
<1>1. /\ row.mode \in {"token", "per_image", "per_10k_chars", "per_second"}
      /\ row.inPrice \in Nat /\ row.outPrice \in Nat
      /\ row.items \in Seq([resolution : Resolutions, sound : Sounds, price : Nat])
  BY RowIs DEF BillingModes
<1>2. FirstPrice(row.items) \in Nat
  BY <1>1, FirstPriceType
<1>3. /\ used.prompt \in Nat /\ used.completion \in Nat /\ used.images \in Nat
      /\ used.chars \in Nat /\ used.seconds \in Nat
      /\ most.prompt \in Nat /\ most.completion \in Nat /\ most.images \in Nat
      /\ most.chars \in Nat /\ most.seconds \in Nat
  BY DEF Counts
<1>4. \A n \in Nat : Positive(n) = n
  BY DEF Positive
<1>5. CASE row.mode = "per_image"
  <2>1. used.images <= most.images
    BY <1>5 DEF NoLess
  <2>2. /\ UsageCost(row, used) = used.images * FirstPrice(row.items)
        /\ UsageCost(row, most) = most.images * FirstPrice(row.items)
    BY <1>3, <1>4, <1>5 DEF UsageCost
  <2> QED BY <1>2, <1>3, <2>1, <2>2, ProductsInOrder
<1>6. CASE row.mode = "per_10k_chars"
  <2>1. used.chars <= most.chars
    BY <1>6 DEF NoLess
  <2>2. /\ UsageCost(row, used) = RoundHalfUp(used.chars * FirstPrice(row.items), 10000)
        /\ UsageCost(row, most) = RoundHalfUp(most.chars * FirstPrice(row.items), 10000)
    BY <1>3, <1>4, <1>6 DEF UsageCost
  <2>3. /\ used.chars * FirstPrice(row.items) \in Nat /\ most.chars * FirstPrice(row.items) \in Nat
        /\ used.chars * FirstPrice(row.items) <= most.chars * FirstPrice(row.items)
    BY <1>2, <1>3, <2>1, ProductsInOrder
  <2> QED BY <2>2, <2>3, HalfUpInOrder
<1>7. CASE row.mode = "per_second"
  <2> DEFINE price == UnitPrice(row.items, most.resolution, most.sound)
  <2>1. used.seconds <= most.seconds /\ used.resolution = most.resolution /\ used.sound = most.sound
    BY <1>7 DEF NoLess
  <2>2. price \in Nat
    BY <1>1, UnitPriceType
  <2>3. UsageCost(row, used) = used.seconds * price /\ UsageCost(row, most) = most.seconds * price
    BY <1>3, <1>4, <1>7, <2>1 DEF UsageCost
  <2> HIDE DEF price
  <2> QED BY <1>3, <2>1, <2>2, <2>3, ProductsInOrder
<1>8. CASE row.mode = "token"
  <2> DEFINE less == used.prompt * row.inPrice + used.completion * row.outPrice
             more == most.prompt * row.inPrice + most.completion * row.outPrice
  <2>1. used.prompt <= most.prompt /\ used.completion <= most.completion
    BY <1>8 DEF NoLess
  <2>2. /\ used.prompt * row.inPrice \in Nat /\ most.prompt * row.inPrice \in Nat
        /\ used.prompt * row.inPrice <= most.prompt * row.inPrice
    BY <1>1, <1>3, <2>1, ProductsInOrder
  <2>3. /\ used.completion * row.outPrice \in Nat /\ most.completion * row.outPrice \in Nat
        /\ used.completion * row.outPrice <= most.completion * row.outPrice
    BY <1>1, <1>3, <2>1, ProductsInOrder
  <2>4. less \in Nat /\ more \in Nat /\ less <= more
    BY <2>2, <2>3
  <2>5. UsageCost(row, used) = RoundHalfUp(less, 10000) /\ UsageCost(row, most) = RoundHalfUp(more, 10000)
    BY <1>8 DEF UsageCost
  <2> HIDE DEF less, more
  <2> QED BY <2>4, <2>5, HalfUpInOrder
<1> QED BY <1>1, <1>5, <1>6, <1>7, <1>8

LEMMA UsedCounts ==
  ASSUME NEW usage, IsUsage(usage), NEW mode
  PROVE  /\ Counts(Used(mode, usage)) /\ Quantity(mode, usage) \in Nat
<1>1. \A field \in CountFields, default \in Nat : Reported(usage, field, default) \in Nat
  BY DEF Reported, IsUsage
<1>2. UsedImages(usage) \in Nat /\ UsedSeconds(usage) \in Nat /\ UsedChars(usage) \in Nat
  BY <1>1 DEF UsedImages, UsedSeconds, UsedChars, CountFields
<1>3. /\ Reported(usage, "prompt_tokens", 0) \in Nat
      /\ Reported(usage, "completion_tokens", 0) \in Nat
  BY <1>1 DEF CountFields
<1>4. Counts(Used(mode, usage))
  BY <1>2, <1>3 DEF Used, Nothing, Counts
<1>5. Reported(usage, "total_tokens", Used(mode, usage).prompt + Used(mode, usage).completion) \in Nat
  <2>1. Used(mode, usage).prompt + Used(mode, usage).completion \in Nat
    BY <1>4 DEF Counts
  <2>2. "total_tokens" \in CountFields
    BY DEF CountFields
  <2> QED BY <1>1, <2>1, <2>2
<1>6. Quantity(mode, usage) \in Nat
  BY <1>4, <1>5 DEF Quantity, Counts
<1> QED BY <1>4, <1>6

(* An estimate of which no count is negative: max_tokens may be. *)
LEMMA EstimateCounts ==
  ASSUME NEW payload \in Payloads, NEW mode \in BillingModes,
         mode = "token" => EstimatedCompletion(payload) >= 0
  PROVE  Counts(EstimatedUse(mode, payload))
BY DEF EstimatedUse, Counts, Nothing, EstimatedImages, EstimatedSeconds, EstimatedCompletion,
       Default, Positive, Payloads, BillingModes

LEMMA ReservationType ==
  ASSUME NEW row, IsRow(row), NEW payload \in Payloads
  PROVE  ReservedAmount(row, payload) \in Int
<1>1. /\ row.mode \in {"token", "per_image", "per_10k_chars", "per_second"}
      /\ row.inPrice \in Nat /\ row.outPrice \in Nat
      /\ row.items \in Seq([resolution : Resolutions, sound : Sounds, price : Nat])
  BY RowIs DEF BillingModes
<1>2. FirstPrice(row.items) \in Nat
  BY <1>1, FirstPriceType
<1> DEFINE use == EstimatedUse(row.mode, payload)
<1>3. /\ use.prompt \in Int /\ use.completion \in Int /\ use.images \in Int
      /\ use.chars \in Int /\ use.seconds \in Int
  BY DEF EstimatedUse, Nothing, EstimatedImages, EstimatedSeconds, EstimatedCompletion,
         Default, Positive, Payloads
<1>4. UnitPrice(row.items, use.resolution, use.sound) \in Nat
  BY <1>1, UnitPriceType
<1> HIDE DEF use
<1>5. \A n \in Int : Positive(n) \in Int
  BY DEF Positive
<1>6. \A m, n \in Int : m * n \in Int
  OBVIOUS
<1>7. \A n \in Int : RoundHalfUp(n, 10000) \in Int
  BY Z3 DEF RoundHalfUp
<1>8. UsageCost(row, use) \in Int
  <2>1. CASE row.mode = "per_image"
    <3>1. UsageCost(row, use) = Positive(use.images) * FirstPrice(row.items)
      BY <2>1 DEF UsageCost
    <3> QED BY <1>2, <1>3, <1>5, <1>6, <3>1
  <2>2. CASE row.mode = "per_10k_chars"
    <3>1. UsageCost(row, use) = RoundHalfUp(Positive(use.chars) * FirstPrice(row.items), 10000)
      BY <2>2 DEF UsageCost
    <3>2. Positive(use.chars) * FirstPrice(row.items) \in Int
      BY <1>2, <1>3, <1>5, <1>6
    <3> QED BY <1>7, <3>1, <3>2, SMT
  <2>3. CASE row.mode = "per_second"
    <3>1. UsageCost(row, use)
            = Positive(use.seconds) * UnitPrice(row.items, use.resolution, use.sound)
      BY <2>3 DEF UsageCost
    <3> QED BY <1>3, <1>4, <1>5, <1>6, <3>1
  <2>4. CASE row.mode = "token"
    <3>1. UsageCost(row, use)
            = RoundHalfUp(use.prompt * row.inPrice + use.completion * row.outPrice, 10000)
      BY <2>4 DEF UsageCost
    <3>2. use.prompt * row.inPrice + use.completion * row.outPrice \in Int
      BY <1>1, <1>3, <1>6
    <3> QED BY <1>7, <3>1, <3>2, SMT
  <2> QED BY <1>1, <2>1, <2>2, <2>3, <2>4
<1>9. \A n \in Int : RoundHalfEven(n, 10) \in Int
  BY Z3 DEF RoundHalfEven
<1>10. 11 * UsageCost(row, use) \in Int
  BY <1>8
<1> QED BY <1>9, <1>10 DEF ReservedAmount, use

-----------------------------------------------------------------------------
(* The catalogue: its rows are typed, and a model whose upstream has       *)
(* another name can only chat.                                             *)
OthersChat(code, row) == row.upstream = code \/ row.capability = "chat"

CatalogueInv ==
  /\ DOMAIN catalogue = AllCodes /\ edits \in 0 .. MaxEdits
  /\ \A code \in AllCodes : Exists(code) => IsRow(catalogue[code]) /\ OthersChat(code, catalogue[code])

LEMMA RowIsRow ==
  ASSUME NEW upstream, NEW capability \in {"chat", "image", "audio", "video", "embedding"},
         NEW mode \in BillingModes, NEW inPrice \in Nat, NEW outPrice \in Nat,
         NEW items \in Seq([resolution : Resolutions, sound : Sounds, price : Nat])
  PROVE  IsRow(Row(upstream, capability, mode, inPrice, outPrice, items))
<1> DEFINE row == Row(upstream, capability, mode, inPrice, outPrice, items)
<1>1. DOMAIN row = DOMAIN ColumnTypes \cup {"upstream"}
  BY DEF Row, ColumnTypes
<1>2. /\ row.provider \in ColumnTypes.provider /\ row.capability \in ColumnTypes.capability
      /\ row.mode \in ColumnTypes.mode /\ row.inPrice \in ColumnTypes.inPrice
      /\ row.outPrice \in ColumnTypes.outPrice /\ row.items \in ColumnTypes.items
      /\ row.active \in ColumnTypes.active
  BY DEF Row, ColumnTypes
<1>3. DOMAIN ColumnTypes =
        {"provider", "capability", "mode", "inPrice", "outPrice", "items", "active"}
  BY DEF ColumnTypes
<1> HIDE DEF row
<1>4. \A column \in DOMAIN ColumnTypes : row[column] \in ColumnTypes[column]
  BY <1>2, <1>3
<1> QED BY <1>1, <1>4 DEF IsRow, row

LEMMA ItemsAre ==
  /\ \A price \in Nat : AsItem(price) \in [resolution : Resolutions, sound : Sounds, price : Nat]
  /\ \A resolution \in Resolutions, sound \in Sounds, price \in Nat :
       Item(resolution, sound, price) \in [resolution : Resolutions, sound : Sounds, price : Nat]
BY DEF AsItem, Item, Resolutions, Sounds

LEMMA ChatIsRow ==
  ASSUME NEW code, NEW inPrice \in Nat, NEW outPrice \in Nat
  PROVE  IsRow(Chat(code, inPrice, outPrice)) /\ OthersChat(code, Chat(code, inPrice, outPrice))
<1>1. <<AsItem(inPrice), AsItem(outPrice)>> \in Seq([resolution : Resolutions, sound : Sounds, price : Nat])
  BY ItemsAre
<1>2. IsRow(Row(code, "chat", "token", inPrice, outPrice, <<AsItem(inPrice), AsItem(outPrice)>>))
  BY <1>1, RowIsRow DEF BillingModes
<1> QED BY <1>2 DEF Chat, OthersChat, Row

LEMMA SingleIsRow ==
  ASSUME NEW code, NEW capability \in {"image", "audio"}, NEW mode \in BillingModes,
         NEW price \in Nat
  PROVE  /\ IsRow(Single(code, capability, mode, price))
         /\ OthersChat(code, Single(code, capability, mode, price))
<1>1. <<Item("none", "none", price)>> \in Seq([resolution : Resolutions, sound : Sounds, price : Nat])
  BY ItemsAre DEF Resolutions, Sounds
<1>2. IsRow(Row(code, capability, mode, 0, 0, <<Item("none", "none", price)>>))
  BY <1>1, RowIsRow
<1> QED BY <1>2 DEF Single, OthersChat, Row

LEMMA SeedsAreRows ==
  \A code \in DOMAIN OfficialCatalogue :
    IsRow(OfficialCatalogue[code]) /\ OthersChat(code, OfficialCatalogue[code])
<1> DEFINE Good(code, row) == IsRow(row) /\ OthersChat(code, row)
<1>1. /\ Good("qwen-plus", Chat("qwen-plus", 8000, 48000))
      /\ Good("qwen-flash", Chat("qwen-flash", 2000, 20000))
      /\ Good("deepseek-v3.2", Chat("deepseek-v3.2", 20000, 30000))
      /\ Good("kimi-k2.5", Chat("kimi-k2.5", 40000, 210000))
      /\ Good("glm-5", Chat("glm-5", 40000, 180000))
  BY ChatIsRow, SMT
<1>2. /\ Good("qwen-image-2.0", Single("qwen-image-2.0", "image", "per_image", 200000))
      /\ Good("qwen-image-2.0-pro", Single("qwen-image-2.0-pro", "image", "per_image", 500000))
      /\ Good("qwen3-asr-flash", Single("qwen3-asr-flash", "audio", "per_second", 220))
      /\ Good("qwen3-tts-vd-2026-01-26",
               Single("qwen3-tts-vd-2026-01-26", "audio", "per_10k_chars", 800000))
  BY SingleIsRow, SMT DEF BillingModes
<1> DEFINE minimax == [Chat("minimax-m2.5", 21000, 84000) EXCEPT !.upstream = "MiniMax-M2.5"]
<1>3. Good("minimax-m2.5", minimax)
  <2>1. IsRow(Chat("minimax-m2.5", 21000, 84000))
    BY ChatIsRow, SMT
  <2>2. minimax.capability = "chat"
    BY DEF Chat, Row
  <2>3. IsRow(minimax)
    <3> DEFINE row == Chat("minimax-m2.5", 21000, 84000)
    <3>1. IsRow(row)
      BY <2>1
    <3> HIDE DEF row
    <3>2. /\ DOMAIN [row EXCEPT !.upstream = "MiniMax-M2.5"] = DOMAIN row
          /\ \A column \in DOMAIN ColumnTypes :
               [row EXCEPT !.upstream = "MiniMax-M2.5"][column] = row[column]
      BY <3>1 DEF IsRow, ColumnTypes
    <3>3. IsRow([row EXCEPT !.upstream = "MiniMax-M2.5"])
      BY <3>1, <3>2 DEF IsRow
    <3> QED BY <3>3 DEF row
  <2> HIDE DEF minimax
  <2> QED BY <2>2, <2>3 DEF OthersChat
<1> DEFINE videoItems == <<Item("720P", "silent", 150000), Item("1080P", "silent", 250000),
                           Item("720P", "voiced", 300000), Item("1080P", "voiced", 500000)>>
           video == Row("wan2.6-i2v-flash", "video", "per_second", 0, 0, videoItems)
<1>4. Good("wan2.6-i2v-flash", video)
  <2>1. videoItems \in Seq([resolution : Resolutions, sound : Sounds, price : Nat])
    BY ItemsAre DEF Resolutions, Sounds
  <2> HIDE DEF videoItems
  <2>2. IsRow(video)
    <3>1. "video" \in {"chat", "image", "audio", "video", "embedding"} /\ 0 \in Nat
          /\ "per_second" \in BillingModes
      BY DEF BillingModes
    <3> QED BY ONLY <2>1, <3>1, RowIsRow, Zenon
  <2> QED BY <2>2 DEF OthersChat, Row
<1> HIDE DEF Good
<1>5. \A code \in DOMAIN OfficialCatalogue : Good(code, OfficialCatalogue[code])
  BY <1>1, <1>2, <1>3, <1>4 DEF OfficialCatalogue
<1> QED BY <1>5 DEF Good

LEMMA ColumnSet ==
  ASSUME NEW row, IsRow(row), NEW column \in DOMAIN row, NEW value,
         column \in DOMAIN ColumnTypes => value \in ColumnTypes[column]
  PROVE  /\ IsRow([row EXCEPT ![column] = value])
         /\ [row EXCEPT ![column] = value][column] = value
         /\ \A other \in DOMAIN row : other # column =>
              [row EXCEPT ![column] = value][other] = row[other]
<1> DEFINE new == [row EXCEPT ![column] = value]
<1>1. DOMAIN new = DOMAIN row /\ DOMAIN row = DOMAIN ColumnTypes \cup {"upstream"}
  BY DEF IsRow
<1>2. new[column] = value /\ \A other \in DOMAIN row : other # column => new[other] = row[other]
  OBVIOUS
<1> HIDE DEF new
<1>3. \A other \in DOMAIN ColumnTypes : new[other] \in ColumnTypes[other]
  BY <1>1, <1>2 DEF IsRow
<1>4. IsRow(new)
  BY <1>1, <1>3 DEF IsRow
<1> QED BY <1>2, <1>4 DEF new

LEMMA PricedIsRow ==
  ASSUME NEW row, IsRow(row)
  PROVE  IsRow(Priced(row)) /\ Priced(row).upstream = row.upstream
<1>1. /\ row.inPrice \in Nat /\ row.outPrice \in Nat
      /\ {"items", "upstream"} \subseteq DOMAIN row
  BY RowIs
<1>2. DefaultItems(row) \in ColumnTypes.items
  <2> DEFINE items == [resolution : Resolutions, sound : Sounds, price : Nat]
             asked == AsItem(row.inPrice)
             answered == AsItem(row.outPrice)
  <2>1. asked \in items /\ answered \in items
    BY <1>1, ItemsAre
  <2>2. DefaultItems(row) \in {<<asked, answered>>, <<answered>>}
    BY DEF DefaultItems
  <2> HIDE DEF items, asked, answered
  <2>3. <<asked, answered>> \in Seq(items) /\ <<answered>> \in Seq(items)
    BY <2>1
  <2>4. DefaultItems(row) \in Seq(items)
    BY <2>2, <2>3
  <2> QED BY <2>4 DEF ColumnTypes, items
<1>3. /\ IsRow([row EXCEPT !["items"] = DefaultItems(row)])
      /\ [row EXCEPT !["items"] = DefaultItems(row)]["upstream"] = row["upstream"]
  BY <1>1, <1>2, ColumnSet
<1> QED BY <1>3 DEF Priced

LEMMA ChangedIsRow ==
  ASSUME NEW row, IsRow(row), NEW change \in Changes
  PROVE  IsRow(Changed(row, change))
<1> DEFINE changed == [column \in DOMAIN row |->
                         IF column \in DOMAIN change THEN change[column] ELSE row[column]]
<1>1. DOMAIN changed = DOMAIN row /\ DOMAIN row = DOMAIN ColumnTypes \cup {"upstream"}
  BY DEF IsRow
<1>2. \A column \in DOMAIN ColumnTypes : changed[column] \in ColumnTypes[column]
  <2> SUFFICES ASSUME NEW column \in DOMAIN ColumnTypes
               PROVE  changed[column] \in ColumnTypes[column]
    OBVIOUS
  <2>1. changed[column] = IF column \in DOMAIN change THEN change[column] ELSE row[column]
    BY <1>1
  <2>2. column \in DOMAIN change => change[column] \in ColumnTypes[column]
    BY CatalogueAssumption
  <2>3. row[column] \in ColumnTypes[column]
    BY DEF IsRow
  <2> HIDE DEF changed
  <2> QED BY <2>1, <2>2, <2>3
<1> HIDE DEF changed
<1>3. IsRow(changed)
  BY <1>1, <1>2 DEF IsRow
<1>4. IsRow(Priced(changed))
  BY <1>3, PricedIsRow
<1> QED BY <1>3, <1>4 DEF Changed, changed

LEMMA CatalogueStarts ==
  ASSUME CatalogueInit PROVE CatalogueInv
<1>1. DOMAIN catalogue = AllCodes
  BY DEF CatalogueInit, SeededCatalogue
<1>2. edits \in 0 .. MaxEdits
  BY CatalogueAssumption DEF CatalogueInit
<1>3. ASSUME NEW code \in AllCodes, Exists(code)
      PROVE  IsRow(catalogue[code]) /\ OthersChat(code, catalogue[code])
  <2>1. code \in DOMAIN OfficialCatalogue /\ catalogue[code] = OfficialCatalogue[code]
    BY <1>3 DEF CatalogueInit, SeededCatalogue, Exists
  <2> QED BY <2>1, SeedsAreRows
<1> QED BY <1>1, <1>2, <1>3 DEF CatalogueInv

LEMMA RowEdited ==
  ASSUME CatalogueInv, NEW code \in AllCodes, NEW row, EditRow(code, row),
         row = NoModel \/ (IsRow(row) /\ OthersChat(code, row))
  PROVE  CatalogueInv'
<1>1. DOMAIN catalogue' = AllCodes /\ edits' \in 0 .. MaxEdits
  BY CatalogueAssumption DEF EditRow, CatalogueInv
<1>2. catalogue'[code] = row /\ \A other \in AllCodes : other # code => catalogue'[other] = catalogue[other]
  BY DEF EditRow, CatalogueInv
<1>3. ASSUME NEW other \in AllCodes, Exists(other)'
      PROVE  IsRow(catalogue'[other]) /\ OthersChat(other, catalogue'[other])
  <2>1. CASE other = code
    BY <1>2, <1>3, <2>1 DEF Exists
  <2>2. CASE other # code
    BY <1>2, <1>3, <2>2 DEF Exists, CatalogueInv
  <2> QED BY <2>1, <2>2
<1> QED BY <1>1, <1>3 DEF CatalogueInv

LEMMA CatalogueSteps ==
  ASSUME CatalogueInv, CatalogueNext PROVE CatalogueInv'
<1>1. \A code \in Codes : code \in AllCodes
  BY DEF AllCodes
<1>2. \A code \in AllCodes : Exists(code) => IsRow(catalogue[code]) /\ OthersChat(code, catalogue[code])
  BY DEF CatalogueInv
<1>3. ASSUME NEW code \in Codes, NEW row \in Creations, CreateModel(code, row) PROVE CatalogueInv'
  <2> DEFINE new == IF row.items = <<>> THEN Priced(row) ELSE row
  <2>1. EditRow(code, new) /\ Transparent(code, row) /\ IsRow(row)
    BY <1>3, CatalogueAssumption DEF CreateModel
  <2>2. IsRow(new) /\ OthersChat(code, new)
    BY <2>1, PricedIsRow DEF Transparent, OthersChat
  <2> HIDE DEF new
  <2> QED BY <1>1, <2>1, <2>2, RowEdited
<1>4. ASSUME NEW code \in AllCodes, NEW change \in Changes, UpdateModel(code, change)
      PROVE  CatalogueInv'
  <2>1. /\ EditRow(code, Changed(catalogue[code], change)) /\ Exists(code)
        /\ Transparent(code, Changed(catalogue[code], change))
    BY <1>4 DEF UpdateModel
  <2>2. IsRow(Changed(catalogue[code], change))
    BY <1>2, <2>1, ChangedIsRow
  <2> QED BY <2>1, <2>2, RowEdited DEF Transparent, OthersChat
<1>5. ASSUME NEW code \in AllCodes, NEW new \in Codes, RenameModel(code, new) PROVE CatalogueInv'
  <2> DEFINE row == [catalogue[code] EXCEPT !.upstream = new]
  <2>1. /\ Exists(code) /\ ~Exists(new) /\ edits < MaxEdits /\ edits' = edits + 1
        /\ catalogue' = [catalogue EXCEPT ![new] = row, ![code] = NoModel]
    BY <1>5 DEF RenameModel
  <2>2. IsRow(row) /\ OthersChat(new, row)
    <3>1. "upstream" \in DOMAIN catalogue[code] /\ "upstream" \notin DOMAIN ColumnTypes
      BY <1>2, <2>1 DEF IsRow, ColumnTypes
    <3>2. /\ IsRow([catalogue[code] EXCEPT !["upstream"] = new])
          /\ [catalogue[code] EXCEPT !["upstream"] = new]["upstream"] = new
      BY <1>2, <2>1, <3>1, ColumnSet
    <3> QED BY <3>2 DEF OthersChat
  <2> HIDE DEF row
  <2>3. DOMAIN catalogue' = AllCodes /\ edits' \in 0 .. MaxEdits
    BY <2>1, CatalogueAssumption DEF CatalogueInv
  <2>4. ASSUME NEW other \in AllCodes, Exists(other)'
        PROVE  IsRow(catalogue'[other]) /\ OthersChat(other, catalogue'[other])
    <3>1. DOMAIN catalogue = AllCodes /\ new \in AllCodes
      BY <1>1 DEF CatalogueInv
    <3>2. catalogue'[other] = IF other = code THEN NoModel
                              ELSE IF other = new THEN row ELSE catalogue[other]
      BY <2>1, <3>1
    <3> QED BY <1>2, <2>2, <2>4, <3>2 DEF Exists
  <2> QED BY <2>3, <2>4 DEF CatalogueInv
<1>6. ASSUME NEW code \in AllCodes, NEW active \in BOOLEAN, SetActive(code, active)
      PROVE  CatalogueInv'
  <2> DEFINE row == catalogue[code]
  <2>1. EditRow(code, [row EXCEPT !.active = active]) /\ IsRow(row) /\ OthersChat(code, row)
    BY <1>2, <1>6 DEF SetActive
  <2>2. /\ {"active", "upstream", "capability"} \subseteq DOMAIN row
        /\ active \in ColumnTypes["active"]
    BY <2>1 DEF IsRow, ColumnTypes
  <2>3. /\ IsRow([row EXCEPT !["active"] = active])
        /\ [row EXCEPT !["active"] = active]["upstream"] = row["upstream"]
        /\ [row EXCEPT !["active"] = active]["capability"] = row["capability"]
    BY <2>1, <2>2, ColumnSet
  <2>4. OthersChat(code, [row EXCEPT !.active = active])
    BY <2>1, <2>3 DEF OthersChat
  <2> HIDE DEF row
  <2> QED BY <2>1, <2>3, <2>4, RowEdited
<1>7. ASSUME NEW code \in AllCodes, DeleteModel(code) PROVE CatalogueInv'
  BY <1>7, RowEdited DEF DeleteModel
<1> QED BY <1>3, <1>4, <1>5, <1>6, <1>7 DEF CatalogueNext

-----------------------------------------------------------------------------
(* What the handler of a call holds, from its route on.                    *)
CallFields ==
  {"at", "request", "model", "url", "name", "reserved", "body", "lines", "sent", "reader",
   "lost", "halved", "unit", "quantity", "amount"}

HeldShape(held) ==
  /\ DOMAIN held = CallFields /\ held.at \in ControlPoints /\ held.request \in Requests
  /\ held.quantity \in Nat /\ held.amount \in Nat

(* A call that was not refused has a model, and but for a chat it is known *)
(* upstream by the code the client asked for.                              *)
HeldModel(held) ==
  /\ held.model # NoModel => IsRow(held.model)
  /\ held.at # "refused" =>
       /\ IsRow(held.model)
       /\ held.request.endpoint = "chat" \/ held.model.upstream = held.request.code

HeldName(held) ==
  held.name # NoName =>
    /\ held.at \notin {"routed", "admitted", "refused"}
    /\ held.name = NameSent(held.request.endpoint, NameAsked(held.request), held.model)

(* The reservation is worked out once, from the model the route found. *)
HeldReservation(held) ==
  /\ held.reserved \in Int
  /\ held.at \notin {"routed", "refused"} =>
       held.reserved = ReservedAmount(held.model, held.request.payload)

HeldAnswer(held) ==
  /\ IsUsage(held.body.usage) /\ held.body.results \in Int
  /\ \A l \in DOMAIN held.lines : IsUsage(held.lines[l].usage)

HeldStream(held) ==
  /\ StreamInv(held.lines, held.sent, held.reader, held.lost, held.halved)
  /\ held.sent \in Nat /\ Len(held.reader.pending) <= PendingLimit
  /\ held.at \in {"routed", "admitted"} =>
       held.sent = 0 /\ held.reader = Start /\ held.lost = {} /\ held.halved = {}

Held(held) ==
  /\ HeldShape(held) /\ HeldModel(held) /\ HeldName(held)
  /\ HeldReservation(held) /\ HeldAnswer(held) /\ HeldStream(held)

(* A settled call was charged by that model and by the usage it still has. *)
ChargedByModel(c) ==
  At(c, "settled") =>
    /\ call[c].amount = UsageCost(call[c].model, Used(call[c].model.mode, UsageOf(c)))
    /\ call[c].quantity = Quantity(call[c].model.mode, UsageOf(c))

Inv ==
  /\ CatalogueInv /\ DOMAIN call = Calls
  /\ \A c \in Calls : (call[c] = NewCall \/ Held(call[c])) /\ ChargedByModel(c)

LEMMA FieldsSet ==
  ASSUME DOMAIN call = Calls, NEW c \in Calls, NEW fields, Set(c, fields)
  PROVE  /\ DOMAIN call' = Calls
         /\ \A d \in Calls : d # c => call'[d] = call[d]
         /\ DOMAIN call'[c] = DOMAIN call[c]
         /\ \A f \in DOMAIN call[c] :
              call'[c][f] = IF f \in DOMAIN fields THEN fields[f] ELSE call[c][f]
<1>1. /\ DOMAIN call' = Calls
      /\ \A d \in Calls : d # c => call'[d] = call[d]
      /\ call'[c] = [f \in DOMAIN call[c] |-> IF f \in DOMAIN fields THEN fields[f] ELSE call[c][f]]
  BY DEF Set
<1> QED BY <1>1

(* What is settled by depends on four fields of the call alone. *)
LEMMA UsageKept ==
  ASSUME NEW c \in Calls, call'[c].request = call[c].request, call'[c].model = call[c].model,
         call'[c].body = call[c].body, call'[c].reader = call[c].reader
  PROVE  UsageOf(c)' = UsageOf(c)
BY DEF UsageOf, Streamed, StreamedUsage, EstimatedTokens, Payload

(* One call takes a step, and the catalogue and the others stay. *)
LEMMA OneCall ==
  ASSUME Inv, NEW c \in Calls, UNCHANGED catalogueVars, DOMAIN call' = Calls,
         \A d \in Calls : d # c => call'[d] = call[d],
         Held(call'[c]), ChargedByModel(c)'
  PROVE  Inv'
<1>1. CatalogueInv'
  BY DEF Inv, CatalogueInv, catalogueVars, Exists
<1>2. ASSUME NEW d \in Calls, d # c
      PROVE  (call'[d] = NewCall \/ Held(call'[d])) /\ ChargedByModel(d)'
  <2>1. call'[d] = call[d] /\ ChargedByModel(d)
    BY <1>2 DEF Inv
  <2>2. UsageOf(d)' = UsageOf(d)
    BY <2>1, UsageKept
  <2>3. ChargedByModel(d)'
    BY <2>1, <2>2 DEF ChargedByModel, At
  <2> QED BY <2>1, <2>3 DEF Inv
<1> QED BY <1>1, <1>2 DEF Inv

LEMMA Starts ==
  Init => Inv
<1> SUFFICES ASSUME Init PROVE Inv
  OBVIOUS
<1>1. CatalogueInv
  BY CatalogueStarts DEF Init
<1>2. DOMAIN call = Calls /\ \A c \in Calls : call[c] = NewCall
  BY DEF Init
<1>3. \A c \in Calls : ChargedByModel(c)
  BY <1>2 DEF ChargedByModel, At, NewCall
<1> QED BY <1>1, <1>2, <1>3 DEF Inv

(* The route: a model that is not there is refused with 404. *)
LEMMA RoutedModel ==
  ASSUME NEW code, NEW row, NEW endpoint \in Endpoints, Route(row, endpoint).refused = 0,
         row = NoModel \/ (IsRow(row) /\ OthersChat(code, row))
  PROVE  IsRow(row) /\ (endpoint = "chat" \/ row.upstream = code)
<1>1. row.active
  BY DEF Route, Refused
<1>2. IsRow(row) /\ OthersChat(code, row)
  BY <1>1 DEF NoModel
<1>3. CASE endpoint = "multimodal"
  <2>1. Route(row, endpoint) = MultimodalRoute(row)
    BY <1>1, <1>3 DEF Route
  <2>2. row.capability \in {"image", "audio"}
    BY <2>1 DEF MultimodalRoute, NativeRoute, Refused
  <2> QED BY <1>2, <2>2 DEF OthersChat
<1>4. CASE endpoint = "video"
  <2>1. Route(row, endpoint) = VideoRoute(row)
    BY <1>1, <1>4 DEF Route
  <2>2. row.capability \in {"video"}
    BY <2>1 DEF VideoRoute, NativeRoute, Refused
  <2> QED BY <1>2, <2>2 DEF OthersChat
<1> QED BY <1>2, <1>3, <1>4 DEF Endpoints

LEMMA Routed ==
  ASSUME Inv, NEW c \in Calls, NEW q \in Requests, RouteCall(c, q)
  PROVE  Inv'
<1> DEFINE row == catalogue[q.code]
           at == IF Route(row, q.endpoint).refused = 0 THEN "routed" ELSE "refused"
           held == [at |-> at, request |-> q, model |-> row, url |-> Route(row, q.endpoint).url,
                    name |-> NoName, reserved |-> 0, body |-> NoBody, lines |-> <<>>, sent |-> 0,
                    reader |-> Start, lost |-> {}, halved |-> {}, unit |-> "none",
                    quantity |-> 0, amount |-> 0]
<1>1. /\ UNCHANGED catalogueVars /\ DOMAIN call' = Calls /\ call'[c] = held
      /\ \A d \in Calls : d # c => call'[d] = call[d]
  BY DEF RouteCall, Inv
<1>2. q.endpoint \in Endpoints /\ q.code \in AllCodes
  BY MeteredAssumption
<1>3. row = NoModel \/ (IsRow(row) /\ OthersChat(q.code, row))
  BY <1>2 DEF Inv, CatalogueInv, Exists
<1>4. at = "routed" => IsRow(row) /\ (q.endpoint = "chat" \/ row.upstream = q.code)
  <2> HIDE DEF row
  <2>1. at = "routed" => Route(row, q.endpoint).refused = 0
    OBVIOUS
  <2> QED BY <1>2, <1>3, <2>1, RoutedModel
<1>5. at \in {"routed", "refused"}
  OBVIOUS
<1>6. StreamInv(<<>>, 0, Start, {}, {})
  <2>1. IsStream(<<>>)
    BY DEF IsStream
  <2> QED BY <2>1, StreamStarts
<1> HIDE DEF row, at
<1>7. HeldShape(held)
  BY <1>5 DEF HeldShape, CallFields, ControlPoints
<1>8. HeldModel(held)
  BY <1>3, <1>4, <1>5 DEF HeldModel
<1>9. HeldName(held) /\ HeldReservation(held)
  BY <1>5 DEF HeldName, HeldReservation
<1>10. HeldAnswer(held)
  BY DEF HeldAnswer, NoBody, NoUsage, IsUsage, CountFields
<1>11. HeldStream(held)
  BY <1>6, MeteredAssumption DEF HeldStream, Start
<1>12. Held(call'[c])
  BY <1>1, <1>7, <1>8, <1>9, <1>10, <1>11 DEF Held
<1>13. ChargedByModel(c)'
  <2>1. call'[c].at # "settled"
    BY <1>1, <1>5
  <2> QED BY <2>1 DEF ChargedByModel, At
<1> HIDE DEF held
<1> QED BY <1>1, <1>12, <1>13, OneCall

LEMMA HeldAt ==
  ASSUME Inv, NEW c \in Calls, call[c].at \in ControlPoints
  PROVE  Held(call[c]) /\ DOMAIN call[c] = CallFields /\ DOMAIN call = Calls
BY DEF Inv, NewCall, ControlPoints, Held, HeldShape

(* The call moves on and keeps all it holds. *)
LEMMA Moved ==
  ASSUME Inv, NEW c \in Calls, UNCHANGED catalogueVars, NEW point, Set(c, [at |-> point]),
         \/ At(c, "routed") /\ point = "refused"
         \/ call[c].at \in {"streaming", "answered"} /\ point \in {"answered", "failed", "abandoned"}
  PROVE  Inv'
<1> DEFINE fields == [at |-> point]
           held == call'[c]
<1>1. Held(call[c]) /\ DOMAIN call[c] = CallFields /\ DOMAIN call = Calls
  BY HeldAt DEF At, ControlPoints
<1>2. DOMAIN fields = {"at"} /\ fields["at"] = point
  OBVIOUS
<1> HIDE DEF fields
<1>3. /\ DOMAIN call' = Calls /\ \A d \in Calls : d # c => call'[d] = call[d]
      /\ DOMAIN held = CallFields
      /\ \A f \in CallFields : held[f] = IF f \in DOMAIN fields THEN fields[f] ELSE call[c][f]
  BY <1>1, FieldsSet DEF fields
<1> HIDE DEF held
<1>4. /\ held.at = point /\ held.request = call[c].request /\ held.model = call[c].model
      /\ held.name = call[c].name /\ held.reserved = call[c].reserved
      /\ held.body = call[c].body /\ held.lines = call[c].lines /\ held.sent = call[c].sent
      /\ held.reader = call[c].reader /\ held.lost = call[c].lost
      /\ held.halved = call[c].halved /\ held.quantity = call[c].quantity
      /\ held.amount = call[c].amount
  BY <1>2, <1>3 DEF CallFields
<1>5. point \in {"refused", "answered", "failed", "abandoned"}
      /\ (call[c].at = "routed" => point = "refused") /\ call[c].at \notin {"admitted", "refused"}
      /\ (point = "refused" => call[c].at = "routed")
  BY DEF At
<1>6. HeldShape(held)
  BY <1>1, <1>3, <1>4, <1>5 DEF Held, HeldShape, ControlPoints
<1>7. HeldModel(held) /\ HeldName(held) /\ HeldReservation(held)
  BY <1>1, <1>4, <1>5 DEF Held, HeldModel, HeldName, HeldReservation
<1>8. HeldAnswer(held) /\ HeldStream(held)
  BY <1>1, <1>4, <1>5 DEF Held, HeldAnswer, HeldStream
<1>9. Held(call'[c])
  BY <1>6, <1>7, <1>8 DEF Held, held
<1>10. ChargedByModel(c)'
  BY <1>4, <1>5 DEF ChargedByModel, At, held
<1> QED BY <1>3, <1>9, <1>10, OneCall

LEMMA Admitted ==
  ASSUME Inv, NEW c \in Calls, AdmitCall(c)
  PROVE  Inv'
<1> DEFINE reserved == ReservedAmount(call[c].model, Payload(c))
           fields == [at |-> "admitted", reserved |-> reserved]
           held == call'[c]
<1>1. CASE Set(c, [at |-> "refused"])
  BY <1>1, Moved DEF AdmitCall
<1>2. CASE Set(c, fields)
  <2>1. Held(call[c]) /\ DOMAIN call[c] = CallFields /\ DOMAIN call = Calls /\ call[c].at = "routed"
    BY HeldAt DEF AdmitCall, At, ControlPoints
  <2>2. DOMAIN fields = {"at", "reserved"} /\ fields["at"] = "admitted" /\ fields["reserved"] = reserved
    OBVIOUS
  <2> HIDE DEF fields
  <2>3. /\ DOMAIN call' = Calls /\ \A d \in Calls : d # c => call'[d] = call[d]
        /\ DOMAIN held = CallFields
        /\ \A f \in CallFields : held[f] = IF f \in DOMAIN fields THEN fields[f] ELSE call[c][f]
    BY <1>2, <2>1, FieldsSet
  <2> HIDE DEF held
  <2>4. /\ held.at = "admitted" /\ held.request = call[c].request /\ held.model = call[c].model
        /\ held.name = call[c].name /\ held.reserved = reserved
        /\ held.body = call[c].body /\ held.lines = call[c].lines /\ held.sent = call[c].sent
        /\ held.reader = call[c].reader /\ held.lost = call[c].lost
        /\ held.halved = call[c].halved /\ held.quantity = call[c].quantity
        /\ held.amount = call[c].amount
    BY <2>2, <2>3 DEF CallFields
  <2>5. HeldShape(held)
    BY <2>1, <2>3, <2>4 DEF Held, HeldShape, ControlPoints
  <2>6. HeldModel(held) /\ HeldName(held)
    BY <2>1, <2>4 DEF Held, HeldModel, HeldName
  <2>7. HeldReservation(held)
    <3>1. IsRow(call[c].model)
      BY <2>1 DEF Held, HeldModel
    <3>2. call[c].request.payload \in Payloads
      BY <2>1, MeteredAssumption DEF Held, HeldShape
    <3>3. reserved \in Int
      BY <3>1, <3>2, ReservationType DEF Payload
    <3> QED BY <2>4, <3>3 DEF HeldReservation, Payload
  <2>8. HeldAnswer(held) /\ HeldStream(held)
    BY <2>1, <2>4 DEF Held, HeldAnswer, HeldStream
  <2>9. Held(call'[c])
    BY <2>5, <2>6, <2>7, <2>8 DEF Held, held
  <2>10. ChargedByModel(c)'
    BY <2>4 DEF ChargedByModel, At, held
  <2> QED BY <2>3, <2>9, <2>10, OneCall DEF AdmitCall
<1> QED BY <1>1, <1>2 DEF AdmitCall

(* The request has gone out, and an answer, or nothing, comes back. *)
LEMMA Asked ==
  ASSUME Inv, NEW c \in Calls, At(c, "admitted"), UNCHANGED catalogueVars,
         NEW fields, Set(c, fields),
         {"at", "name"} \subseteq DOMAIN fields,
         DOMAIN fields \subseteq {"at", "name", "body", "lines"},
         fields["at"] \in {"failed", "answered", "streaming"}, fields["name"] = Named(c),
         "body" \in DOMAIN fields =>
           IsUsage(fields["body"].usage) /\ fields["body"].results \in Int,
         "lines" \in DOMAIN fields =>
           IsStream(fields["lines"]) /\ \A l \in DOMAIN fields["lines"] :
                                          IsUsage(fields["lines"][l].usage)
  PROVE  Inv'
<1> DEFINE held == call'[c]
<1>1. Held(call[c]) /\ DOMAIN call[c] = CallFields /\ DOMAIN call = Calls /\ call[c].at = "admitted"
  BY HeldAt DEF At, ControlPoints
<1>2. /\ DOMAIN call' = Calls /\ \A d \in Calls : d # c => call'[d] = call[d]
      /\ DOMAIN held = CallFields
      /\ \A f \in CallFields : held[f] = IF f \in DOMAIN fields THEN fields[f] ELSE call[c][f]
  BY <1>1, FieldsSet
<1> HIDE DEF held
<1>3. /\ held.at \in {"failed", "answered", "streaming"} /\ held.request = call[c].request
      /\ held.model = call[c].model /\ held.name = Named(c)
      /\ held.reserved = call[c].reserved /\ held.sent = call[c].sent
      /\ held.reader = call[c].reader /\ held.lost = call[c].lost
      /\ held.halved = call[c].halved /\ held.quantity = call[c].quantity
      /\ held.amount = call[c].amount
  BY <1>2 DEF CallFields
<1>4. /\ held.body = IF "body" \in DOMAIN fields THEN fields["body"] ELSE call[c].body
      /\ held.lines = IF "lines" \in DOMAIN fields THEN fields["lines"] ELSE call[c].lines
  BY <1>2 DEF CallFields
<1>5. HeldShape(held)
  BY <1>1, <1>2, <1>3 DEF Held, HeldShape, ControlPoints
<1>6. HeldModel(held) /\ HeldName(held) /\ HeldReservation(held)
  BY <1>1, <1>3 DEF Held, HeldModel, HeldName, HeldReservation, Named
<1>7. HeldAnswer(held)
  BY <1>1, <1>4 DEF Held, HeldAnswer
<1>8. StreamInv(held.lines, 0, Start, {}, {})
  <2>1. IsStream(call[c].lines)
    BY <1>1 DEF Held, HeldStream, StreamInv
  <2>2. IsStream(held.lines)
    BY <1>4, <2>1
  <2> QED BY <2>2, StreamStarts
<1>9. HeldStream(held)
  BY <1>1, <1>3, <1>8 DEF Held, HeldStream
<1>10. Held(call'[c])
  BY <1>5, <1>6, <1>7, <1>9 DEF Held, held
<1>11. ChargedByModel(c)'
  BY <1>3 DEF ChargedByModel, At, held
<1> QED BY <1>2, <1>10, <1>11, OneCall

LEMMA Failed ==
  ASSUME Inv, NEW c \in Calls, UpstreamFails(c) PROVE Inv'
<1> DEFINE fields == [at |-> "failed", name |-> Named(c)]
<1>1. At(c, "admitted") /\ Set(c, fields) /\ UNCHANGED catalogueVars
  BY DEF UpstreamFails
<1>2. DOMAIN fields = {"at", "name"} /\ fields["at"] = "failed" /\ fields["name"] = Named(c)
  OBVIOUS
<1> HIDE DEF fields
<1> QED BY <1>1, <1>2, Asked

LEMMA Answered ==
  ASSUME Inv, NEW c \in Calls, UpstreamAnswers(c) PROVE Inv'
<1>1. At(c, "admitted") /\ UNCHANGED catalogueVars
  BY DEF UpstreamAnswers
<1>2. call[c].request \in Requests
  BY <1>1, HeldAt DEF At, ControlPoints, Held, HeldShape
<1>3. ASSUME NEW body \in Bodies[call[c].request],
             Set(c, [at |-> "answered", name |-> Named(c), body |-> body])
      PROVE  Inv'
  <2> DEFINE fields == [at |-> "answered", name |-> Named(c), body |-> body]
  <2>1. /\ DOMAIN fields = {"at", "name", "body"} /\ fields["at"] = "answered"
        /\ fields["name"] = Named(c) /\ fields["body"] = body /\ Set(c, fields)
    BY <1>3
  <2> HIDE DEF fields
  <2>2. IsUsage(body.usage) /\ body.results \in Int
    BY <1>2, <1>3, MeteredAssumption
  <2> QED BY <1>1, <2>1, <2>2, Asked
<1>4. ASSUME NEW lines \in Streams[call[c].request],
             Set(c, [at |-> "streaming", name |-> Named(c), lines |-> lines])
      PROVE  Inv'
  <2> DEFINE fields == [at |-> "streaming", name |-> Named(c), lines |-> lines]
  <2>1. /\ DOMAIN fields = {"at", "name", "lines"} /\ fields["at"] = "streaming"
        /\ fields["name"] = Named(c) /\ fields["lines"] = lines /\ Set(c, fields)
    BY <1>4
  <2> HIDE DEF fields
  <2>2. IsStream(lines) /\ \A l \in DOMAIN lines : IsUsage(lines[l].usage)
    BY <1>2, <1>4, MeteredAssumption
  <2> QED BY <1>1, <2>1, <2>2, Asked
<1> QED BY <1>3, <1>4 DEF UpstreamAnswers

LEMMA Delivered ==
  ASSUME Inv, NEW c \in Calls, DeliverChunk(c) PROVE Inv'
<1> DEFINE bytes == StreamBytes(call[c].lines)
           reader == call[c].reader
           first == call[c].sent + 1
           held == call'[c]
<1>1. Held(call[c]) /\ DOMAIN call[c] = CallFields /\ DOMAIN call = Calls /\ call[c].at = "streaming"
      /\ UNCHANGED catalogueVars
  BY HeldAt DEF DeliverChunk, At, ControlPoints
<1>2. PICK last \in first .. Len(bytes) :
        Set(c, [sent |-> last,
                reader |-> Read(call[c].lines, reader, SubSeq(bytes, first, last), PendingLimit),
                lost |-> call[c].lost \cup LinesLost(reader, SubSeq(bytes, first, last)),
                halved |-> call[c].halved \cup
                  IF bytes[last].part = "lead" THEN {last} ELSE {}])
  BY DEF DeliverChunk
<1> DEFINE next == Read(call[c].lines, reader, SubSeq(bytes, first, last), PendingLimit)
           lost == call[c].lost \cup LinesLost(reader, SubSeq(bytes, first, last))
           halved == CutAlso(bytes, call[c].halved, last)
           fields == [sent |-> last, reader |-> next, lost |-> lost, halved |-> halved]
<1>3. Set(c, fields)
  BY <1>2 DEF CutAlso
<1>4. StreamInv(call[c].lines, call[c].sent, call[c].reader, call[c].lost, call[c].halved)
      /\ call[c].sent \in Nat
  BY <1>1 DEF Held, HeldStream
<1>5. last \in call[c].sent + 1 .. Len(StreamBytes(call[c].lines))
  BY <1>2
<1>6. lost = call[c].lost \cup IF Overflows(reader, SubSeq(bytes, first, last), PendingLimit)
                                 THEN LinesOfBytes(reader.pending \o SubSeq(bytes, first, last))
                                 ELSE {}
  BY DEF LinesLost, LinesOfBytes
<1>7. StreamInv(call[c].lines, last, next, lost, halved)
  BY <1>4, <1>5, <1>6, StreamGoesOn
<1>8. PendingLimit \in Nat
  BY MeteredAssumption
<1>9. Len(next.pending) <= PendingLimit
  BY <1>4, <1>5, <1>8, PendingIsBounded
<1>10. last \in Nat
  BY <1>4, <1>5
<1> HIDE DEF next, lost, halved
<1>11. /\ DOMAIN fields = {"sent", "reader", "lost", "halved"} /\ fields["sent"] = last
       /\ fields["reader"] = next /\ fields["lost"] = lost /\ fields["halved"] = halved
  OBVIOUS
<1> HIDE DEF fields
<1>12. /\ DOMAIN call' = Calls /\ \A d \in Calls : d # c => call'[d] = call[d]
       /\ DOMAIN held = CallFields
       /\ \A f \in CallFields : held[f] = IF f \in DOMAIN fields THEN fields[f] ELSE call[c][f]
  BY <1>1, <1>3, FieldsSet
<1> HIDE DEF held, bytes, reader, first
<1>13. /\ held.at = "streaming" /\ held.request = call[c].request /\ held.model = call[c].model
       /\ held.name = call[c].name /\ held.reserved = call[c].reserved
       /\ held.body = call[c].body /\ held.lines = call[c].lines /\ held.sent = last
       /\ held.reader = next /\ held.lost = lost /\ held.halved = halved
       /\ held.quantity = call[c].quantity /\ held.amount = call[c].amount
  BY <1>1, <1>11, <1>12 DEF CallFields
<1>14. HeldShape(held)
  BY <1>1, <1>12, <1>13 DEF Held, HeldShape
<1>15. HeldModel(held) /\ HeldName(held) /\ HeldReservation(held)
  BY <1>1, <1>13 DEF Held, HeldModel, HeldName, HeldReservation
<1>16. HeldAnswer(held)
  BY <1>1, <1>13 DEF Held, HeldAnswer
<1>17. HeldStream(held)
  BY <1>7, <1>9, <1>10, <1>13 DEF HeldStream
<1>18. Held(call'[c])
  BY <1>14, <1>15, <1>16, <1>17 DEF Held, held
<1>19. ChargedByModel(c)'
  BY <1>13 DEF ChargedByModel, At, held
<1> QED BY <1>1, <1>12, <1>18, <1>19, OneCall

(* Whatever a call is settled by, no count of it is negative. *)
LEMMA UsageIs ==
  ASSUME NEW c \in Calls, Held(call[c])
  PROVE  IsUsage(UsageOf(c))
<1> DEFINE payload == Payload(c)
           reader == call[c].reader
<1>1. payload \in Payloads /\ call[c].request.endpoint \in Endpoints
  BY MeteredAssumption DEF Held, HeldShape, Payload
<1>2. payload.prompt \in Nat /\ payload.chars \in Nat /\ EstimatedSeconds(payload) \in Nat
  BY <1>1 DEF Payloads, EstimatedSeconds, Default, Positive
<1>3. /\ StreamInv(call[c].lines, call[c].sent, reader, call[c].lost, call[c].halved)
      /\ \A l \in DOMAIN call[c].lines : IsUsage(call[c].lines[l].usage)
      /\ IsUsage(call[c].body.usage) /\ call[c].body.results \in Int
  BY DEF Held, HeldStream, HeldAnswer
<1>4. reader.text \in Nat
  BY <1>3, TextIsWhole
<1>5. reader.usage # NoUsage => IsUsage(reader.usage)
  BY <1>3, UsageFound
<1> HIDE DEF payload, reader
<1>6. IsUsage(NoUsage)
  BY DEF IsUsage, NoUsage, CountFields
<1>7. IsUsage(EstimatedTokens(c))
  <2>1. TokensOf(reader.text) \in Nat
    BY <1>4 DEF TokensOf
  <2>2. payload.prompt + TokensOf(reader.text) \in Nat
    BY <1>2, <2>1
  <2>3. EstimatedTokens(c) = [prompt_tokens |-> payload.prompt,
                              completion_tokens |-> TokensOf(reader.text),
                              total_tokens |-> payload.prompt + TokensOf(reader.text)]
    BY DEF EstimatedTokens, payload, reader
  <2> QED BY <1>2, <2>1, <2>2, <2>3 DEF IsUsage
<1>8. IsUsage([char_count |-> payload.chars])
  BY <1>2 DEF IsUsage
<1>9. IsUsage(StreamedUsage(c))
  BY <1>5, <1>6, <1>7, <1>8 DEF StreamedUsage, payload, reader
<1>10. IsUsage(ImageUsage(call[c].body, call[c].model.mode, payload))
  <2>1. call[c].body.results >= 0 => IsUsage([image_count |-> call[c].body.results])
    BY <1>3 DEF IsUsage
  <2>2. IsUsage([image_count |-> 1]) /\ IsUsage([x \in {} |-> 0])
    BY DEF IsUsage
  <2> QED BY <1>3, <1>8, <2>1, <2>2 DEF ImageUsage
<1>11. IsUsage(VideoUsage(payload))
  <2> DEFINE usage == VideoUsage(payload)
  <2>1. DOMAIN usage = {"second_count", "resolution", "sound"}
        /\ usage["second_count"] = EstimatedSeconds(payload)
    BY DEF VideoUsage
  <2> HIDE DEF usage
  <2>2. \A field \in CountFields \cap DOMAIN usage : field = "second_count"
    BY <2>1 DEF CountFields
  <2>3. IsUsage(usage)
    BY <1>2, <2>1, <2>2 DEF IsUsage
  <2> QED BY <2>3 DEF usage
<1> QED BY <1>1, <1>3, <1>9, <1>10, <1>11 DEF UsageOf, Endpoints, payload

LEMMA SettledCall ==
  ASSUME Inv, NEW c \in Calls, SettleCall(c) PROVE Inv'
<1> DEFINE model == call[c].model
           usage == UsageOf(c)
           unit == BillingUnit(model.mode)
           quantity == Quantity(model.mode, usage)
           amount == UsageCost(model, Used(model.mode, usage))
           fields == [at |-> "settled", unit |-> unit, quantity |-> quantity, amount |-> amount]
           held == call'[c]
<1>1. Held(call[c]) /\ DOMAIN call[c] = CallFields /\ DOMAIN call = Calls /\ call[c].at = "answered"
      /\ UNCHANGED catalogueVars
  BY HeldAt DEF SettleCall, At, ControlPoints
<1>2. Set(c, fields)
  BY DEF SettleCall, PriceSheet
<1>3. IsRow(model) /\ IsUsage(usage)
  BY <1>1, UsageIs DEF Held, HeldModel
<1>4. quantity \in Nat /\ Counts(Used(model.mode, usage))
  BY <1>3, UsedCounts
<1>5. amount \in Nat
  <2> DEFINE used == Used(model.mode, usage)
  <2>1. model.mode \in {"token", "per_image", "per_10k_chars", "per_second"}
    BY <1>3, RowIs DEF BillingModes
  <2> HIDE DEF model, usage, used
  <2>2. Counts(used)
    BY <1>4 DEF used
  <2>3. NoLess(model.mode, used, used)
    BY <2>1, <2>2, NoLessItself DEF BillingModes
  <2>4. UsageCost(model, used) \in Nat
    BY <1>3, <2>2, <2>3, CostInOrder
  <2> QED BY <2>4 DEF used
<1> HIDE DEF unit, quantity, amount
<1>6. /\ DOMAIN fields = {"at", "unit", "quantity", "amount"} /\ fields["at"] = "settled"
      /\ fields["quantity"] = quantity /\ fields["amount"] = amount
  OBVIOUS
<1> HIDE DEF fields
<1>7. /\ DOMAIN call' = Calls /\ \A d \in Calls : d # c => call'[d] = call[d]
      /\ DOMAIN held = CallFields
      /\ \A f \in CallFields : held[f] = IF f \in DOMAIN fields THEN fields[f] ELSE call[c][f]
  BY <1>1, <1>2, FieldsSet
<1> HIDE DEF held, model, usage
<1>8. /\ held.at = "settled" /\ held.request = call[c].request /\ held.model = call[c].model
      /\ held.name = call[c].name /\ held.reserved = call[c].reserved
      /\ held.body = call[c].body /\ held.lines = call[c].lines /\ held.sent = call[c].sent
      /\ held.reader = call[c].reader /\ held.lost = call[c].lost
      /\ held.halved = call[c].halved /\ held.quantity = quantity /\ held.amount = amount
  BY <1>6, <1>7 DEF CallFields
<1>9. HeldShape(held)
  BY <1>1, <1>4, <1>5, <1>7, <1>8 DEF Held, HeldShape, ControlPoints
<1>10. HeldModel(held) /\ HeldName(held) /\ HeldReservation(held)
  BY <1>1, <1>8 DEF Held, HeldModel, HeldName, HeldReservation
<1>11. HeldAnswer(held) /\ HeldStream(held)
  BY <1>1, <1>8 DEF Held, HeldAnswer, HeldStream
<1>12. Held(call'[c])
  BY <1>9, <1>10, <1>11 DEF Held, held
<1>13. ChargedByModel(c)'
  <2>1. UsageOf(c)' = UsageOf(c)
    BY <1>8, UsageKept DEF held
  <2>2. /\ call'[c].amount = amount /\ call'[c].quantity = quantity
        /\ call'[c].model = call[c].model
    BY <1>8 DEF held
  <2> QED BY <2>1, <2>2 DEF ChargedByModel, amount, quantity, model, usage
<1> QED BY <1>1, <1>7, <1>12, <1>13, OneCall

LEMMA Stuttered ==
  ASSUME Inv, UNCHANGED call, CatalogueInv' PROVE Inv'
<1>1. ASSUME NEW c \in Calls PROVE ChargedByModel(c)'
  <2>1. UsageOf(c)' = UsageOf(c)
    BY UsageKept
  <2> QED BY <2>1 DEF ChargedByModel, Inv, At
<1> QED BY <1>1 DEF Inv

LEMMA Steps ==
  Inv /\ [Next]_vars => Inv'
<1> SUFFICES ASSUME Inv, [Next]_vars PROVE Inv'
  OBVIOUS
<1>1. CASE CatalogueNext /\ UNCHANGED call
  BY <1>1, CatalogueSteps, Stuttered DEF Inv
<1>2. ASSUME NEW c \in Calls, NEW q \in Requests, RouteCall(c, q) PROVE Inv'
  BY <1>2, Routed
<1>3. ASSUME NEW c \in Calls, AdmitCall(c) PROVE Inv'
  BY <1>3, Admitted
<1>4. ASSUME NEW c \in Calls, UpstreamFails(c) PROVE Inv'
  BY <1>4, Failed
<1>5. ASSUME NEW c \in Calls, UpstreamAnswers(c) PROVE Inv'
  BY <1>5, Answered
<1>6. ASSUME NEW c \in Calls, DeliverChunk(c) PROVE Inv'
  BY <1>6, Delivered
<1>7. ASSUME NEW c \in Calls, EndStream(c) PROVE Inv'
  <2>1. UNCHANGED catalogueVars /\ Set(c, [at |-> "answered"]) /\ call[c].at = "streaming"
    BY <1>7 DEF EndStream, At
  <2> QED BY <2>1, Moved
<1>8. ASSUME NEW c \in Calls, BreakStream(c) PROVE Inv'
  <2>1. UNCHANGED catalogueVars /\ call[c].at = "streaming"
    BY <1>8 DEF BreakStream, At
  <2>2. Set(c, [at |-> "abandoned"]) \/ Set(c, [at |-> "answered"])
    BY <1>8 DEF BreakStream
  <2> QED BY <2>1, <2>2, Moved
<1>9. ASSUME NEW c \in Calls, SettleCall(c) PROVE Inv'
  BY <1>9, SettledCall
<1>10. ASSUME NEW c \in Calls, FailCall(c) PROVE Inv'
  <2>1. UNCHANGED catalogueVars /\ Set(c, [at |-> "failed"]) /\ call[c].at = "answered"
    BY <1>10 DEF FailCall, At
  <2> QED BY <2>1, Moved
<1>11. CASE UNCHANGED vars
  <2>1. UNCHANGED call /\ CatalogueInv'
    BY <1>11 DEF vars, Inv, CatalogueInv, Exists
  <2> QED BY <2>1, Stuttered
<1> QED BY <1>1, <1>2, <1>3, <1>4, <1>5, <1>6, <1>7, <1>8, <1>9, <1>10, <1>11 DEF Next

LEMMA Always ==
  Spec => []Inv
<1>1. Init => Inv
  BY Starts
<1>2. Inv /\ [Next]_vars => Inv'
  BY Steps
<1> QED BY <1>1, <1>2, PTL DEF Spec

-----------------------------------------------------------------------------
(* The state of every call, whatever the catalogue becomes: amounts and    *)
(* quantities that are not negative, and a stream buffer that is never     *)
(* left over MAX_STREAM_PENDING_BYTES by forward_stream.                   *)
THEOREM TypeHolds == Spec => []TypeOK
<1>1. Inv => TypeOK
  <2> SUFFICES ASSUME Inv PROVE TypeOK
    OBVIOUS
  <2>1. ASSUME NEW code \in AllCodes, Exists(code) PROVE IsRow(catalogue[code])
    BY <2>1 DEF Inv, CatalogueInv
  <2>2. edits \in 0 .. MaxEdits
    BY DEF Inv, CatalogueInv
  <2>3. ASSUME NEW c \in Calls, call[c] # NewCall
        PROVE  /\ call[c].at \in ControlPoints /\ call[c].request \in Requests
               /\ (call[c].model # NoModel => IsRow(call[c].model))
               /\ call[c].reserved \in Int /\ call[c].amount \in Nat /\ call[c].quantity \in Nat
               /\ call[c].sent \in Nat /\ Len(call[c].reader.pending) <= PendingLimit
    <3>1. Held(call[c])
      BY <2>3 DEF Inv
    <3> QED BY <3>1 DEF Held, HeldShape, HeldModel, HeldReservation, HeldStream
  <2> QED BY <2>1, <2>2, <2>3 DEF TypeOK
<1> QED BY <1>1, Always, PTL

(* _build_upstream_payload_bytes and the native endpoints: whatever the    *)
(* administrators rename, the upstream is asked for the model whose prices *)
(* the call is charged by, with blanks around its name only if a client of *)
(* a native endpoint put them there.                                       *)
THEOREM UpstreamNamedHolds == Spec => []UpstreamNamed
<1>1. Inv => UpstreamNamed
  <2> SUFFICES ASSUME Inv, NEW c \in Calls, ~At(c, "new"), call[c].name # NoName
               PROVE  /\ call[c].name.code = call[c].model.upstream
                      /\ call[c].name.blanks =>
                           call[c].request.blanks /\ call[c].request.endpoint # "chat"
    BY DEF UpstreamNamed
  <2>1. Held(call[c])
    BY DEF Inv, At, NewCall
  <2>2. /\ call[c].at # "refused"
        /\ call[c].name = NameSent(call[c].request.endpoint, NameAsked(call[c].request), call[c].model)
    BY <2>1 DEF Held, HeldName
  <2>3. call[c].request.endpoint = "chat" \/ call[c].model.upstream = call[c].request.code
    BY <2>1, <2>2 DEF Held, HeldModel
  <2>4. CASE call[c].request.endpoint = "chat"
    BY <2>2, <2>4 DEF NameSent, Bare
  <2>5. CASE call[c].request.endpoint # "chat"
    BY <2>2, <2>3, <2>5 DEF NameSent, NameAsked
  <2> QED BY <2>4, <2>5
<1> QED BY <1>1, Always, PTL

(* What a call that kept to its estimate costs, and the estimate.          *)
LEMMA KeptCostsNoMore ==
  ASSUME NEW c \in Calls, Held(call[c]), IsRow(call[c].model), KeptToEstimate(c)
  PROVE  LET model == call[c].model
             used == Used(model.mode, UsageOf(c))
             estimate == EstimatedUse(model.mode, Payload(c))
         IN  /\ UsageCost(model, used) \in Nat /\ UsageCost(model, estimate) \in Nat
             /\ UsageCost(model, used) <= UsageCost(model, estimate)
<1> DEFINE model == call[c].model
           payload == Payload(c)
           used == Used(model.mode, UsageOf(c))
           estimate == EstimatedUse(model.mode, payload)
<1>1. payload \in Payloads
  BY MeteredAssumption DEF Held, HeldShape, Payload
<1>2. model.mode \in {"token", "per_image", "per_10k_chars", "per_second"}
  BY RowIs DEF BillingModes
<1>3. Counts(used)
  BY UsageIs, UsedCounts
<1>4. /\ used.prompt <= estimate.prompt /\ used.completion <= estimate.completion
      /\ used.images <= estimate.images /\ used.chars <= estimate.chars
      /\ used.seconds <= estimate.seconds
      /\ used.resolution = estimate.resolution /\ used.sound = estimate.sound
  BY DEF KeptToEstimate
<1> HIDE DEF model, payload, used
<1>5. model.mode = "token" => EstimatedCompletion(payload) >= 0
  <2> SUFFICES ASSUME model.mode = "token" PROVE EstimatedCompletion(payload) >= 0
    OBVIOUS
  <2>1. estimate.completion = EstimatedCompletion(payload)
    BY DEF EstimatedUse, Nothing
  <2>2. EstimatedCompletion(payload) \in Int
    BY <1>1 DEF EstimatedCompletion, Default, Payloads
  <2> QED BY <1>3, <1>4, <2>1, <2>2 DEF Counts
<1>6. Counts(estimate)
  BY <1>1, <1>2, <1>5, EstimateCounts DEF BillingModes
<1>7. NoLess(model.mode, used, estimate)
  BY <1>2, <1>4 DEF NoLess
<1> HIDE DEF estimate
<1>8. IsRow(model)
  BY DEF model
<1>9. /\ UsageCost(model, used) \in Nat /\ UsageCost(model, estimate) \in Nat
      /\ UsageCost(model, used) <= UsageCost(model, estimate)
  BY <1>3, <1>6, <1>7, <1>8, CostInOrder
<1> QED BY <1>9 DEF model, payload, used, estimate

(* estimate_reserved_amount and calculate_usage_cost: for every price      *)
(* sheet, request and usage, a call that used what was estimated of it, or *)
(* less, costs no more than was reserved for it when it was admitted,      *)
(* whatever happened to the catalogue in between.                          *)
THEOREM ReservationCoversHolds == Spec => []ReservationCovers
<1>1. Inv => ReservationCovers
  <2> SUFFICES ASSUME Inv, NEW c \in Calls, Settled(c), KeptToEstimate(c)
               PROVE  call[c].amount <= call[c].reserved
    BY DEF ReservationCovers
  <2> DEFINE model == call[c].model
             cost == UsageCost(model, Used(model.mode, UsageOf(c)))
             estimated == UsageCost(model, EstimatedUse(model.mode, Payload(c)))
  <2>1. Held(call[c]) /\ call[c].at = "settled" /\ ChargedByModel(c)
    BY HeldAt DEF Inv, Settled, At, ControlPoints
  <2>2. IsRow(call[c].model)
    BY <2>1 DEF Held, HeldModel
  <2>3. cost \in Nat /\ estimated \in Nat /\ cost <= estimated
    BY <2>1, <2>2, KeptCostsNoMore
  <2>4. call[c].amount = cost
    BY <2>1 DEF ChargedByModel, At
  <2>5. call[c].reserved = RoundHalfEven(11 * estimated, 10)
    BY <2>1 DEF Held, HeldReservation, ReservedAmount, Payload
  <2> HIDE DEF cost, estimated
  <2>6. RoundHalfEven(11 * estimated, 10) \in Int /\ estimated <= RoundHalfEven(11 * estimated, 10)
    BY <2>3, TenthMore
  <2> QED BY <2>3, <2>4, <2>5, <2>6
<1> QED BY <1>1, Always, PTL

(* infer_billing_quantity: the quantity a charge was made for is shown     *)
(* with it, also when its model was edited, renamed or deleted since.      *)
THEOREM QuantityOutlivesModelHolds == Spec => []QuantityOutlivesModel
<1>1. Inv => QuantityOutlivesModel
  <2> SUFFICES ASSUME Inv, NEW c \in Calls, At(c, "settled"),
                      Quantity(call[c].model.mode, UsageOf(c)) > 0 \/ call[c].amount = 0
               PROVE  ShownQuantity(c) = Quantity(call[c].model.mode, UsageOf(c))
    BY DEF QuantityOutlivesModel, Settled
  <2>1. call[c].quantity = Quantity(call[c].model.mode, UsageOf(c))
    BY DEF Inv, ChargedByModel
  <2>2. call[c].quantity \in Nat /\ call[c].amount \in Nat
    BY HeldAt DEF At, ControlPoints, Held, HeldShape
  <2> DEFINE log == [quantity |-> call[c].quantity, amount |-> call[c].amount]
  <2>3. log.quantity = call[c].quantity /\ log.amount = call[c].amount
    OBVIOUS
  <2> HIDE DEF log
  <2>4. \A mode, items : InferredQuantity(log, mode, items) = call[c].quantity
    BY <2>1, <2>2, <2>3 DEF InferredQuantity, QuantityOfAmount
  <2>5. \E mode, items : ShownQuantity(c) = InferredQuantity(log, mode, items)
    BY DEF ShownQuantity, log
  <2> QED BY <2>1, <2>4, <2>5
<1> QED BY <1>1, Always, PTL

(* forward_stream: for every stream, every way to cut it into chunks and   *)
(* every size of the buffer, the id, the usage and the text that were read *)
(* are those of the complete lines sent so far, but for the lines that     *)
(* were in a buffer when it overflowed and for characters cut in half.     *)
THEOREM StreamReadAsWholeHolds == Spec => []StreamReadAsWhole
<1>1. Inv => StreamReadAsWhole
  <2> SUFFICES ASSUME Inv, NEW c \in Calls, At(c, "streaming") \/ At(c, "answered")
               PROVE  LET lines == call[c].lines
                          upto == LinesSent(c)
                          read == Readable(lines, upto, call[c].lost)
                          cut == {i \in call[c].halved : StreamBytes(lines)[i].line \in read}
                      IN  /\ call[c].reader.id = LastId(lines, upto, call[c].lost)
                          /\ call[c].reader.usage = LastUsage(lines, upto, call[c].lost)
                          /\ call[c].reader.text + Cardinality(cut)
                               = TextLength(lines, upto, call[c].lost)
    BY DEF StreamReadAsWhole
  <2>1. Held(call[c])
    BY HeldAt DEF At, ControlPoints
  <2>2. StreamInv(call[c].lines, call[c].sent, call[c].reader, call[c].lost, call[c].halved)
    BY <2>1 DEF Held, HeldStream
  <2> DEFINE lines == call[c].lines
             lost == call[c].lost
             reader == call[c].reader
             upto == LinesIn(StreamBytes(lines), call[c].sent)
             cut == CutIn(StreamBytes(lines), call[c].halved, Readable(lines, upto, lost))
  <2>3. LinesSent(c) = upto
    BY DEF LinesSent, LinesIn
  <2>4. reader.id = LastId(lines, upto, lost) /\ reader.usage = LastUsage(lines, upto, lost)
    BY <2>2 DEF StreamInv, ReadSoFar
  <2>5. reader.text + Cardinality(cut) = TextLength(lines, upto, lost)
    BY <2>2, TextIsWhole
  <2>6. cut = {i \in call[c].halved :
                 StreamBytes(call[c].lines)[i].line \in Readable(call[c].lines, upto, call[c].lost)}
    BY DEF CutIn
  <2> HIDE DEF upto, cut
  <2> QED BY <2>3, <2>4, <2>5, <2>6
<1> QED BY <1>1, Always, PTL
=============================================================================
