--------------------------- MODULE ModelCatalogue ---------------------------
(***************************************************************************)
(* The table of models: what a new database is seeded with, what an        *)
(* administrator may make of it, and what the public listing shows.        *)
(* Names, descriptions, tags and examples are left out.                    *)
(***************************************************************************)
EXTENDS Pricing, FiniteSets

CONSTANTS
  Codes,      \* model codes an administrator may use, besides the seeded ones
  Creations,  \* the rows a creation may ask for
  Changes,    \* the changes an update may ask for: records of some columns
  MaxEdits    \* bound: administrative operations in a behaviour

NoModel == [active |-> FALSE]

VARIABLES
  catalogue,  \* [all codes -> row or NoModel], the rows of model_catalog by model_code
  edits       \* administrative operations so far

-----------------------------------------------------------------------------
Row(upstream, capability, mode, inPrice, outPrice, items) ==
  [upstream |-> upstream, provider |-> "alibaba-bailian", capability |-> capability,
   mode |-> mode, inPrice |-> inPrice, outPrice |-> outPrice, items |-> items, active |-> TRUE]

(* A price per million tokens as a pricing item shows it. *)
AsItem(price) == Item("none", "none", 100 * price)
Chat(code, inPrice, outPrice) ==
  Row(code, "chat", "token", inPrice, outPrice, <<AsItem(inPrice), AsItem(outPrice)>>)
Single(code, capability, mode, price) ==
  Row(code, capability, mode, 0, 0, <<Item("none", "none", price)>>)

OfficialCatalogue ==
  LET seeded(code) ==
    CASE code = "qwen-plus" -> Chat(code, 8000, 48000)
      [] code = "qwen-flash" -> Chat(code, 2000, 20000)
      [] code = "qwen-image-2.0" -> Single(code, "image", "per_image", 200000)
      [] code = "qwen-image-2.0-pro" -> Single(code, "image", "per_image", 500000)
      [] code = "wan2.6-i2v-flash" ->
           Row(code, "video", "per_second", 0, 0,
               <<Item("720P", "silent", 150000), Item("1080P", "silent", 250000),
                 Item("720P", "voiced", 300000), Item("1080P", "voiced", 500000)>>)
      [] code = "deepseek-v3.2" -> Chat(code, 20000, 30000)
      [] code = "kimi-k2.5" -> Chat(code, 40000, 210000)
      [] code = "glm-5" -> Chat(code, 40000, 180000)
      [] code = "minimax-m2.5" -> [Chat(code, 21000, 84000) EXCEPT !.upstream = "MiniMax-M2.5"]
      [] code = "qwen3-asr-flash" -> Single(code, "audio", "per_second", 220)
      [] code = "qwen3-tts-vd-2026-01-26" -> Single(code, "audio", "per_10k_chars", 800000)
  IN  [code \in {"qwen-plus", "qwen-flash", "qwen-image-2.0", "qwen-image-2.0-pro",
                 "wan2.6-i2v-flash", "deepseek-v3.2", "kimi-k2.5", "glm-5", "minimax-m2.5",
                 "qwen3-asr-flash", "qwen3-tts-vd-2026-01-26"} |-> seeded(code)]

AllCodes == DOMAIN OfficialCatalogue \cup Codes
Exists(code) == catalogue[code] # NoModel

(* The upstream's name for the model may be any string. *)
ColumnTypes ==
  [provider |-> {"alibaba-bailian", "tencent", "other"},
   capability |-> {"chat", "image", "audio", "video", "embedding"}, mode |-> BillingModes,
   inPrice |-> Nat, outPrice |-> Nat,
   items |-> Seq([resolution : Resolutions, sound : Sounds, price : Nat]), active |-> BOOLEAN]
IsRow(row) ==
  /\ DOMAIN row = DOMAIN ColumnTypes \cup {"upstream"}
  /\ \A column \in DOMAIN ColumnTypes : row[column] \in ColumnTypes[column]

(* What the request schemas see to, and that nobody enters a negative      *)
(* price, which they would let pass.                                       *)
ASSUME CatalogueAssumption ==
  /\ MaxEdits \in Nat
  /\ \A row \in Creations : IsRow(row)
  /\ \A change \in Changes : \A column \in DOMAIN change \cap DOMAIN ColumnTypes :
       change[column] \in ColumnTypes[column]

(* seed_official_model_catalog, on an empty table. *)
SeededCatalogue ==
  [code \in AllCodes |-> IF code \in DOMAIN OfficialCatalogue THEN OfficialCatalogue[code]
                                                             ELSE NoModel]
CatalogueInit == catalogue = SeededCatalogue /\ edits = 0

-----------------------------------------------------------------------------
(* build_default_pricing_items *)
DefaultItems(row) ==
  IF row.mode = "token" THEN <<AsItem(row.inPrice), AsItem(row.outPrice)>>
                        ELSE <<AsItem(row.outPrice)>>
Priced(row) == [row EXCEPT !.items = DefaultItems(row)]

EditRow(code, row) ==
  /\ edits < MaxEdits /\ edits' = edits + 1
  /\ catalogue' = [catalogue EXCEPT ![code] = row]

(* The rule that a model's code is the name the upstream knows. *)
Transparent(code, row) == row.upstream = code

CreateModel(code, row) ==
  /\ ~Exists(code) /\ Transparent(code, row)
  /\ EditRow(code, IF row.items = <<>> THEN Priced(row) ELSE row)

(* change is a record of the columns the request sets; one that sets the   *)
(* items to null has the field "defaults".  An empty list is stored as it  *)
(* is and stays: only null is replaced by the default items.               *)
Changed(row, change) ==
  LET changed == [column \in DOMAIN row |->
                    IF column \in DOMAIN change THEN change[column] ELSE row[column]]
  IN  IF "defaults" \in DOMAIN change THEN Priced(changed) ELSE changed

UpdateModel(code, change) ==
  /\ Exists(code) /\ Transparent(code, Changed(catalogue[code], change))
  /\ EditRow(code, Changed(catalogue[code], change))

(* An update that gives the row a new code; calls know the model by it. *)
RenameModel(code, new) ==
  /\ Exists(code) /\ ~Exists(new)
  /\ edits < MaxEdits /\ edits' = edits + 1
  /\ catalogue' = [catalogue EXCEPT ![new] = [catalogue[code] EXCEPT !.upstream = new],
                                    ![code] = NoModel]

SetActive(code, active) ==
  Exists(code) /\ EditRow(code, [catalogue[code] EXCEPT !.active = active])
DeleteModel(code) == Exists(code) /\ EditRow(code, NoModel)

CatalogueNext ==
  \/ \E code \in Codes, row \in Creations : CreateModel(code, row)
  \/ \E code \in AllCodes :
       \/ \E change \in Changes : UpdateModel(code, change)
       \/ \E new \in Codes : RenameModel(code, new)
       \/ \E active \in BOOLEAN : SetActive(code, active)
       \/ DeleteModel(code)

-----------------------------------------------------------------------------
(* The public list, and the prices it shows of a model. *)
Listed == {code \in AllCodes : catalogue[code].active}
ShownItems(row) ==
  IF row.items = <<>> THEN <<AsItem(row.inPrice), AsItem(row.outPrice)>> ELSE row.items
=============================================================================
