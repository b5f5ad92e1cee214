--------------------------- MODULE MCMeteredCall ---------------------------
(* One call of any of ten requests, while an administrator edits models.   *)
EXTENDS MeteredCall

Ask == [prompt |-> 10, maxTokens |-> 20, n |-> 0, chars |-> 0, duration |-> 0,
        resolution |-> "none", audio |-> "none", audioUrl |-> FALSE]
Request(endpoint, code, stream, payload) ==
  [endpoint |-> endpoint, code |-> code, blanks |-> FALSE, stream |-> stream,
   payload |-> payload]

ChatPlain == Request("chat", "qwen-plus", FALSE, Ask)
ChatStream == [Request("chat", "minimax-m2.5", TRUE, Ask) EXCEPT !.blanks = TRUE]
ChatUnbounded == Request("chat", "qwen-flash", FALSE, [Ask EXCEPT !.maxTokens = 0])
Images == Request("multimodal", "qwen-image-2.0", FALSE, [Ask EXCEPT !.n = 2])
Speech == Request("multimodal", "qwen3-tts-vd-2026-01-26", TRUE, [Ask EXCEPT !.chars = 7])
Transcript == Request("multimodal", "qwen3-asr-flash", FALSE, [Ask EXCEPT !.duration = 3])
Video == Request("video", "wan2.6-i2v-flash", FALSE,
                 [Ask EXCEPT !.duration = 5, !.resolution = "720P", !.audio = "off"])
VideoByDefault == Request("video", "wan2.6-i2v-flash", FALSE, [Ask EXCEPT !.duration = 5])
NativeChat == Request("multimodal", "minimax-m2.5", FALSE, Ask)
NativeBlanks == [Request("multimodal", "qwen-image-2.0-pro", FALSE, Ask) EXCEPT !.blanks = TRUE]

MCRequests == {ChatPlain, ChatStream, ChatUnbounded, Images, Speech, Transcript, Video,
               VideoByDefault, NativeChat, NativeBlanks}

Tokens(prompt, completion) ==
  [prompt_tokens |-> prompt, completion_tokens |-> completion, total_tokens |-> prompt + completion]
Body(usage, results) == [usage |-> usage, results |-> results]

MCBodies ==
  [q \in MCRequests |->
     CASE q \in {ChatPlain, ChatUnbounded} ->
            {Body(Tokens(10, 20), -1), Body(Tokens(9, 1500), -1), Body(NoUsage, -1)}
       [] q \in {Images, NativeBlanks} -> {Body([image_count |-> 2], -1), Body(NoUsage, 1), Body(NoUsage, -1)}
       [] q = Transcript -> {Body([seconds |-> 3], -1), Body(NoUsage, -1)}
       [] q = NativeChat -> {Body(Tokens(10, 20), -1)}
       [] OTHER -> {NoBody}]

Comment == Line(FALSE, "none", NoUsage, 0, TRUE)
Text(id) == Line(TRUE, id, NoUsage, 1, TRUE)
LongText == Line(TRUE, "up1", NoUsage, 2, TRUE)
Usage(usage, ends) == Line(TRUE, "up1", usage, 0, ends)

MCStreams ==
  [q \in MCRequests |->
     CASE q = ChatStream -> {<<Text("up1"), Usage(Tokens(10, 20), TRUE), Comment>>,
                             <<Text("none"), LongText, Usage(Tokens(10, 20), FALSE)>>,
                             <<Usage(Tokens(10, 1), TRUE), Usage(Tokens(10, 2), TRUE)>>}
       [] q = Speech -> {<<Text("up1"), Usage([characters |-> 7], TRUE)>>, <<Text("none")>>}
       [] OTHER -> {}]

Dear == 60000
MCCodes == {"new"}
MCCreations == {Single("new", "image", "per_image", 300000), Single("old", "image", "per_image", 300000)}
MCChanges ==
  {[inPrice |-> Dear, outPrice |-> Dear],
   [inPrice |-> Dear, outPrice |-> Dear, defaults |-> TRUE],
   [capability |-> "image"], [upstream |-> "new"],
   [items |-> <<>>], [mode |-> "per_image"], [provider |-> "tencent"]}
=============================================================================
