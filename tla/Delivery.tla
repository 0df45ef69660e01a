------------------------------ MODULE Delivery ------------------------------
(***************************************************************************)
(* One message of a chat and everything tellm says about it: its attachments  *)
(* are downloaded, the provider is asked, and the answer goes out in pieces,   *)
(* each tried as rich text, then HTML, then plain text (content_parts_from_    *)
(* message and send_response in src/model_turn.rs, handle_model_message and    *)
(* the worker's error reply in src/runtime.rs, send_message, send_photo,       *)
(* send_model_picker and get_file_bytes in tellm-telegram).                    *)
(*                                                                         *)
(* Telegram and the network are the environment: a request may be refused,     *)
(* may get lost, or may take effect although its answer is lost.  A text is a  *)
(* sequence of characters of three classes; a piece of it is <<first, last>>.  *)
(* What the markup looks like is left out: Telegram may refuse any of it.      *)
(***************************************************************************)
EXTENDS Integers, Sequences, SequencesExt

CONSTANTS
  Inputs,     \* what a message may carry: sequences of attachments
  Answers,    \* what a provider may answer: [text, images]
  RichSize,   \* RICH_CHUNK_SIZE
  TextSize,   \* TEXT_CHUNK_SIZE
  TextCap,    \* Telegram's limit on a sendMessage text, in UTF-16 units
  MaxBytes,   \* MAX_ATTACHMENT_BYTES, in units
  PickerText  \* the reply to /model

Unknown == -1    \* a size that nobody announced
Characters == {"letter", "newline", "astral"}

ASSUME DeliveryConstants ==
  /\ {RichSize, TextSize, TextCap, MaxBytes} \subseteq Nat \ {0}
  /\ Inputs \subseteq Seq([announced : Nat \cup {Unknown}, length : Nat \cup {Unknown}, bytes : Nat])
  /\ Answers \subseteq [text : Seq(Characters), images : Seq({"image", "broken"})]
  /\ PickerText \in Seq(Characters) /\ \E i \in DOMAIN PickerText : PickerText[i] # "newline"

Kinds == {"notice", "answer", "providerError", "failure", "picker"}
Errors == {"none", "markup", "noMethod", "other"}

VARIABLES
  input,       \* attachments of the message; what each really holds
  answer,      \* what the provider says
  parts,       \* attachments that are content parts
  buffer,      \* bytes of the body read so far, or Unknown before it
  pc,          \* what the worker is doing
  out,         \* the send_message under way
  error,       \* the last answer of Telegram
  shown,       \* pieces of each reply that Telegram has shown
  photos,      \* images that Telegram has shown
  pickerShown, \* Telegram has shown the reply keyboard
  attempted    \* replies begun so far

downloadVars == <<parts, buffer>>
screenVars == <<shown, photos, pickerShown>>
deliveryVars == <<input, answer, downloadVars, pc, out, error, screenVars, attempted>>

-----------------------------------------------------------------------------
(* Texts.                                                                   *)

Blank(text) == \A i \in DOMAIN text : text[i] = "newline"

\* str::trim, as the first and the last position that stay.
Trimmed(text) ==
  LET inked == {i \in DOMAIN text : text[i] # "newline"}
  IN  <<Min(inked), Max(inked)>>

Body(kind) ==
  CASE kind = "answer" /\ ~Blank(answer.text) -> answer.text
    [] kind = "picker" -> PickerText
    [] OTHER -> <<"letter">>          \* one short line, or "(empty response)"

Size(piece) == piece[2] - piece[1] + 1

\* The piece that chunk_text cuts off at position i: it ends after the last
\* newline in reach, unless that is the character at i.
Cut(text, i, last, size) ==
  LET reach == Min({i + size - 1, last})
      newlines == {j \in i .. reach : text[j] = "newline"}
  IN  IF reach = last \/ newlines = {} \/ Max(newlines) = i
      THEN <<i, reach>> ELSE <<i, Max(newlines)>>

\* chunk_text on the characters of a piece.
ChunkText(text, piece, size) ==
  LET cuts[i \in Nat] ==
        LET first == Cut(text, i, piece[2], size)
        IN  IF i > piece[2] THEN <<>> ELSE <<first>> \o cuts[first[2] + 1]
  IN  cuts[piece[1]]

Units(text, piece) ==
  Size(piece) + Cardinality({i \in piece[1] .. piece[2] : text[i] = "astral"})

-----------------------------------------------------------------------------
NoReply == [kind |-> "none", rich |-> <<>>, legacy |-> <<>>, form |-> "rich"]

Sending(kind) ==
  [kind |-> kind, rich |-> ChunkText(Body(kind), Trimmed(Body(kind)), RichSize),
   legacy |-> <<>>, form |-> "rich"]

DeliveryInit ==
  /\ input \in Inputs
  /\ answer \in Answers
  /\ parts = <<>> /\ buffer = Unknown
  /\ pc \in {"download", "status"}
  /\ out = NoReply /\ error = "none"
  /\ shown = [k \in Kinds |-> <<>>]
  /\ photos = <<>> /\ pickerShown = FALSE
  /\ attempted = {}

Reply(kind) ==
  /\ pc' = "sending"
  /\ out' = Sending(kind)
  /\ attempted' = attempted \cup {kind}
  /\ error' = "none"

-----------------------------------------------------------------------------
(* Attachments: download_attachment and get_file_bytes, one at a time.       *)

Downloading == pc = "download" /\ Len(parts) < Len(input)
Attachment == input[Len(parts) + 1]

\* The error ends the turn, and the worker reports it.
DownloadFails == Reply("failure") /\ buffer' = Unknown

\* The announced size is checked before, Content-Length after the request.
AskForFile ==
  /\ Downloading /\ buffer = Unknown
  /\ \/ /\ Attachment.announced <= MaxBytes /\ Attachment.length <= MaxBytes
        /\ buffer' = 0
        /\ UNCHANGED <<pc, out, attempted, error>>
     \/ DownloadFails     \* one of the two is too large, or a request failed
  /\ UNCHANGED <<input, answer, parts, screenVars>>

\* Mutant: looks at what has been read, and lets the next chunk in.
FitsBefore(chunk) == buffer <= MaxBytes

Fits(chunk) == buffer + chunk <= MaxBytes

ReadChunk ==
  /\ Downloading /\ buffer # Unknown
  /\ \E chunk \in 1 .. Attachment.bytes - buffer :
       \/ Fits(chunk) /\ buffer' = buffer + chunk /\ UNCHANGED <<pc, out, attempted, error>>
       \/ ~Fits(chunk) /\ DownloadFails
  /\ UNCHANGED <<input, answer, parts, screenVars>>

\* The status of the answer and a text document's encoding are looked at now.
FileDone ==
  /\ Downloading /\ buffer = Attachment.bytes
  /\ \/ /\ parts' = Append(parts, buffer)
        /\ buffer' = Unknown
        /\ UNCHANGED <<pc, out, attempted, error>>
     \/ DownloadFails /\ UNCHANGED parts
  /\ UNCHANGED <<input, answer, screenVars>>

DownloadBreaks ==
  /\ Downloading /\ buffer # Unknown
  /\ DownloadFails
  /\ UNCHANGED <<input, answer, parts, screenVars>>

-----------------------------------------------------------------------------
(* The turn.                                                                *)

\* The request is built, with or without a notice that the history was reset,
\* or cannot be: the model is gone, or the chat was revoked.
Prepare ==
  /\ pc = "download" /\ Len(parts) = Len(input)
  /\ \/ pc' = "ask" /\ UNCHANGED <<out, attempted, error>>
     \/ Reply("notice")
     \/ Reply("failure")
  /\ UNCHANGED <<input, answer, downloadVars, screenVars>>

\* Mutant: an answer with images is an answer without text.
NoImages == answer.images = <<>>

HasText == ~Blank(answer.text) \/ answer.images = <<>>

\* The answer is sent if the turn could be committed; an error of the provider
\* if it could be undone.  If not, the room was reset meanwhile (see ChatTurns).
ProviderAnswers ==
  /\ pc = "ask"
  /\ \/ HasText /\ Reply("answer")
     \/ ~HasText /\ pc' = "photos" /\ attempted' = attempted \cup {"answer"} /\ UNCHANGED <<out, error>>
     \/ Reply("providerError")
     \/ pc' = "dropped" /\ UNCHANGED <<out, attempted, error>>
  /\ UNCHANGED <<input, answer, downloadVars, screenVars>>

-----------------------------------------------------------------------------
(* send_message.                                                            *)

Piece == IF out.legacy # <<>> THEN Head(out.legacy) ELSE Head(out.rich)

\* Telegram shows the piece, and says so or not.
Accepted == shown' = [shown EXCEPT ![out.kind] = Append(@, Piece)]

\* What Telegram may say of a piece it does not show.  Texts that are blank or
\* too long are refused for that, and never for their markup.
Refusals ==
  LET text == Body(out.kind)
      blank == \A i \in Piece[1] .. Piece[2] : text[i] = "newline"
  IN  CASE out.form = "rich" -> {"markup", "noMethod", "other"}
        [] out.form = "html" /\ ~blank /\ Units(text, Piece) <= TextCap -> {"markup", "other"}
        [] OTHER -> {"other"}

Showable ==
  LET text == Body(out.kind)
  IN  /\ \E i \in Piece[1] .. Piece[2] : text[i] # "newline"
      /\ out.form = "rich" \/ Units(text, Piece) <= TextCap

\* One request ends: the piece is shown, shown but not confirmed, or refused.
Answered(requests) ==
  /\ \/ Showable /\ Accepted /\ error' = "none"
     \/ Showable /\ Accepted /\ error' = "other"
     \/ error' \in Refusals /\ UNCHANGED shown
  /\ out' = requests[error']

\* Mutant: any error leads to the next form.
FallbackFromAll(e) == e # "none"

ShouldFallbackFromRich(e) == e \in {"markup", "noMethod"}
ShouldFallbackFromHtml(e) == e = "markup"

PieceDone ==
  IF out.legacy = <<>> THEN [out EXCEPT !.rich = Tail(@)]
  ELSE IF Len(out.legacy) > 1 THEN [out EXCEPT !.legacy = Tail(@), !.form = "html"]
  ELSE [out EXCEPT !.legacy = <<>>, !.rich = Tail(@), !.form = "rich"]

GivenUp == [out EXCEPT !.rich = <<>>, !.legacy = <<>>, !.form = "failed"]

SendRich ==
  /\ pc = "sending" /\ out.form = "rich" /\ out.rich # <<>>
  /\ Answered([e \in Errors |->
       IF e = "none" THEN PieceDone
       ELSE IF ShouldFallbackFromRich(e)
       THEN [out EXCEPT !.legacy = ChunkText(Body(out.kind), Head(out.rich), TextSize),
                        !.form = "html"]
       ELSE GivenUp])
  /\ UNCHANGED <<input, answer, downloadVars, pc, photos, pickerShown, attempted>>

SendHtml ==
  /\ pc = "sending" /\ out.form = "html"
  /\ Answered([e \in Errors |->
       IF e = "none" THEN PieceDone
       ELSE IF ShouldFallbackFromHtml(e) THEN [out EXCEPT !.form = "plain"]
       ELSE GivenUp])
  /\ UNCHANGED <<input, answer, downloadVars, pc, photos, pickerShown, attempted>>

SendPlain ==
  /\ pc = "sending" /\ out.form = "plain"
  /\ Answered([e \in Errors |-> IF e = "none" THEN PieceDone ELSE GivenUp])
  /\ UNCHANGED <<input, answer, downloadVars, pc, photos, pickerShown, attempted>>

\* send_message returns, and its caller goes on: an error of an answer is
\* reported by the worker, one of a notice or of an error reply is ignored.
SendEnds ==
  /\ pc = "sending" /\ out.rich = <<>>
  /\ CASE out.kind = "notice" -> pc' = "ask" /\ UNCHANGED <<out, attempted, error>>
       [] out.kind = "answer" /\ out.form = "rich" ->
            pc' = "photos" /\ UNCHANGED <<out, attempted, error>>
       [] out.kind \in {"answer", "picker"} /\ out.form = "failed" -> Reply("failure")
       [] OTHER -> pc' = "done" /\ UNCHANGED <<out, attempted, error>>
  /\ UNCHANGED <<input, answer, downloadVars, screenVars>>

-----------------------------------------------------------------------------
(* Images, and the picker.                                                  *)

\* decode_image, the media type, sendPhoto; an error leaves the rest unsent.
SendPhoto ==
  LET i == Len(photos) + 1 IN
  /\ pc = "photos" /\ photos # answer.images
  /\ \/ answer.images[i] = "image" /\ photos' = Append(photos, "image")
        /\ UNCHANGED <<pc, out, attempted, error>>
     \/ answer.images[i] = "image" /\ photos' = Append(photos, "image") /\ Reply("failure")
     \/ UNCHANGED photos /\ Reply("failure")
  /\ UNCHANGED <<input, answer, downloadVars, shown, pickerShown>>

PhotosDone ==
  /\ pc = "photos" /\ photos = answer.images
  /\ pc' = "done"
  /\ UNCHANGED <<input, answer, downloadVars, out, error, screenVars, attempted>>

\* send_model_picker; whatever the error, the text is sent instead.
SendModelPicker ==
  /\ pc = "status"
  /\ \/ pickerShown' = TRUE /\ pc' = "done" /\ UNCHANGED <<out, attempted, error>>
     \/ pickerShown' \in BOOLEAN /\ Reply("picker")
  /\ UNCHANGED <<input, answer, downloadVars, shown, photos>>

\* The worker is aborted, or may not reply any more.
Aborted ==
  /\ pc \notin {"done", "dropped"}
  /\ pc' = "dropped"
  /\ UNCHANGED <<input, answer, downloadVars, out, error, screenVars, attempted>>

DeliveryNext ==
  \/ AskForFile \/ ReadChunk \/ FileDone \/ DownloadBreaks
  \/ Prepare \/ ProviderAnswers
  \/ SendRich \/ SendHtml \/ SendPlain \/ SendEnds
  \/ SendPhoto \/ PhotosDone \/ SendModelPicker
  \/ Aborted

DeliverySpec == DeliveryInit /\ [][DeliveryNext]_deliveryVars

-----------------------------------------------------------------------------
DeliveryTypeOK ==
  /\ parts \in Seq(Nat) /\ buffer \in Nat \cup {Unknown}
  /\ pc \in {"download", "status", "ask", "sending", "photos", "done", "dropped"}
  /\ out.form \in {"rich", "html", "plain", "failed"} /\ error \in Errors
  /\ attempted \subseteq Kinds

\* What the user sees of a reply is a beginning of it, in order, with nothing
\* missing and nothing shown twice, whatever request failed, was answered late or
\* was tried again in another form.
ShownOnceInOrder ==
  /\ \A k \in Kinds : \A i \in DOMAIN shown[k] :
       shown[k][i][1] = IF i = 1 THEN Trimmed(Body(k))[1] ELSE shown[k][i - 1][2] + 1
  /\ IsPrefix(photos, answer.images)

\* A turn that came to its end has shown the whole answer, text and images, or
\* has tried to say why not.
AnsweredOrTold ==
  pc = "done" /\ "answer" \in attempted =>
    \/ "failure" \in attempted
    \/ /\ photos = answer.images
       /\ Blank(answer.text) \/
          (shown["answer"] # <<>> /\ Last(shown["answer"])[2] = Trimmed(answer.text)[2])

\* No more than the limit is ever held, and what the provider is asked about is
\* every attachment, whole.
OnlyWholeInput ==
  /\ buffer <= MaxBytes
  /\ pc \in {"ask", "photos"} => parts = [i \in DOMAIN input |-> input[i].bytes]
=============================================================================
