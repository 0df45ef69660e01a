----------------------------- MODULE MCDelivery -----------------------------
(* Constants for TLC: pieces of 5 and 2 characters, attachments of up to 2 bytes, *)
(* and answers that do not fit in one piece, break at a newline, begin or end     *)
(* with one, hold only newlines, or hold characters of two UTF-16 units.          *)
EXTENDS Delivery

File(announced, length, bytes) == [announced |-> announced, length |-> length, bytes |-> bytes]

MCInputs == {
  <<>>,
  <<File(2, 2, 2)>>, <<File(2, Unknown, 2), File(Unknown, Unknown, 3)>>,
  <<File(3, 3, 3)>>, <<File(1, 3, 3)>>, <<File(0, Unknown, 2), File(1, 1, 1)>>}

Word(n) == [i \in 1 .. n |-> "letter"]
Break == <<"newline">>

MCAnswers == {
  [text |-> <<>>, images |-> <<>>], [text |-> Break, images |-> <<"image">>],
  [text |-> Word(7), images |-> <<>>],
  [text |-> Break \o Word(3) \o Break \o Word(4) \o Break, images |-> <<"image", "image">>],
  [text |-> Word(1) \o Break \o Break \o Break \o Break \o Word(3), images |-> <<"broken">>],
  [text |-> Word(1) \o <<"astral", "astral">> \o Break \o Word(1), images |-> <<"image", "broken">>]}

MCPickerText == Word(3)
=============================================================================
