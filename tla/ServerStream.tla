----------------------------- MODULE ServerStream -----------------------------
(***************************************************************************)
(* How an answer of the server reaches a window.  The server sends its     *)
(* whole buffer, a text and the null bytes behind it, and a window makes a *)
(* string of all the bytes it finds, which ends at the first null byte: of *)
(* two answers read together the second is lost, and so is one that is     *)
(* read together with the null bytes of the answer before it.              *)
(***************************************************************************)
EXTENDS Naturals, Sequences

CONSTANTS
  Padding,     \* the null bytes that follow a text
  Unread       \* the empty string

\* send(..., buffer, STANDARDBUFFERLIMIT, ...): bytes the client has not read.
SendBlock(stream, text) == stream \o <<text, Padding>>

\* QString(readAll()): the text of the bytes read together.
TextOf(piece) == IF Head(piece) = Padding THEN Unread ELSE Head(piece)

\* What is left when the first k parts of the stream have been read.
Rest(stream, k) == SubSeq(stream, k + 1, Len(stream))
==============================================================================
