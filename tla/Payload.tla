------------------------------ MODULE Payload -------------------------------
(***************************************************************************)
(* The fields of a request in one payload: base_data::join puts a          *)
(* delimiter between them, base_data::split cuts the payload again.  A     *)
(* text is a sequence of bytes, and the delimiter, the byte 27, is one     *)
(* that a person can type.                                                 *)
(***************************************************************************)
EXTENDS Integers, Sequences

CONSTANT Delimiter   \* the byte 27, ESC

\* base_data::join, the loop's body: field number k after what is there.
Glue(text, k, field) ==
  (IF k = 1 THEN text ELSE Append(text, Delimiter)) \o field

Join(vec) ==
  LET joined[k \in 0 .. Len(vec)] ==
        IF k = 0 THEN <<>> ELSE Glue(joined[k - 1], k, vec[k])
  IN joined[Len(vec)]

\* Fault: the field after a delimiter begins with the delimiter.
CutKeepsDelimiter(fields, byte) ==
  IF byte = Delimiter THEN Append(fields, <<byte>>)
  ELSE [fields EXCEPT ![Len(fields)] = Append(@, byte)]

\* One byte further: a delimiter ends the last field and begins the next.
Cut(fields, byte) ==
  IF byte = Delimiter THEN Append(fields, <<>>)
  ELSE [fields EXCEPT ![Len(fields)] = Append(@, byte)]

\* base_data::split: one field more than there are delimiters.
Split(text) ==
  LET fields[n \in 0 .. Len(text)] ==
        IF n = 0 THEN << <<>> >> ELSE Cut(fields[n - 1], text[n])
  IN fields[Len(text)]
=============================================================================
