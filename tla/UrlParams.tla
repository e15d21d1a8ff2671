----------------------------- MODULE UrlParams -----------------------------
(***************************************************************************)
(* EvHTTPRequest::parse_url_params (src/EvHTTPRequest.cc): the parameters  *)
(* of a query string, decoded in place. A string is a sequence of          *)
(* characters; positions count from 0, as in the code.                     *)
(*                                                                         *)
(* split and value_for_hex_char belong to phosg: split returns what lies   *)
(* between the delimiters, value_for_hex_char throws when its argument is  *)
(* not a hexadecimal digit.                                                *)
(***************************************************************************)
EXTENDS Integers, Sequences, SequencesExt

Hex == {"0", "2", "3", "5", "6", "B", "D"}

Char == Hex \cup {"%", "+", "&", "=", " ", "x", "other"}

CONSTANTS
  SizeT,   \* size_t is an integer modulo this (2^64 in the program)
  Values,  \* values of a parameter, as they are in a query
  Forms    \* sequences of keys and values

(* The character that two hexadecimal digits stand for.                    *)
CharOf(high, low) ==
  CASE <<high, low>> = <<"2", "0">> -> " "
    [] <<high, low>> = <<"2", "B">> -> "+"
    [] <<high, low>> = <<"3", "D">> -> "="
    [] <<high, low>> = <<"2", "6">> -> "&"
    [] <<high, low>> = <<"2", "5">> -> "%"
    [] OTHER -> "other"

Throws == <<"throws">>

At(s, i) == s[i + 1]

IsEscape(s, i) ==
  i + 2 < Len(s) /\ At(s, i) = "%" /\ {At(s, i + 1), At(s, i + 2)} \subseteq Hex

-----------------------------------------------------------------------------
(* The loop that decodes a value: write is write_offset, read is           *)
(* read_offset.                                                            *)
Loop == [value : Seq(Char), write : Nat, read : Nat]

Put(s, c, n) ==
  [value |-> [s.value EXCEPT ![s.write + 1] = c],
   write |-> s.write + 1, read |-> s.read + n]

(* Mutant: an escape at the end of the value is not recognised.            *)
StartsEscape_NotLast(s) ==
  At(s.value, s.read) = "%" /\ s.read < (Len(s.value) - 3) % SizeT

(* An escape is recognised by r < value.size() - 2, a difference of        *)
(* size_t; a plus is looked for at write_offset, which lags behind after   *)
(* an escape.                                                              *)
StartsEscape(s) ==
  At(s.value, s.read) = "%" /\ s.read < (Len(s.value) - 2) % SizeT

Decoded[s \in Loop] ==
  IF s.read >= Len(s.value) THEN SubSeq(s.value, 1, s.write)
  ELSE IF StartsEscape(s) THEN
    IF IsEscape(s.value, s.read)
    THEN Decoded[Put(s, CharOf(At(s.value, s.read + 1),
                               At(s.value, s.read + 2)), 3)]
    ELSE Throws
  ELSE IF At(s.value, s.write) = "+" THEN Decoded[Put(s, " ", 1)]
  ELSE Decoded[Put(s, At(s.value, s.read), 1)]

Decode(value) == Decoded[[value |-> value, write |-> 0, read |-> 0]]

FirstAt(s, c) ==
  CHOOSE i \in DOMAIN s : s[i] = c /\ \A j \in 1..(i - 1) : s[j] # c

(* What lies between the ampersands of a query.                            *)
Fields[query \in Seq(Char)] ==
  IF "&" \notin Range(query) THEN <<query>>
  ELSE LET i == FirstAt(query, "&")
       IN <<SubSeq(query, 1, i - 1)>>
            \o Fields[SubSeq(query, i + 1, Len(query))]

(* Key and value: the key is not decoded.                                  *)
Param(field) ==
  IF "=" \notin Range(field) THEN <<field, <<>> >>
  ELSE LET i == FirstAt(field, "=")
       IN <<SubSeq(field, 1, i - 1),
            Decode(SubSeq(field, i + 1, Len(field)))>>

(* The parameters, in the order of the query; the multimap forgets it.     *)
ParseUrlParams(query) ==
  IF query = <<>> THEN <<>>
  ELSE [k \in DOMAIN Fields[query] |-> Param(Fields[query][k])]

-----------------------------------------------------------------------------
(* What the standard of URLs says that a value means.                      *)
Meaning[value \in Seq(Char)] ==
  IF value = <<>> THEN <<>>
  ELSE IF IsEscape(value, 0)
  THEN <<CharOf(value[2], value[3])>> \o Meaning[SubSeq(value, 4, Len(value))]
  ELSE <<IF value[1] = "+" THEN " " ELSE value[1]>> \o Meaning[Tail(value)]

(* How a browser writes a form, a sequence of keys and values.             *)
Escaped == {"+", "=", "&", "%"}

Written(c) ==
  CASE c = " " -> <<"+">>
    [] c = "+" -> <<"%", "2", "B">>
    [] c = "=" -> <<"%", "3", "D">>
    [] c = "&" -> <<"%", "2", "6">>
    [] c = "%" -> <<"%", "2", "5">>
    [] OTHER -> <<c>>

Encoded[s \in Seq(Char)] ==
  IF s = <<>> THEN <<>> ELSE Written(s[1]) \o Encoded[Tail(s)]

Field(param) == Encoded[param[1]] \o <<"=">> \o Encoded[param[2]]

Query[form \in Seq(Seq(Char) \X Seq(Char))] ==
  IF form = <<>> THEN <<>>
  ELSE Field(form[1])
         \o (IF Tail(form) = <<>> THEN <<>> ELSE <<"&">> \o Query[Tail(form)])

(* A std::string is shorter than the largest size_t.                       *)
ASSUME ParamsAssumption ==
  /\ SizeT \in Nat /\ SizeT > 1
  /\ \A value \in Values : value \in Seq(Char) /\ Len(value) < SizeT
  /\ \A form \in Forms : /\ form \in Seq(Seq(Char) \X Seq(Char))
                          /\ Len(Query[form]) < SizeT

(* A percent sign that does not start an escape, except as one of the last *)
(* two characters: decoding throws. A value that is just "%" throws, too.  *)
Malformed(value) ==
  \E i \in 0..(Len(value) - 1) :
    /\ At(value, i) = "%" /\ ~IsEscape(value, i)
    /\ i + 2 < Len(value) \/ Len(value) = 1

(* A character of the first set before one of the second.                  *)
Before(s, first, second) ==
  \E i, j \in DOMAIN s : i < j /\ s[i] \in first /\ s[j] \in second

DecodedAsMeant(value) ==
  IF Malformed(value) THEN Decode(value) = Throws
  ELSE Decode(value) = Meaning[value] \/ Before(value, {"%"}, {"+"})

ReadBack(form) ==
  \/ ParseUrlParams(Query[form]) = form
  \/ \E k \in DOMAIN form :
       \/ Range(form[k][1]) \cap (Escaped \cup {" "}) # {}
       \/ Before(form[k][2], Escaped, {" "})

AllParamsDecoded ==
  /\ \A value \in Values : DecodedAsMeant(value)
  /\ \A form \in Forms : ReadBack(form)
=============================================================================
