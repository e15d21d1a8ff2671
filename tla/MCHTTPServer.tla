---------------------------- MODULE MCHTTPServer ----------------------------
(* Instances of HTTPRequests and of UrlParams for TLC.                     *)
EXTENDS HTTPRequests

(* Up to six characters: two escapes, or one beside plus signs, blanks and *)
(* percent signs that start none.                                          *)
ShortValues == SeqOf({"2", "B", "%", "+", "x"}, 6)

(* Up to two fields.                                                       *)
SmallForms ==
  SeqOf(SeqOf({"x", "+"}, 1) \X SeqOf({"x", " ", "+", "="}, 3), 2)
=============================================================================
