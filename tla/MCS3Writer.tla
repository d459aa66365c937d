----------------------------- MODULE MCS3Writer -----------------------------
(* Model-checking instance of S3Writer: events that fill two parts, so the *)
(* uploader can give up before, between and after the writes of Close.     *)
EXTENDS S3Writer
=============================================================================
