----------------------------- MODULE MCControl -----------------------------
(* A measuring thread, a few commands and short rcfiles, for TLC.          *)
EXTENDS Control

NoRcFile    == <<>>
ShortRcFile == <<"get">>
=============================================================================
