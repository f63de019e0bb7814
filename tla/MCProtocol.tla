------------------------------ MODULE MCProtocol -------------------------------
(* The values of Protocol's run: bytes below 8, frames of one to six bytes.  The *)
(* payloads are the shortest, one that holds a start marker, and the longest;    *)
(* an end marker may be damaged into a start marker.  The junk begins like a     *)
(* start marker, is longer than the parser may keep, or is a start marker with a *)
(* length of zero, or one above the limit.                                       *)
EXTENDS Protocol

MCStart    == <<7, 6, 5, 4>>
MCEnd      == <<0, 0, 0, 0>>
MCPayloads == {<<2>>, <<1, 7, 6, 5, 4>>, <<3, 0, 0, 0, 1, 2>>}
MCEndings  == {MCEnd, MCStart}
MCJunk     == {<<7, 6>>, <<1, 1, 1, 1, 1, 1, 1, 1>>, MCStart \o <<0, 0, 0, 0>>, MCStart \o <<0, 0, 0, 7>>}
================================================================================
