--------------------------- MODULE MCDigestPublish ---------------------------
(***************************************************************************)
(* Two analyze processes race for one path while one query reads it, and a *)
(* digest takes two writes.  Two writers are the least that overlap; the   *)
(* second write is the least a file can be caught without.                 *)
(***************************************************************************)
EXTENDS DigestPublish
=============================================================================
