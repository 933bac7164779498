----------------------------- MODULE MCAttDecode -----------------------------
(***************************************************************************)
(* Four files of two shader engines.  Files 1 and 2 report waves of the    *)
(* same hardware slot (two dispatches of one shader engine in a capture    *)
(* directory), of slotB two with the same id; file 3 is empty, file 4 is   *)
(* larger than the budget on its own.                                      *)
(***************************************************************************)
EXTENDS AttDecode

CONSTANTS slotA, slotB, idA, idA2, idB, idB4, idNone

MCSizeOf == <<2, 1, 0, 5>>
MCIdOf == << <<idA, idB>>, <<idA2, idNone, idB>>, <<>>, <<idB4>> >>
MCRecords == << <<slotA, slotB>>, <<slotA, Ignored, slotB>>, <<>>, <<slotB>> >>
=============================================================================
