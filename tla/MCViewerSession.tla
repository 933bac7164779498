-------------------------- MODULE MCViewerSession --------------------------
(***************************************************************************)
(* One ui_output directory, one directory with two .att files of different *)
(* dispatches and two SPM files; four loads, enough to load, fail, load    *)
(* again and look back.                                                    *)
(***************************************************************************)
EXTENDS ViewerSession

CONSTANTS dir

MCFilesIn == [d \in {dir} |-> {1, 2}]
MCCaptureOf == <<"dispatch1", "dispatch2">>
=============================================================================
