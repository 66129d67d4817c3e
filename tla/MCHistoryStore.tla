--------------------------- MODULE MCHistoryStore ---------------------------
(* Instance of HistoryStore for TLC.  Its ids are not symmetric: EndIsRecorded*)
(* is about each of them.                                                    *)
EXTENDS HistoryStore
=============================================================================
