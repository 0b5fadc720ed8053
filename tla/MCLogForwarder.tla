--------------------------- MODULE MCLogForwarder ---------------------------
(* Two runs of the script at a time and three log files, two of which      *)
(* share a basename.                                                       *)
EXTENDS LogForwarder, TLC
CONSTANTS f1, f2, f3, b1, b2
MCLog == {f1, f2, f3}
MCBase == {b1, b2}
MCbase == f1 :> b1 @@ f2 :> b1 @@ f3 :> b2
MCOwn == f1 :> b1 @@ f2 :> b2
=============================================================================
