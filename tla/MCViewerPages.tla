----------------------------- MODULE MCViewerPages -----------------------------
(***************************************************************************)
(* TLC instance of ViewerPages.  Row 2 matches no search, rows 4 and 5 are *)
(* the viewer's own, two pairs of rows share their dates, and one row is   *)
(* yet to come.  Rows 2 and 3 are of one channel and fill the subscription *)
(* rows, so that following it takes the boost from row 1, whose channel is *)
(* followed at first; the lists that know no subscriptions start without.  *)
(* Three attempts at a recovery would only be more of the same; which of   *)
(* the two titles is watched first makes no difference.                    *)
(***************************************************************************)
EXTENDS ViewerPages

SomeWeight == <<1, 0, 2, 1, 1>>

SomeChannels == <<1, 2, 2, 0, 0>>

SomeDates == {[created |-> <<1, 1, 1, 2, 0>>, published |-> <<1, 1, 2, 2, 0>>]}

FewRecoveries == [network |-> 1, media |-> 0]

SomeTitles == {"first", "second"}

MCInit ==
    /\ ViewerInit
    /\ subject = "pages" =>
          IF list \in {"home", "subscriptions"} THEN 1 \in db.follows ELSE db.follows = {}
    /\ video \in {None, "first"}

MCSpec == MCInit /\ [][ViewerNext]_allVars
=============================================================================
