------------------------------- MODULE MCReads -------------------------------
(***************************************************************************)
(* Instance of the two models of what readers are shown, Listing and       *)
(* ViewCache.  They have no variable in common and no property relates     *)
(* them: interleaving their steps would multiply the states and show       *)
(* nothing more.  So a behaviour is one of either model, and the other one *)
(* rests at its start.                                                     *)
(*                                                                         *)
(* Listing: the four kinds of list, pages of one row, lists of at most     *)
(* three rows that start with two, two clients.  ViewCache: three requests *)
(* about any of the views.                                                 *)
(***************************************************************************)
EXTENDS Listing, ViewCache

CONSTANTS x, y, z

MCRows == {x, y, z}
MCStart == <<x, y>>

VARIABLE model  \* whose behaviour it is, "listing" or "views"

MCInit ==
  /\ Init /\ ViewInit
  /\ \/ model = "listing" /\ view = "chart"
     \/ model = "views" /\ kind = "audit"

ListingStep == model = "listing" /\ Next /\ UNCHANGED <<viewVars, model>>
ViewStep == model = "views" /\ ViewNext /\ UNCHANGED <<vars, model>>

\* The fairness of FairSpec and of FairViewSpec, each for its own behaviours.
MCSpec ==
  /\ MCInit
  /\ [][ListingStep \/ ViewStep]_<<vars, viewVars, model>>
  /\ WF_vars(model = "listing" /\ Tick)
  /\ WF_viewVars(model = "views" /\ Expire)
=============================================================================
