-------------------------------- MODULE Shop ---------------------------------
(***************************************************************************)
(* Three desks of the platform: where prices, taxes and the catalogue are   *)
(* kept and a sale is made, the day book of a store, and the workshop of a  *)
(* mechanic with the notebooks of vehicles.                                 *)
(*                                                                         *)
(* The desks share no table: a sale is to the day book only a payment, which *)
(* it takes of any amount at any time.  A job and the code of a notebook    *)
(* share its entries, which both only append to and neither reads.  So no   *)
(* step of one enables, disables or alters a step of another, and no        *)
(* property relates them: a behaviour of this module is one of a single     *)
(* focus, chosen at the start, and every state of each that the program can *)
(* be in is still reached.                                                  *)
(***************************************************************************)
EXTENDS SaleDesk, DayBook, Workshop

VARIABLE focus

vars == <<focus, deskVars, bookVars, workshopVars, notebookVars>>

Init ==
  /\ DeskInit
  /\ BookInit
  /\ WorkshopInit
  /\ NotebookInit
  /\ focus \in {"sales", "day book", "jobs", "codes"}

Next ==
  /\ UNCHANGED focus
  /\ \/ /\ focus = "sales"
        /\ DeskNext
        /\ UNCHANGED <<bookVars, workshopVars, notebookVars>>
     \/ /\ focus = "day book"
        /\ BookNext
        /\ UNCHANGED <<deskVars, workshopVars, notebookVars>>
     \/ /\ focus = "jobs"
        /\ WorkshopNext
        /\ UNCHANGED <<deskVars, bookVars>>
     \/ /\ focus = "codes"
        /\ CodeNext
        /\ UNCHANGED <<deskVars, bookVars, workshopVars>>
     \/ /\ focus \in {"jobs", "codes"}
        /\ NotebookNext
        /\ UNCHANGED <<deskVars, bookVars, workshopVars>>

Spec == Init /\ [][Next]_vars

\* The reports of the days, taken together, are the accounts CASH and BANK_CARD
\* of the journal: no kind of document is in one of them and not in the other.
ReportsFollowJournal ==
  \A m \in Methods :
    account[m] = SumOf([d \in Days |-> Net(m, d)], Days)
=============================================================================
