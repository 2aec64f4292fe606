--------------------------- MODULE VehicleNotebook ---------------------------
(***************************************************************************)
(* The notebooks of vehicles (internal/vehiclenotebook): who made them, the *)
(* code their owners report mileage with, and their entries.                *)
(*                                                                         *)
(* Every statement runs on its own, outside any transaction, so a rotation  *)
(* of the code and a report of an owner are taken statement by statement.   *)
(* The other operations change one row, and what they read before does not  *)
(* change: a notebook is never deleted and keeps its token.                 *)
(* A code is random of 900000: here it is one the notebook has not had, and *)
(* it stands for its hash.                                                  *)
(***************************************************************************)
EXTENDS Integers, Sequences, FiniteSets

CONSTANTS
  Vehicles,
  Stores, Mechanics,   \* who may make a notebook
  Nobody,              \* the maker of a notebook that is not there yet
  Calls,               \* bound: requests about codes under way at a time
  LastCode,            \* bound: the codes 1 .. LastCode
  MaxNotes             \* bound: entries that a notebook gets by hand

ASSUME NotebookAssumption ==
  /\ Nobody \notin Stores \cup Mechanics
  /\ LastCode \in Nat /\ MaxNotes \in Nat

Makers == Stores \cup Mechanics
OwnerCodes == 1 .. LastCode

VARIABLES
  maker,     \* the store or the mechanic a notebook was made by
  code,      \* the code that works, as its hash; 0 is none
  issued,    \* the last code that was generated
  entries,   \* [Vehicles -> sequence of entries]
  call,      \* what each of the requests under way has got to
  replaced,  \* ghost: the codes that have been stored and are no longer
  retired    \* ghost: those replaced before a rotation that has been answered

notebookVars == <<maker, code, issued, entries, call, replaced, retired>>

Idle == [at |-> "idle"]

\* An entry; item is the job's line it was made from, or none.
Entry(kind, role, item) == [kind |-> kind, role |-> role, item |-> item]
ByHand == <<>>

NotebookInit ==
  /\ maker = [v \in Vehicles |-> Nobody]
  /\ code = [v \in Vehicles |-> 0]
  /\ issued = [v \in Vehicles |-> 0]
  /\ entries = [v \in Vehicles |-> <<>>]
  /\ call = [c \in Calls |-> Idle]
  /\ replaced = [v \in Vehicles |-> {}]
  /\ retired = [v \in Vehicles |-> {}]

Exists(v) == maker[v] # Nobody

\* Create of a store, CreateExternal of a mechanic.
Create(v, who) ==
  /\ ~ Exists(v)
  /\ maker' = [maker EXCEPT ![v] = who]
  /\ code' = [code EXCEPT ![v] = 1]
  /\ issued' = [issued EXCEPT ![v] = 1]
  /\ UNCHANGED <<entries, call, replaced, retired>>

Notes(v) == {i \in DOMAIN entries[v] : entries[v][i].item = ByHand}
AddNote(v, kind, role) ==
  /\ Cardinality(Notes(v)) < MaxNotes
  /\ entries' = [entries EXCEPT ![v] = Append(@, Entry(kind, role, ByHand))]

\* AddEntryByToken: any store and any mechanic with the token may add to it.
AddEntry(v, kind, role) ==
  /\ Exists(v)
  /\ AddNote(v, kind, role)
  /\ UNCHANGED <<maker, code, issued, call, replaced, retired>>

-----------------------------------------------------------------------------
(* RotateOwnerCode of the store, RotateExternalOwnerCode of the mechanic *)

\* The new code is generated, and the notebook is found to be the caller's.
FindNotebook(c, v, who) ==
  /\ call[c] = Idle
  /\ issued[v] < LastCode
  /\ maker[v] = who
  /\ issued' = [issued EXCEPT ![v] = @ + 1]
  /\ call' = [call EXCEPT ![c] = [at |-> "found", vehicle |-> v, code |-> issued[v] + 1]]
  /\ UNCHANGED <<maker, code, entries, replaced, retired>>

\* Replacing(c): the notebook's code is replaced by the call's, and what the
\* caller will be told retires the codes that have been replaced by now.
Replacing(c) ==
  LET v == call[c].vehicle
      now == replaced[v] \cup {code[v]}
  IN  /\ replaced' = [replaced EXCEPT ![v] = now]
      /\ call' = [call EXCEPT ![c] = [at |-> "stored", vehicle |-> v, before |-> now]]

\* Mistake: the row is touched, but the code in it is not changed.
StoreNothing(c) ==
  /\ call[c].at = "found"
  /\ Replacing(c)
  /\ UNCHANGED <<maker, code, issued, entries, retired>>

StoreCode(c) ==
  /\ call[c].at = "found"
  /\ code' = [code EXCEPT ![call[c].vehicle] = call[c].code]
  /\ Replacing(c)
  /\ UNCHANGED <<maker, issued, entries, retired>>

\* The code is given to the caller, who gives it to the owner.
AnswerCode(c) ==
  /\ call[c].at = "stored"
  /\ retired' = [retired EXCEPT ![call[c].vehicle] = @ \cup call[c].before]
  /\ call' = [call EXCEPT ![c] = Idle]
  /\ UNCHANGED <<maker, code, issued, entries, replaced>>

(* AddOwnerMileage *)

\* The hash is read and compared; a wrong code is refused.
CheckCode(c, v, given) ==
  /\ call[c] = Idle
  /\ Exists(v)
  /\ given = code[v]
  /\ call' = [call EXCEPT ![c] = [at |-> "checked", vehicle |-> v, code |-> given,
                                 retired |-> retired[v]]]
  /\ UNCHANGED <<maker, code, issued, entries, replaced, retired>>

AddOwnerEntry(c) ==
  /\ call[c].at = "checked"
  /\ AddNote(call[c].vehicle, "mileage", "owner")
  /\ call' = [call EXCEPT ![c] = Idle]
  /\ UNCHANGED <<maker, code, issued, replaced, retired>>

\* A statement fails, or the answer is lost: what has been stored stays.
GiveUp(c) ==
  /\ call[c] # Idle
  /\ call' = [call EXCEPT ![c] = Idle]
  /\ UNCHANGED <<maker, code, issued, entries, replaced, retired>>

NotebookNext ==
  \E v \in Vehicles :
    \/ \E who \in Makers : Create(v, who)
    \/ \E role \in {"store", "mechanic"} : AddEntry(v, "note", role)

CodeNext ==
  \E c \in Calls :
    \/ \E v \in Vehicles :
         \/ \E who \in Makers : FindNotebook(c, v, who)
         \/ \E given \in OwnerCodes : CheckCode(c, v, given)
    \/ StoreCode(c)
    \/ AnswerCode(c)
    \/ AddOwnerEntry(c)
    \/ GiveUp(c)

-----------------------------------------------------------------------------
\* Once a rotation has been answered, no report of the owner gets past the check
\* with a code that it replaced, whichever other rotations are under way.
RetiredCodesFail ==
  \A c \in Calls :
    call[c].at = "checked" => call[c].code \notin call[c].retired
=============================================================================
