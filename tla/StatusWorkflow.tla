--------------------------- MODULE StatusWorkflow ---------------------------
(***************************************************************************)
(* One row whose status follows a workflow, edited by several people:      *)
(* WorkflowEngine and WorkflowService.transitionInTx (core/workflow/),     *)
(* casUpdate (common/persistence/) and the update and delete requests of   *)
(* the registries that use them.  LeadConversion and ContractSignature     *)
(* extend this module with what else writes their row.                     *)
(*                                                                         *)
(* A request runs in one transaction.  It reads the row, validates the     *)
(* transition against what it read, writes the history entry and the row,  *)
(* and commits; the row is locked from the write to the commit.  The       *)
(* history entry is committed or rolled back with the row and is not kept. *)
(*                                                                         *)
(* `updated_at` is not a number here: `fresh` says whether the row still   *)
(* has the version that the request started from.  Two versions in one     *)
(* millisecond, which the comparison cannot tell apart, are left out.      *)
(***************************************************************************)
EXTENDS Naturals

CONSTANTS Editors,    \* people, one request each at a time
          RoleOf,     \* [Editors -> roles]
          Statuses,
          Edges,      \* the transitions: [from: set, to: status, roles: set]
          MaxRemovals,  \* bound: delete requests under way at one time
          Remover,    \* a delete request, when it holds the row
          None

ASSUME WorkflowAssumption ==
  /\ MaxRemovals \in Nat
  /\ None \notin Editors /\ None \notin Statuses
  /\ Remover \notin Editors \cup {None}
  /\ \A t \in Edges : t.from \subseteq Statuses /\ t.to \in Statuses
  \* the engine stops at the first transition with this source and target
  /\ \A t, u \in Edges : t.to = u.to /\ t.from \cap u.from # {} => t = u

VARIABLES status,   \* the committed row
          deleted,
          holder,   \* who has written the row and not committed yet
          edit,     \* edit[e]: the request of e
          removing  \* delete requests that have read the row and not yet written it

workflowVars == <<status, deleted, holder, edit, removing>>

-----------------------------------------------------------------------------
Permitted(from, to, role) ==
  \E t \in Edges : from \in t.from /\ to = t.to /\ role \in t.roles

Idle == [pc |-> "idle", versioned |-> FALSE, fresh |-> FALSE,
         from |-> None, to |-> None]

WorkflowTypeOK ==
  /\ status \in Statuses /\ deleted \in BOOLEAN
  /\ holder \in Editors \cup {Remover, None}
  /\ edit \in [Editors -> [pc : {"idle", "loaded", "validated", "written"},
                           versioned : BOOLEAN, fresh : BOOLEAN,
                           from : Statuses \cup {None}, to : Statuses \cup {None}]]
  /\ removing \in 0..MaxRemovals
  \* the row is locked by the request that has written it, and by no other
  /\ \A e \in Editors : edit[e].pc = "written" <=> holder = e

WorkflowInit(initial) ==
  /\ status \in initial
  /\ deleted = FALSE
  /\ holder = None
  /\ edit = [e \in Editors |-> Idle]
  /\ removing = 0

RowUnlocked == holder = None

\* A committed write moves updated_at: nobody else has the row's version any more.
Outdated(requests) == [e \in Editors |-> [requests[e] EXCEPT !.fresh = FALSE]]

Transitions(e) == edit[e].to # None   \* a plain edit writes no status
StaleIgnored(e) == FALSE      \* mutant: the version is not compared
Stale(e) == edit[e].versioned /\ ~edit[e].fresh
\* without a version, the request writes over what came after its read
Overwrites(e) == ~edit[e].versioned /\ ~edit[e].fresh

-----------------------------------------------------------------------------
(* A person opens the record; the page keeps the version that it showed.   *)
Load(e) ==
  /\ ~deleted
  /\ edit[e].pc = "idle" \/ (edit[e].pc = "loaded" /\ ~edit[e].fresh)
  /\ edit' = [edit EXCEPT ![e] = [Idle EXCEPT !.pc = "loaded", !.fresh = TRUE]]
  /\ UNCHANGED <<status, deleted, holder, removing>>

(* The update request reads the row and validates against what it read.    *)
(* With a version it continues the page; without one it starts from here.  *)
(* `to` is None when the status sent, if any, is the one that the row has. *)
(* A transition that is refused ends the request with nothing written.     *)
Submit(e, versioned, to) ==
  /\ ~deleted
  /\ edit[e].pc = IF versioned THEN "loaded" ELSE "idle"
  /\ to # None => to # status /\ Permitted(status, to, RoleOf[e])
  /\ edit' = [edit EXCEPT ![e] =
                [pc |-> "validated", versioned |-> versioned,
                 fresh |-> versioned => edit[e].fresh,
                 from |-> IF to = None THEN None ELSE status, to |-> to]]
  /\ UNCHANGED <<status, deleted, holder, removing>>

(* The row is written once its lock is free, with the version in the       *)
(* condition: no row, and everything in the transaction is undone.         *)
Refuse(e) ==
  /\ edit[e].pc = "validated" /\ RowUnlocked /\ Stale(e)
  /\ edit' = [edit EXCEPT ![e] = Idle]
  /\ UNCHANGED <<status, deleted, holder, removing>>

Write(e) ==
  /\ edit[e].pc = "validated" /\ RowUnlocked /\ ~Stale(e)
  /\ edit' = [edit EXCEPT ![e].pc = "written"]
  /\ holder' = e
  /\ UNCHANGED <<status, deleted, removing>>

(* The request reads the row back for its answer.  The write did not look  *)
(* at deleted_at, that read does: the request fails and nothing is kept.   *)
Commit(e) ==
  /\ edit[e].pc = "written" /\ ~deleted
  /\ status' = IF Transitions(e) THEN edit[e].to ELSE status
  /\ edit' = [Outdated(edit) EXCEPT ![e] = Idle]
  /\ holder' = None
  /\ UNCHANGED <<deleted, removing>>

\* mutant: the transaction is left open
LeaveOpen(e) ==
  /\ edit[e].pc = "written"
  /\ edit' = [edit EXCEPT ![e] = Idle]
  /\ UNCHANGED <<status, deleted, holder, removing>>

(* The row was deleted, or the commit failed, or the process died.         *)
RollBack(e) ==
  /\ edit[e].pc = "written"
  /\ edit' = [edit EXCEPT ![e] = Idle]
  /\ holder' = None
  /\ UNCHANGED <<status, deleted, removing>>

-----------------------------------------------------------------------------
(* The delete request: it reads the row, writes deleted_at once the lock   *)
(* is free, and commits when the request has been answered, or fails to.   *)
StartRemoval ==
  /\ ~deleted /\ removing < MaxRemovals
  /\ removing' = removing + 1
  /\ UNCHANGED <<status, deleted, holder, edit>>

WriteRemoval ==
  /\ removing > 0 /\ RowUnlocked
  /\ removing' = removing - 1
  /\ holder' = Remover
  /\ UNCHANGED <<status, deleted, edit>>

\* A condition of the update finds the row deleted: nothing is written.
SkipRemoval ==
  /\ removing > 0 /\ deleted
  /\ removing' = removing - 1
  /\ UNCHANGED <<status, deleted, holder, edit>>

CommitRemoval ==
  /\ holder = Remover
  /\ deleted' = TRUE
  /\ edit' = Outdated(edit)
  /\ holder' = None
  /\ UNCHANGED <<status, removing>>

RollBackRemoval ==
  /\ holder = Remover
  /\ holder' = None
  /\ UNCHANGED <<status, deleted, edit, removing>>

-----------------------------------------------------------------------------
(* What other writers of the row do to the requests under way.             *)
OtherWrite(newStatus) ==
  /\ RowUnlocked
  /\ status' = newStatus
  /\ edit' = Outdated(edit)
  /\ UNCHANGED <<deleted, holder, removing>>

=============================================================================
