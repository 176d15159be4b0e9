---------------------------- MODULE ShareSplits ----------------------------
(***************************************************************************)
(* The splits of works and phonograms (modules/shares/shares.service.ts,   *)
(* common/persistence/optimistic-update.util.ts): editors of one tenant    *)
(* create, change and remove shares while the eligible shares of a work or *)
(* a phonogram must not exceed 100 %.                                      *)
(*                                                                         *)
(* A create or an update is one READ COMMITTED transaction of three steps: *)
(* the read of the row (Begin), the advisory lock and the sum (Check), the *)
(* write and the commit, which frees the lock (Write).  The read comes     *)
(* before the lock, and the write patches the latest row.  A create is the *)
(* update of a blank row.                                                  *)
(*                                                                         *)
(* Rows that carried both a work and a phonogram before the rule against   *)
(* it are not modelled.                                                    *)
(***************************************************************************)
EXTENDS Integers, FiniteSetsExt

CONSTANTS Editors,       \* transactions that can be open at once
          Shares,        \* the rows there can be
          Works, Phonograms,
          None,          \* SQL NULL in work_id or phonogram_id
          Keep,          \* a field the request does not send
          Percentages,   \* the percentages there are; 0 also stands for NULL
          Requests,      \* bound: the requests offered, a set of patches
          Budget,        \* 100 and the tolerance SPLIT_TOLERANCE
          Unversioned,   \* a request without expectedUpdatedAt
          Versioned,     \* whether every update sends expectedUpdatedAt
          MaxEdits       \* bound: creates, updates and removals

VARIABLES rows,     \* rows[s]: the row of share s
          edit,     \* edit[e]: the transaction of editor e
          edits     \* edits begun so far

vars == <<rows, edit, edits>>

\* share_type IS NULL is "registry".  version stands for updated_at: every write
\* moves it.  Version 0 is a row that was never created.
Row == [live : BOOLEAN, work : Works \cup {None}, phonogram : Phonograms \cup {None},
        type : {"registry", "financial"}, percentage : Nat, version : Nat]

Blank == [live |-> FALSE, work |-> None, phonogram |-> None, type |-> "registry",
          percentage |-> 0, version |-> 0]

Patch == [work : Works \cup {None, Keep}, phonogram : Phonograms \cup {None, Keep},
          type : {"registry", "financial", Keep}, percentage : Percentages \cup {Keep}]

ASSUME SplitsAssumption ==
  /\ IsFiniteSet(Shares)
  /\ Percentages \subseteq Nat /\ Requests \subseteq Patch /\ Budget \in Nat /\ MaxEdits \in Nat
  /\ None \notin Works \cup Phonograms \cup Shares
  /\ Keep \notin Works \cup Phonograms \cup {None} \cup Nat \cup {"registry", "financial"}
  /\ Unversioned \notin Nat
  /\ Versioned \in BOOLEAN

NoPatch == [work |-> Keep, phonogram |-> Keep, type |-> Keep, percentage |-> Keep]

\* seen is the row the transaction read.
Edit == [pc : {"idle", "locking", "writing"}, share : Shares \cup {None}, seen : Row,
         patch : Patch, expected : Nat \cup {Unversioned}]

NoEdit == [pc |-> "idle", share |-> None, seen |-> Blank, patch |-> NoPatch,
           expected |-> Unversioned]

TypeOK ==
  /\ rows \in [Shares -> Row]
  /\ edit \in [Editors -> Edit]
  /\ edits \in Nat

Init ==
  /\ rows = [s \in Shares |-> Blank]
  /\ edit = [e \in Editors |-> NoEdit]
  /\ edits = 0

-----------------------------------------------------------------------------

\* toColumns drops what was not sent; the rest replaces the column.
PatchedLeaky(r, p) ==                     \* mutant: a field not sent is written too
  [r EXCEPT !.work = p.work, !.phonogram = p.phonogram, !.type = p.type,
            !.percentage = p.percentage]

Patched(r, p) ==
  LET Or(sent, current) == IF sent = Keep THEN current ELSE sent
  IN  [r EXCEPT !.work = Or(p.work, @), !.phonogram = Or(p.phonogram, @),
                !.type = Or(p.type, @), !.percentage = Or(p.percentage, @)]

\* assertSingleStructure, on the row as read.
IntroducesPairInPatch(r, p) ==            \* mutant: the patch alone is looked at
  p.work \in Works /\ p.phonogram \in Phonograms

IntroducesPair(r, p) ==
  LET after == Patched(r, p) IN
  /\ after.work # None /\ after.phonogram # None
  /\ after.work # r.work \/ after.phonogram # r.phonogram

\* The row the transaction believes it is about to leave.
Effective(e) == Patched(edit[e].seen, edit[e].patch)

HasParent(r) == r.work # None \/ r.phonogram # None

\* lockSplitScope: the key is made of both columns, NULLs included.
Scope(r) == <<r.work, r.phonogram>>

ScopeNeverHeld(e) == TRUE                 \* mutant: no advisory lock

ScopeFree(e) ==
  HasParent(Effective(e)) =>
    \A other \in Editors \ {e} :
      edit[other].pc = "writing" => Scope(Effective(other)) # Scope(Effective(e))

Eligible(r) == r.live /\ r.type = "registry"

SumOf(S) == MapThenSumSet(LAMBDA s : rows[s].percentage, S)

\* sumEligiblePercentage: a column that is NULL does not filter.
Siblings(r, s) ==
  {x \in Shares \ {s} : /\ Eligible(rows[x])
                        /\ r.work # None => rows[x].work = r.work
                        /\ r.phonogram # None => rows[x].phonogram = r.phonogram}

\* assertSplitBudget: of an eligible row with a parent, on the rows committed.
Fits(e) ==
  LET r == Effective(e) IN
  r.type = "registry" /\ HasParent(r) =>
    SumOf(Siblings(r, edit[e].share)) + r.percentage <= Budget

\* casUpdate compares updated_at only when the request carries it.
VersionIgnored(e) == TRUE                 \* mutant: a plain update

VersionMatches(e) ==
  edit[e].expected = Unversioned \/ rows[edit[e].share].version = edit[e].expected

-----------------------------------------------------------------------------

Leave(e) == edit' = [edit EXCEPT ![e] = NoEdit]

Begin(e, s, patch, expected) ==
  /\ edit[e].pc = "idle" /\ edits < MaxEdits
  /\ ~IntroducesPair(rows[s], patch)
  /\ edit' = [edit EXCEPT ![e] = [pc |-> "locking", share |-> s, seen |-> rows[s],
                                  patch |-> patch, expected |-> expected]]
  /\ edits' = edits + 1
  /\ UNCHANGED rows

\* A new row has an identifier of its own.
BeginCreate(e, s) ==
  /\ rows[s] = Blank /\ \A other \in Editors : edit[other].share # s
  /\ \E patch \in Requests : Begin(e, s, patch, Unversioned)

\* The version is of the row the user loaded, now or earlier.
BeginUpdate(e, s) ==
  /\ rows[s].live
  /\ \E patch \in Requests,
        expected \in IF Versioned THEN 1..rows[s].version ELSE {Unversioned} :
       Begin(e, s, patch, expected)

Check(e) ==
  /\ edit[e].pc = "locking"
  /\ ScopeFree(e)
  /\ IF Fits(e) THEN edit' = [edit EXCEPT ![e].pc = "writing"] ELSE Leave(e)
  /\ UNCHANGED <<rows, edits>>

\* An update that finds its row removed ends in the 404 of findById and is
\* rolled back, one whose version is stale in a 409.
Written(e) ==
  /\ VersionMatches(e)
  /\ edit[e].seen.live => rows[edit[e].share].live

Stored(r, p) == [Patched(r, p) EXCEPT !.live = TRUE, !.version = r.version + 1]

Write(e) ==
  /\ edit[e].pc = "writing"
  /\ rows' = IF Written(e)
             THEN [rows EXCEPT ![edit[e].share] = Stored(@, edit[e].patch)]
             ELSE rows
  /\ Leave(e)
  /\ UNCHANGED edits

\* An error or a lost connection: rolled back, the lock freed.
Fail(e) ==
  /\ edit[e].pc # "idle"
  /\ Leave(e)
  /\ UNCHANGED <<rows, edits>>

\* One UPDATE, without lock or version.
Removed(r) == [r EXCEPT !.live = FALSE, !.version = r.version + 1]

Remove(s) ==
  /\ rows[s].live /\ edits < MaxEdits
  /\ rows' = [rows EXCEPT ![s] = Removed(@)]
  /\ edits' = edits + 1
  /\ UNCHANGED edit

Next ==
  \/ \E e \in Editors, s \in Shares : BeginCreate(e, s) \/ BeginUpdate(e, s)
  \/ \E e \in Editors : Check(e) \/ Write(e) \/ Fail(e)
  \/ \E s \in Shares : Remove(s)

Spec == Init /\ [][Next]_vars

-----------------------------------------------------------------------------
(* Properties.                                                             *)

\* "the running total never exceeds 100%" (share-split-invariant.util.ts:13):
\* whatever creates, moves, changes of type and percentage run at the same
\* time, the eligible shares of a work or a phonogram fit the budget.  Kept
\* when every update carries its version, and not when some do not.
SplitsWithinBudget ==
  /\ \A w \in Works : SumOf({s \in Shares : Eligible(rows[s]) /\ rows[s].work = w}) <= Budget
  /\ \A p \in Phonograms :
       SumOf({s \in Shares : Eligible(rows[s]) /\ rows[s].phonogram = p}) <= Budget

\* "A share therefore belongs to a work OR a phonogram"
\* (shares.service.ts:192): two updates, each of one column, do not add up to
\* a row that is counted in two splits.
OneStructure == \A s \in Shares : rows[s].work = None \/ rows[s].phonogram = None

\* An update that takes effect falls on the very row its checks were made of:
\* nobody's change in between is lost or left unchecked.
NoLostUpdate ==
  [][\A e \in Editors : Write(e) /\ rows' # rows => rows[edit[e].share] = edit[e].seen]_vars
=============================================================================
