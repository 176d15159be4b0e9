------------------------- MODULE ShareSplitsProofs -------------------------
(***************************************************************************)
(* What optimistic versions give ShareSplits: an update that takes effect  *)
(* falls on the row its checks were made of, no row ever belongs to two    *)
(* structures, and no split exceeds its budget.                            *)
(***************************************************************************)
EXTENDS ShareSplits, FiniteSetTheorems, WellFoundedInduction, TLAPS

OneParent(r) == r.work = None \/ r.phonogram = None

\* A version identifies the content of its row: an open transaction saw a
\* version the row has had, and if it is the present one, the present row.
SeenWas(e) ==
  LET now == rows[edit[e].share] IN
  /\ edit[e].seen.version <= now.version
  /\ edit[e].seen.version = now.version => now = edit[e].seen

\* A create has its row to itself; an update carries a version not newer than
\* the one it saw.
OpenEdit(e) ==
  /\ edit[e].share \in Shares
  /\ SeenWas(e)
  /\ OneParent(Effective(e))
  /\ \/ /\ rows[edit[e].share] = Blank /\ edit[e].seen = Blank
        /\ \A other \in Editors \ {e} : edit[other].share # edit[e].share
     \/ /\ edit[e].seen.live
        /\ edit[e].expected \in Nat /\ edit[e].expected <= edit[e].seen.version

IInv ==
  /\ TypeOK
  /\ OneStructure
  /\ \A e \in Editors : edit[e].pc # "idle" => OpenEdit(e)

-----------------------------------------------------------------------------
(* The operators.                                                          *)

\* A patch of a row is a row, and a request that introduces no pair leaves a
\* row of one parent.
LEMMA PatchedRow ==
  ASSUME NEW r \in Row, NEW p \in Patch
  PROVE  /\ Patched(r, p) \in Row
         /\ Stored(r, p) \in Row
         /\ Patched(r, p).version = r.version /\ Patched(r, p).live = r.live
         /\ Stored(r, p).version = r.version + 1
         /\ Stored(r, p).work = Patched(r, p).work
         /\ Stored(r, p).phonogram = Patched(r, p).phonogram
         /\ Stored(r, p).type = Patched(r, p).type
         /\ Stored(r, p).percentage = Patched(r, p).percentage
         /\ Stored(r, p).live
<1>1. p.percentage = Keep \/ p.percentage \in Nat
  BY SplitsAssumption DEF Patch
<1>2. Patched(r, p) \in Row /\ Patched(r, p).version = r.version /\ Patched(r, p).live = r.live
  BY <1>1 DEF Patched, Patch, Row
<1> DEFINE q == Patched(r, p)
<1>3. q \in Row /\ q.version = r.version /\ q.live = r.live
  BY <1>2
<1>4. Stored(r, p) = [q EXCEPT !.live = TRUE, !.version = r.version + 1]
  BY DEF Stored
<1> HIDE DEF q
<1>5. /\ Stored(r, p) \in Row /\ Stored(r, p).version = r.version + 1
      /\ Stored(r, p).work = q.work /\ Stored(r, p).phonogram = q.phonogram
      /\ Stored(r, p).type = q.type /\ Stored(r, p).percentage = q.percentage
      /\ Stored(r, p).live
  <2> DEFINE v == r.version + 1
  <2>1. v \in Nat
    BY DEF Row
  <2>2. Stored(r, p) = [q EXCEPT !.live = TRUE, !.version = v]
    BY <1>4
  <2> HIDE DEF v
  <2>3. /\ Stored(r, p) \in Row /\ Stored(r, p).version = v
        /\ Stored(r, p).work = q.work /\ Stored(r, p).phonogram = q.phonogram
        /\ Stored(r, p).type = q.type /\ Stored(r, p).percentage = q.percentage
        /\ Stored(r, p).live
    BY <1>3, <2>1, <2>2 DEF Row
  <2> QED
    BY <2>3 DEF v
<1> QED
  BY <1>2, <1>5 DEF q

LEMMA NoPairIntroduced ==
  ASSUME NEW r \in Row, NEW p \in Patch, OneParent(r), ~IntroducesPair(r, p)
  PROVE  OneParent(Patched(r, p))
  BY DEF OneParent, IntroducesPair

\* The idle editor's record, and a row not yet created.
LEMMA NoEditTyped == NoEdit \in Edit /\ Blank \in Row /\ NoEdit.pc = "idle" /\ OneParent(Blank)
  BY DEF NoEdit, Edit, Blank, Row, NoPatch, Patch, OneParent

-----------------------------------------------------------------------------
(* The induction.                                                          *)

LEMMA InitHolds == Init => IInv
  BY NoEditTyped DEF Init, IInv, TypeOK, OneStructure, NoEdit, Blank

\* Where neither the rows nor another's edit changes, what holds of an open
\* transaction goes on holding.
LEMMA LeaveKeeps ==
  ASSUME IInv, NEW e \in Editors, Leave(e), UNCHANGED rows, edits' \in Nat
  PROVE  IInv'
<1>1. edit' \in [Editors -> Edit] /\ edit'[e] = NoEdit
      /\ \A o \in Editors \ {e} : edit'[o] = edit[o]
  BY NoEditTyped DEF IInv, TypeOK, Leave
<1>2. ASSUME NEW o \in Editors, edit'[o].pc # "idle"
      PROVE  OpenEdit(o)'
  <2>1. o # e /\ edit'[o] = edit[o]
    BY <1>1, <1>2, NoEditTyped
  <2>2. OpenEdit(o)
    BY <1>2, <2>1 DEF IInv
  <2>3. \A other \in Editors : edit'[other].share = edit[other].share \/ edit'[other].share = None
    BY <1>1 DEF NoEdit
  <2> QED
    BY <2>1, <2>2, <2>3, SplitsAssumption DEF OpenEdit, SeenWas, Effective
<1> QED
  BY <1>1, <1>2 DEF IInv, TypeOK, OneStructure

LEMMA BeginKeeps ==
  ASSUME IInv, NEW e \in Editors, NEW s \in Shares, NEW patch \in Patch,
         NEW expected \in Nat \cup {Unversioned},
         Begin(e, s, patch, expected),
         \/ rows[s] = Blank /\ \A other \in Editors : edit[other].share # s
         \/ rows[s].live /\ expected \in Nat /\ expected <= rows[s].version
  PROVE  IInv'
<1>1. rows \in [Shares -> Row] /\ edit \in [Editors -> Edit] /\ edits \in Nat
  BY DEF IInv, TypeOK
<1> DEFINE new == [pc |-> "locking", share |-> s, seen |-> rows[s],
                   patch |-> patch, expected |-> expected]
<1>2. edit' = [edit EXCEPT ![e] = new] /\ edits' = edits + 1 /\ rows' = rows
  BY DEF Begin
<1>3. new \in Edit
  BY <1>1 DEF Edit
<1>4. TypeOK'
  BY <1>1, <1>2, <1>3 DEF TypeOK
<1>5. OneParent(Patched(rows[s], patch))
  BY <1>1, NoPairIntroduced DEF Begin, IInv, OneStructure, OneParent
<1>6. ASSUME NEW o \in Editors, edit'[o].pc # "idle"
      PROVE  OpenEdit(o)'
  <2>1. CASE o = e
    <3>1. edit'[o] = new
      BY <1>1, <1>2, <2>1
    <3>2. edit'[o].share = s /\ edit'[o].seen = rows[s] /\ edit'[o].patch = patch
          /\ edit'[o].expected = expected
      BY <3>1
    <3>3. SeenWas(o)' /\ OneParent(Effective(o))'
      BY <1>1, <1>2, <1>5, <3>2 DEF SeenWas, Effective, Row, OneParent
    <3>4. \A other \in Editors \ {e} : edit'[other] = edit[other]
      BY <1>1, <1>2
    <3> QED
      BY <1>1, <1>2, <2>1, <3>2, <3>3, <3>4 DEF OpenEdit, Row
  <2>2. CASE o # e
    <3>1. edit'[o] = edit[o]
      BY <1>1, <1>2, <2>2
    <3>2. OpenEdit(o)
      BY <1>6, <3>1 DEF IInv
    <3>3. SeenWas(o)' /\ OneParent(Effective(o))'
      BY <1>2, <3>1, <3>2 DEF OpenEdit, SeenWas, Effective, OneParent
    <3>4. rows[edit[o].share] = Blank => edit[o].share # s
      BY <3>2 DEF Blank, Row
    <3>5. \A other \in Editors :
            edit'[other].share = edit[other].share \/ (other = e /\ edit'[other].share = s)
      BY <1>1, <1>2
    <3> QED
      BY <1>2, <3>1, <3>2, <3>3, <3>4, <3>5 DEF OpenEdit
  <2> QED
    BY <2>1, <2>2
<1> QED
  BY <1>2, <1>4, <1>6 DEF IInv, OneStructure

LEMMA CheckKeeps ==
  ASSUME IInv, NEW e \in Editors, Check(e)
  PROVE  IInv'
<1>1. CASE Fits(e)
  <2>1. edit' = [edit EXCEPT ![e].pc = "writing"] /\ UNCHANGED <<rows, edits>>
    BY <1>1 DEF Check
  <2>2. edit \in [Editors -> Edit] /\ edit[e].pc # "idle"
    BY DEF IInv, TypeOK, Check
  <2>3. edit' \in [Editors -> Edit]
    BY <2>1, <2>2 DEF Edit
  <2>4. \A o \in Editors :
          /\ edit'[o].share = edit[o].share /\ edit'[o].seen = edit[o].seen
          /\ edit'[o].patch = edit[o].patch /\ edit'[o].expected = edit[o].expected
          /\ edit'[o].pc # "idle" => edit[o].pc # "idle"
    BY <2>1, <2>2 DEF Edit
  <2>5. ASSUME NEW o \in Editors, edit'[o].pc # "idle"
        PROVE  OpenEdit(o)'
    <3>1. edit[o].pc # "idle"
      BY <2>4, <2>5
    <3>2. OpenEdit(o)
      BY <3>1 DEF IInv
    <3> QED
      BY <2>1, <2>4, <3>2 DEF OpenEdit, SeenWas, Effective, OneParent
  <2> QED
    BY <2>1, <2>3, <2>5 DEF IInv, TypeOK, OneStructure
<1>2. CASE ~Fits(e)
  <2>1. Leave(e) /\ UNCHANGED <<rows, edits>>
    BY <1>2 DEF Check
  <2> QED
    BY <2>1, LeaveKeeps DEF IInv, TypeOK
<1> QED
  BY <1>1, <1>2

\* The heart of it: versions that agree are the same row.
LEMMA WritesWhatItSaw ==
  ASSUME IInv, NEW e \in Editors, edit[e].pc = "writing", VersionMatches(e)
  PROVE  rows[edit[e].share] = edit[e].seen
<1>1. OpenEdit(e)
  BY DEF IInv
<1>2. rows[edit[e].share] \in Row /\ edit[e].seen \in Row
  BY <1>1 DEF IInv, TypeOK, OpenEdit, Edit
<1>3. CASE edit[e].seen = Blank /\ rows[edit[e].share] = Blank
  BY <1>3
<1>4. CASE edit[e].expected \in Nat /\ edit[e].expected <= edit[e].seen.version
  <2>1. rows[edit[e].share].version = edit[e].expected
    BY <1>4, SplitsAssumption DEF VersionMatches
  <2> QED
    BY <1>1, <1>2, <1>4, <2>1 DEF OpenEdit, SeenWas, Row
<1> QED
  BY <1>1, <1>3, <1>4 DEF OpenEdit

\* A row that changes gets a new version: whoever saw the old one, saw an
\* older one.
LEMMA NewVersionKeeps ==
  ASSUME IInv, NEW s \in Shares, NEW new \in Row,
         rows' = [rows EXCEPT ![s] = new], new.version = rows[s].version + 1,
         NEW o \in Editors, OpenEdit(o), edit'[o] = edit[o],
         rows[s] = Blank => edit[o].share # s,
         \A other \in Editors \ {o} :
           edit'[other].share = edit[other].share \/ edit'[other].share = None
  PROVE  OpenEdit(o)'
<1>1. rows \in [Shares -> Row] /\ edit[o] \in Edit
  BY DEF IInv, TypeOK
<1>2. CASE edit[o].share = s
  <2>1. rows'[s] = new /\ edit'[o].seen.version <= rows[s].version
    BY <1>1, <1>2 DEF OpenEdit, SeenWas
  <2>2. rows[s].version \in Nat /\ edit[o].seen.version \in Nat
    BY <1>1 DEF Row, Edit
  <2>3. edit[o].seen.version <= new.version /\ edit[o].seen.version # new.version
    BY <2>1, <2>2
  <2>4. SeenWas(o)'
    BY <1>2, <2>1, <2>3 DEF SeenWas
  <2> QED
    BY <1>2, <2>4, SplitsAssumption DEF OpenEdit, Effective
<1>3. CASE edit[o].share # s
  <2>1. rows'[edit[o].share] = rows[edit[o].share]
    BY <1>1, <1>3 DEF OpenEdit
  <2>2. SeenWas(o)'
    BY <2>1 DEF OpenEdit, SeenWas
  <2> QED
    BY <2>1, <2>2, SplitsAssumption DEF OpenEdit, Effective
<1> QED
  BY <1>2, <1>3

LEMMA WriteKeeps ==
  ASSUME IInv, NEW e \in Editors, Write(e)
  PROVE  IInv'
<1>1. CASE Written(e)
  <2> DEFINE s == edit[e].share
             new == Stored(rows[s], edit[e].patch)
  <2>1. /\ edit[e].pc = "writing" /\ rows' = [rows EXCEPT ![s] = new]
        /\ Leave(e) /\ edits' = edits
    BY <1>1 DEF Write
  <2>2. /\ rows \in [Shares -> Row] /\ edit \in [Editors -> Edit] /\ edits \in Nat
        /\ s \in Shares /\ OpenEdit(e)
    BY <2>1 DEF IInv, TypeOK, OpenEdit
  <2>3. rows[s] = edit[e].seen
    BY <1>1, <2>1, WritesWhatItSaw DEF Written
  <2>4. rows[s] \in Row /\ edit[e].patch \in Patch
    BY <2>2 DEF Edit
  <2>5. new \in Row /\ new.version = rows[s].version + 1
    BY <2>4, PatchedRow
  <2>6. OneParent(new)
    BY <2>2, <2>3, <2>4, PatchedRow DEF OpenEdit, Effective, OneParent
  <2>7. /\ edit' \in [Editors -> Edit] /\ edit'[e] = NoEdit
        /\ \A o \in Editors \ {e} : edit'[o] = edit[o]
    BY <2>1, <2>2, NoEditTyped DEF Leave
  <2> HIDE DEF new
  <2>8. TypeOK' /\ OneStructure'
    BY <2>1, <2>2, <2>5, <2>6, <2>7 DEF TypeOK, IInv, OneStructure, OneParent
  <2>9. ASSUME NEW o \in Editors, edit'[o].pc # "idle"
        PROVE  OpenEdit(o)'
    <3>1. o # e /\ edit'[o] = edit[o]
      BY <2>7, <2>9, NoEditTyped
    <3>2. OpenEdit(o)
      BY <2>9, <3>1 DEF IInv
    <3>3. rows[s] = Blank => edit[o].share # s
      BY <2>2, <3>1, <2>3 DEF OpenEdit, Blank
    <3>4. \A other \in Editors \ {o} :
            edit'[other].share = edit[other].share \/ edit'[other].share = None
      BY <2>7 DEF NoEdit
    <3> QED
      BY <2>1, <2>2, <2>5, <3>1, <3>2, <3>3, <3>4, NewVersionKeeps
  <2> QED
    BY <2>8, <2>9 DEF IInv
<1>2. CASE ~Written(e)
  <2>1. Leave(e) /\ UNCHANGED rows /\ edits' = edits
    BY <1>2 DEF Write
  <2> QED
    BY <2>1, LeaveKeeps DEF IInv, TypeOK
<1> QED
  BY <1>1, <1>2

LEMMA RemoveKeeps ==
  ASSUME IInv, NEW s \in Shares, Remove(s)
  PROVE  IInv'
<1> DEFINE new == Removed(rows[s])
<1>1. /\ rows \in [Shares -> Row] /\ edit \in [Editors -> Edit] /\ edits \in Nat
      /\ rows[s].live
  BY DEF IInv, TypeOK, Remove
<1>2. rows' = [rows EXCEPT ![s] = new] /\ edits' = edits + 1 /\ edit' = edit
  BY DEF Remove
<1>3. /\ new \in Row /\ new.version = rows[s].version + 1
      /\ new.work = rows[s].work /\ new.phonogram = rows[s].phonogram
  <2> DEFINE v == rows[s].version + 1
  <2>1. v \in Nat /\ rows[s] \in Row
    BY <1>1 DEF Row
  <2>2. new = [rows[s] EXCEPT !.live = FALSE, !.version = v]
    BY DEF Removed
  <2> HIDE DEF v, new
  <2>3. /\ new \in Row /\ new.version = v
        /\ new.work = rows[s].work /\ new.phonogram = rows[s].phonogram
    BY <2>1, <2>2 DEF Row
  <2> QED
    BY <2>3 DEF v
<1> HIDE DEF new
<1>4. TypeOK' /\ OneStructure'
  BY <1>1, <1>2, <1>3 DEF TypeOK, IInv, OneStructure
<1>5. rows[s] # Blank
  BY <1>1 DEF Blank
<1>6. \A o \in Editors : edit'[o].pc # "idle" => OpenEdit(o)'
  BY <1>2, <1>3, <1>5, NewVersionKeeps DEF IInv
<1> QED
  BY <1>4, <1>6 DEF IInv

\* Every step keeps the invariant, given that every update sends its version.
LEMMA StepKeeps ==
  ASSUME Versioned, IInv, [Next]_vars
  PROVE  IInv'
<1>1. CASE \E e \in Editors, s \in Shares : BeginCreate(e, s)
  <2>1. PICK e \in Editors, s \in Shares : BeginCreate(e, s)
    BY <1>1
  <2>2. PICK patch \in Requests : Begin(e, s, patch, Unversioned)
    BY <2>1 DEF BeginCreate
  <2> QED
    BY <2>1, <2>2, BeginKeeps, SplitsAssumption DEF BeginCreate
<1>2. CASE \E e \in Editors, s \in Shares : BeginUpdate(e, s)
  <2>1. PICK e \in Editors, s \in Shares : BeginUpdate(e, s)
    BY <1>2
  <2>2. PICK patch \in Requests, expected \in 1..rows[s].version : Begin(e, s, patch, expected)
    BY <2>1 DEF BeginUpdate
  <2>3. rows[s].version \in Nat
    BY DEF IInv, TypeOK, Row
  <2>4. expected \in Nat /\ expected <= rows[s].version /\ rows[s].live /\ patch \in Patch
    BY <2>1, <2>3, SplitsAssumption DEF BeginUpdate
  <2> QED
    BY <2>2, <2>4, BeginKeeps
<1>3. CASE \E e \in Editors : Check(e)
  BY <1>3, CheckKeeps
<1>4. CASE \E e \in Editors : Write(e)
  BY <1>4, WriteKeeps
<1>5. CASE \E e \in Editors : Fail(e)
  BY <1>5, LeaveKeeps DEF Fail, IInv, TypeOK
<1>6. CASE \E s \in Shares : Remove(s)
  BY <1>6, RemoveKeeps
<1>7. CASE UNCHANGED vars
  BY <1>7 DEF vars, IInv, TypeOK, OneStructure, OpenEdit, SeenWas, Effective, OneParent
<1> QED
  BY <1>1, <1>2, <1>3, <1>4, <1>5, <1>6, <1>7 DEF Next

-----------------------------------------------------------------------------
(* Sums of percentages.  SumOf folds over a set in the order in which CHOOSE *)
(* picks its members.  That it means a sum, whatever that order, is shown by *)
(* the smallest set for which it would not: rs stands for the rows, of now   *)
(* or of the next state.                                                     *)

First(S) == CHOOSE x \in S : TRUE

\* f does what the fold unfolds to, on the subsets of S.
Unfolds(f, S, rs) ==
  f = [T \in SUBSET S |->
         IF T = {} THEN 0 ELSE rs[First(T)].percentage + f[T \ {First(T)}]]

Fold(S, rs) == CHOOSE f : Unfolds(f, S, rs)

Total(S, rs) == Fold(S, rs)[S]

LEMMA SumIsTotal ==
  ASSUME NEW S  PROVE SumOf(S) = Total(S, rows)
BY DEF SumOf, MapThenSumSet, MapThenFoldSet, First, Unfolds, Fold, Total

\* The sum of a set in the rows of the next state.
LEMMA NextSumIsTotal ==
  ASSUME NEW S  PROVE SumOf(S)' = Total(S, rows')
BY DEF SumOf, MapThenSumSet, MapThenFoldSet, First, Unfolds, Fold, Total

\* Of a family of subsets of a finite set, one is minimal.
LEMMA SmallestSubset ==
  ASSUME NEW S, IsFiniteSet(S), NEW family \in SUBSET (SUBSET S), family # {}
  PROVE  \E T \in family : \A U \in SUBSET T : U # T => U \notin family
<1>1. family \subseteq FiniteSubsetsOf(S)
  BY FS_FiniteSubsetsOfFinite
<1>2. PICK T \in family : \A U \in family : <<U, T>> \notin StrictSubsetOrdering(S)
  BY <1>1, FS_StrictSubsetOrderingWellFounded, WFMin
<1>. QED  BY <1>2 DEF StrictSubsetOrdering

LEMMA Unfolded ==
  ASSUME NEW f, NEW S, NEW rs, Unfolds(f, S, rs), NEW T \in SUBSET S
  PROVE  /\ T = {} => f[T] = 0
         /\ T # {} => /\ First(T) \in T
                     /\ f[T] = rs[First(T)].percentage + f[T \ {First(T)}]
<1>1. f[T] = IF T = {} THEN 0 ELSE rs[First(T)].percentage + f[T \ {First(T)}]
  BY DEF Unfolds
<1>2. T # {} => First(T) \in T
  BY DEF First
<1>. QED  BY <1>1, <1>2

\* Two folds agree on the sets that both are about.
LEMMA FoldsAgree ==
  ASSUME NEW f, NEW g, NEW A, NEW B, NEW rs, Unfolds(f, A, rs), Unfolds(g, B, rs),
         NEW S, IsFiniteSet(S), S \subseteq A, S \subseteq B
  PROVE  f[S] = g[S]
<1>. DEFINE family == {T \in SUBSET S : f[T] # g[T]}
<1>1. family \in SUBSET (SUBSET S)
  OBVIOUS
<1>. HIDE DEF family
<1>2. CASE family # {}
  <2>1. PICK T \in family : \A U \in SUBSET T : U # T => U \notin family
    BY <1>1, <1>2, SmallestSubset
  <2>2. T \in SUBSET A /\ T \in SUBSET B /\ f[T] # g[T]
    BY DEF family
  <2>3. T # {}
    BY <2>2, Unfolded
  <2>. DEFINE x == First(T)
  <2>4. /\ x \in T /\ f[T] = rs[x].percentage + f[T \ {x}]
        /\ g[T] = rs[x].percentage + g[T \ {x}]
    BY <2>2, <2>3, Unfolded
  <2>5. f[T \ {x}] = g[T \ {x}]
    BY <2>1, <2>4 DEF family
  <2>. QED  BY <2>2, <2>4, <2>5
<1>. QED  BY <1>2 DEF family

\* There is a fold over every finite set.
LEMMA FoldExists ==
  ASSUME NEW S, IsFiniteSet(S), NEW rs  PROVE Unfolds(Fold(S, rs), S, rs)
<1>. DEFINE family == {T \in SUBSET S : ~ \E f : Unfolds(f, T, rs)}
<1>1. family \in SUBSET (SUBSET S)
  OBVIOUS
<1>. HIDE DEF family
<1>2. CASE family # {}
  <2>1. PICK T \in family : \A U \in SUBSET T : U # T => U \notin family
    BY <1>1, <1>2, SmallestSubset
  <2>2. T \in SUBSET S /\ ~ \E f : Unfolds(f, T, rs)
    BY DEF family
  <2>3. ASSUME NEW U \in SUBSET T, U # T
        PROVE  Unfolds(Fold(U, rs), U, rs) /\ IsFiniteSet(U)
    <3>1. U \in SUBSET S /\ \E f : Unfolds(f, U, rs)
      BY <2>1, <2>2, <2>3 DEF family
    <3>. QED  BY <3>1, FS_Subset DEF Fold
  <2>. DEFINE rest(U) == U \ {First(U)}
              f == [U \in SUBSET T |->
                      IF U = {} THEN 0 ELSE rs[First(U)].percentage + Fold(rest(U), rs)[rest(U)]]
  <2>4. ASSUME NEW V \in SUBSET T, V # T  PROVE f[V] = Fold(V, rs)[V]
    <3>1. Unfolds(Fold(V, rs), V, rs) /\ V \in SUBSET V
      BY <2>3, <2>4
    <3>2. CASE V = {}
      BY <3>1, <3>2, Unfolded
    <3>3. CASE V # {}
      <4>1. First(V) \in V /\ Fold(V, rs)[V] = rs[First(V)].percentage + Fold(V, rs)[rest(V)]
        BY <3>1, <3>3, Unfolded
      <4>2. rest(V) \in SUBSET T /\ rest(V) # T /\ rest(V) \subseteq V
        BY <2>4, <4>1
      <4>3. Unfolds(Fold(rest(V), rs), rest(V), rs) /\ IsFiniteSet(rest(V))
        BY <2>3, <4>2
      <4>4. Fold(V, rs)[rest(V)] = Fold(rest(V), rs)[rest(V)]
        BY <3>1, <4>2, <4>3, FoldsAgree
      <4>5. f[V] = rs[First(V)].percentage + Fold(rest(V), rs)[rest(V)]
        BY <3>3
      <4>. QED  BY <4>1, <4>4, <4>5
    <3>. QED  BY <3>2, <3>3
  <2>5. ASSUME NEW U \in SUBSET T, U # {}  PROVE Fold(rest(U), rs)[rest(U)] = f[rest(U)]
    <3>1. First(U) \in U
      BY <2>5 DEF First
    <3>2. rest(U) \in SUBSET T /\ rest(U) # T
      BY <3>1
    <3>. QED  BY <2>4, <3>2
  <2>6. f = [U \in SUBSET T |->
               IF U = {} THEN 0 ELSE rs[First(U)].percentage + f[rest(U)]]
    <3>1. \A U \in SUBSET T :
            f[U] = IF U = {} THEN 0 ELSE rs[First(U)].percentage + f[rest(U)]
      BY <2>5
    <3>2. f = [U \in SUBSET T |-> f[U]]
      OBVIOUS
    <3>. HIDE DEF f
    <3>. QED  BY <3>1, <3>2
  <2>. HIDE DEF f
  <2>7. Unfolds(f, T, rs)
    BY <2>6 DEF Unfolds
  <2>. QED  BY <2>2, <2>7
<1>. QED  BY <1>2 DEF family, Fold

LEMMA TotalStep ==
  ASSUME NEW S, IsFiniteSet(S), NEW rs
  PROVE  /\ S = {} => Total(S, rs) = 0
         /\ S # {} => /\ First(S) \in S
                     /\ Total(S, rs) = rs[First(S)].percentage + Total(S \ {First(S)}, rs)
<1>1. Unfolds(Fold(S, rs), S, rs) /\ S \in SUBSET S
  BY FoldExists
<1>2. CASE S # {}
  <2>. DEFINE R == S \ {First(S)}
  <2>1. First(S) \in S /\ Total(S, rs) = rs[First(S)].percentage + Fold(S, rs)[R]
    BY <1>1, <1>2, Unfolded DEF Total
  <2>2. IsFiniteSet(R) /\ Unfolds(Fold(R, rs), R, rs) /\ R \subseteq S
    BY FS_Subset, FoldExists
  <2>3. Fold(S, rs)[R] = Fold(R, rs)[R]
    BY <1>1, <2>2, FoldsAgree
  <2>. QED  BY <2>1, <2>3 DEF Total
<1>. QED  BY <1>1, <1>2, Unfolded DEF Total

\* A sum of natural numbers is one,
LEMMA TotalIsNat ==
  ASSUME NEW S, IsFiniteSet(S), NEW rs, \A s \in S : rs[s].percentage \in Nat
  PROVE  Total(S, rs) \in Nat
<1>. DEFINE family == {T \in SUBSET S : Total(T, rs) \notin Nat}
<1>1. family \in SUBSET (SUBSET S)
  OBVIOUS
<1>. HIDE DEF family
<1>2. CASE family # {}
  <2>1. PICK T \in family : \A U \in SUBSET T : U # T => U \notin family
    BY <1>1, <1>2, SmallestSubset
  <2>2. T \in SUBSET S /\ IsFiniteSet(T) /\ Total(T, rs) \notin Nat
    BY FS_Subset DEF family
  <2>3. T # {}
    <3>1. T = {} => Total(T, rs) = 0
      BY <2>2, TotalStep
    <3>. QED  BY <2>2, <3>1
  <2>. DEFINE x == First(T)
  <2>4. x \in T /\ Total(T, rs) = rs[x].percentage + Total(T \ {x}, rs)
    BY <2>2, <2>3, TotalStep
  <2>5. Total(T \ {x}, rs) \in Nat
    BY <2>1, <2>2, <2>4 DEF family
  <2>. QED  BY <2>2, <2>4, <2>5
<1>. QED  BY <1>2 DEF family

\* it depends only on what is summed,
LEMMA TotalOfSame ==
  ASSUME NEW S, IsFiniteSet(S), NEW rs, NEW rt,
         \A s \in S : rs[s].percentage = rt[s].percentage
  PROVE  Total(S, rs) = Total(S, rt)
<1>. DEFINE family == {T \in SUBSET S : Total(T, rs) # Total(T, rt)}
<1>1. family \in SUBSET (SUBSET S)
  OBVIOUS
<1>. HIDE DEF family
<1>2. CASE family # {}
  <2>1. PICK T \in family : \A U \in SUBSET T : U # T => U \notin family
    BY <1>1, <1>2, SmallestSubset
  <2>2. T \in SUBSET S /\ IsFiniteSet(T) /\ Total(T, rs) # Total(T, rt)
    BY FS_Subset DEF family
  <2>3. T # {}
    BY <2>2, TotalStep
  <2>. DEFINE x == First(T)
  <2>4. /\ x \in T /\ Total(T, rs) = rs[x].percentage + Total(T \ {x}, rs)
        /\ Total(T, rt) = rt[x].percentage + Total(T \ {x}, rt)
    BY <2>2, <2>3, TotalStep
  <2>5. Total(T \ {x}, rs) = Total(T \ {x}, rt)
    BY <2>1, <2>2, <2>4 DEF family
  <2>. QED  BY <2>2, <2>4, <2>5
<1>. QED  BY <1>2 DEF family

\* any member may be taken out first,
LEMMA TotalWithout ==
  ASSUME NEW S, IsFiniteSet(S), NEW rs, \A s \in S : rs[s].percentage \in Nat, NEW m \in S
  PROVE  Total(S, rs) = rs[m].percentage + Total(S \ {m}, rs)
<1>. DEFINE splits(T, y) == Total(T, rs) = rs[y].percentage + Total(T \ {y}, rs)
            family == {T \in SUBSET S : \E y \in T : ~splits(T, y)}
<1>1. family \in SUBSET (SUBSET S)
  OBVIOUS
<1>. HIDE DEF family
<1>2. CASE family # {}
  <2>1. PICK T \in family : \A U \in SUBSET T : U # T => U \notin family
    BY <1>1, <1>2, SmallestSubset
  <2>2. PICK y \in T : T \in SUBSET S /\ ~splits(T, y)
    BY DEF family
  <2>3. \A U \in SUBSET T : IsFiniteSet(U) /\ Total(U, rs) \in Nat
    BY <2>2, FS_Subset, TotalIsNat
  <2>. DEFINE x == First(T)
  <2>4. x \in T /\ splits(T, x)
    BY <2>2, <2>3, TotalStep
  <2>. HIDE DEF x
  <2>5. \A U \in SUBSET T : U # T => \A z \in U : splits(U, z)
    BY <2>1, <2>2 DEF family
  <2>6. x # y
    BY <2>2, <2>4
  <2>7. splits(T \ {x}, y) /\ splits(T \ {y}, x)
    BY <2>2, <2>4, <2>5, <2>6
  <2>8. (T \ {x}) \ {y} = (T \ {y}) \ {x}
    OBVIOUS
  <2>9. /\ Total(T \ {y}, rs) \in Nat /\ Total((T \ {y}) \ {x}, rs) \in Nat
        /\ rs[x].percentage \in Nat /\ rs[y].percentage \in Nat
    BY <2>2, <2>3, <2>4
  <2>10. Total(T, rs) = rs[x].percentage + (rs[y].percentage + Total((T \ {y}) \ {x}, rs))
    BY <2>4, <2>7, <2>8
  <2>11. Total(T \ {y}, rs) = rs[x].percentage + Total((T \ {y}) \ {x}, rs)
    BY <2>7
  <2>12. ~(Total(T, rs) = rs[y].percentage + Total(T \ {y}, rs))
    BY <2>2
  <2>. QED  BY <2>9, <2>10, <2>11, <2>12
<1>. QED  BY <1>2 DEF family

\* and fewer members make no larger sum.
LEMMA TotalOfFewer ==
  ASSUME NEW S, IsFiniteSet(S), NEW rs, \A s \in S : rs[s].percentage \in Nat,
         NEW T \in SUBSET S
  PROVE  Total(T, rs) <= Total(S, rs)
<1>. DEFINE family == {U \in SUBSET S : T \subseteq U /\ ~(Total(T, rs) <= Total(U, rs))}
<1>1. family \in SUBSET (SUBSET S)
  OBVIOUS
<1>. HIDE DEF family
<1>2. CASE family # {}
  <2>1. PICK U \in family : \A W \in SUBSET U : W # U => W \notin family
    BY <1>1, <1>2, SmallestSubset
  <2>2. U \in SUBSET S /\ T \subseteq U /\ ~(Total(T, rs) <= Total(U, rs))
    BY DEF family
  <2>3. \A W \in SUBSET U : IsFiniteSet(W) /\ Total(W, rs) \in Nat
    BY <2>2, FS_Subset, TotalIsNat
  <2>4. PICK m \in U : m \notin T
    BY <2>2, <2>3
  <2>5. Total(U, rs) = rs[m].percentage + Total(U \ {m}, rs)
    BY <2>2, <2>3, TotalWithout
  <2>6. Total(T, rs) <= Total(U \ {m}, rs)
    BY <2>1, <2>2, <2>4 DEF family
  <2>7. /\ Total(T, rs) \in Nat /\ Total(U \ {m}, rs) \in Nat /\ Total(U, rs) \in Nat
        /\ rs[m].percentage \in Nat
    BY <2>2, <2>3
  <2>. QED  BY <2>2, <2>5, <2>6, <2>7
<1>. QED  BY <1>2 DEF family

-----------------------------------------------------------------------------
(* The budget.  The sum is taken before the write, on rows that others may  *)
(* still change: what keeps it true is that a second writer of the same      *)
(* scope waits for the lock, and that a write leaves the row that was summed *)
(* for, which is where the versions are needed.                             *)

SplitOfWork(w)      == {s \in Shares : Eligible(rows[s]) /\ rows[s].work = w}
SplitOfPhonogram(p) == {s \in Shares : Eligible(rows[s]) /\ rows[s].phonogram = p}

SplitsFit ==
  /\ \A w \in Works : Total(SplitOfWork(w), rows) <= Budget
  /\ \A p \in Phonograms : Total(SplitOfPhonogram(p), rows) <= Budget

RoomFor(e) ==
  Effective(e).type = "registry" /\ HasParent(Effective(e)) =>
    Total(Siblings(Effective(e), edit[e].share), rows) + Effective(e).percentage <= Budget

\* What a transaction found to fit still fits when it writes, and two that are
\* about to write do not add to the same split.
WritersFit == \A e \in Editors : edit[e].pc = "writing" => RoomFor(e)

WritersApart ==
  \A e, o \in Editors :
    e # o /\ edit[e].pc = "writing" /\ edit[o].pc = "writing" /\ HasParent(Effective(e))
      => Scope(Effective(o)) # Scope(Effective(e))

BudgetInv == SplitsFit /\ WritersFit /\ WritersApart

LEMMA SplitsFitIsBudget == SplitsFit <=> SplitsWithinBudget
BY SumIsTotal DEF SplitsFit, SplitsWithinBudget, SplitOfWork, SplitOfPhonogram

LEMMA RoomForIsFits == \A e \in Editors : RoomFor(e) <=> Fits(e)
BY SumIsTotal DEF RoomFor, Fits

LEMMA SharesFinite == \A S \in SUBSET Shares : IsFiniteSet(S)
BY SplitsAssumption, FS_Subset

\* A split that gains no row and whose rows keep their percentages does not grow.
LEMMA NoLarger ==
  ASSUME TypeOK, TypeOK', NEW S \in SUBSET Shares, NEW T \in SUBSET S,
         \A x \in T : rows'[x] = rows[x]
  PROVE  /\ Total(T, rows') <= Total(S, rows)
         /\ Total(T, rows') \in Nat /\ Total(S, rows) \in Nat
<1>1. \A s \in Shares : rows[s].percentage \in Nat /\ rows'[s].percentage \in Nat
  BY DEF TypeOK, Row
<1>2. IsFiniteSet(S) /\ IsFiniteSet(T)
  BY SharesFinite
<1>3. Total(T, rows') = Total(T, rows)
  BY <1>2, TotalOfSame
<1>4. Total(T, rows) <= Total(S, rows)
  BY <1>1, <1>2, TotalOfFewer
<1>5. Total(T, rows) \in Nat /\ Total(S, rows) \in Nat
  BY <1>1, <1>2, TotalIsNat
<1>. QED  BY <1>3, <1>4, <1>5

LEMMA InitFits == Init => BudgetInv
<1>. SUFFICES ASSUME Init  PROVE BudgetInv
  OBVIOUS
<1>1. \A s \in Shares : ~Eligible(rows[s])
  BY DEF Init, Blank, Eligible
<1>2. \A e \in Editors : edit[e].pc # "writing"
  BY DEF Init, NoEdit
<1>3. Total({}, rows) = 0
  BY TotalStep, FS_EmptySet
<1>4. \A w \in Works : SplitOfWork(w) = {}
  BY <1>1 DEF SplitOfWork
<1>5. \A p \in Phonograms : SplitOfPhonogram(p) = {}
  BY <1>1 DEF SplitOfPhonogram
<1>6. 0 <= Budget
  BY SplitsAssumption
<1>7. SplitsFit
  BY <1>3, <1>4, <1>5, <1>6 DEF SplitsFit
<1>. QED  BY <1>2, <1>7 DEF BudgetInv, WritersFit, WritersApart

\* Steps that leave the rows alone and make nobody a writer.
LEMMA SameRowsFit ==
  ASSUME BudgetInv, rows' = rows,
         \A o \in Editors : edit'[o].pc = "writing" => edit'[o] = edit[o]
  PROVE  BudgetInv'
<1>1. SplitsFit'
  BY DEF BudgetInv, SplitsFit, SplitOfWork, SplitOfPhonogram
<1>2. ASSUME NEW o \in Editors, edit'[o].pc = "writing"
      PROVE  edit[o].pc = "writing" /\ Effective(o)' = Effective(o) /\ RoomFor(o)'
  <2>1. edit'[o] = edit[o]
    BY <1>2
  <2>2. RoomFor(o)
    BY <1>2, <2>1 DEF BudgetInv, WritersFit
  <2>3. Effective(o)' = Effective(o)
    BY <2>1 DEF Effective
  <2>4. Siblings(Effective(o), edit[o].share)' = Siblings(Effective(o), edit[o].share)
    BY <2>1, <2>3 DEF Siblings
  <2>. QED  BY <1>2, <2>1, <2>2, <2>3, <2>4 DEF RoomFor
<1>3. WritersFit'
  BY <1>2 DEF WritersFit
<1>4. WritersApart'
  BY <1>2 DEF BudgetInv, WritersApart
<1>. QED  BY <1>1, <1>3, <1>4 DEF BudgetInv

LEMMA LeaveFits ==
  ASSUME IInv, BudgetInv, NEW e \in Editors, Leave(e), rows' = rows  PROVE BudgetInv'
<1>1. \A o \in Editors : edit'[o].pc = "writing" => edit'[o] = edit[o]
  BY NoEditTyped DEF Leave, IInv, TypeOK
<1>. QED  BY <1>1, SameRowsFit

LEMMA BeginFits ==
  ASSUME IInv, BudgetInv, NEW e \in Editors, NEW s \in Shares, NEW patch, NEW expected,
         Begin(e, s, patch, expected)
  PROVE  BudgetInv'
<1>1. \A o \in Editors : edit'[o].pc = "writing" => edit'[o] = edit[o]
  BY DEF Begin, IInv, TypeOK
<1>2. rows' = rows
  BY DEF Begin
<1>. QED  BY <1>1, <1>2, SameRowsFit

\* The check makes a writer of a transaction that fits and has its scope alone.
LEMMA CheckFits ==
  ASSUME IInv, BudgetInv, NEW e \in Editors, Check(e)  PROVE BudgetInv'
<1>1. CASE ~Fits(e)
  BY <1>1, LeaveFits DEF Check
<1>2. CASE Fits(e)
  <2>1. edit' = [edit EXCEPT ![e].pc = "writing"] /\ rows' = rows /\ ScopeFree(e)
    BY <1>2 DEF Check
  <2>2. edit \in [Editors -> Edit]
    BY DEF IInv, TypeOK
  <2>3. \A o \in Editors :
          /\ edit'[o].share = edit[o].share /\ edit'[o].seen = edit[o].seen
          /\ edit'[o].patch = edit[o].patch
          /\ o # e => edit'[o].pc = edit[o].pc
    BY <2>1, <2>2 DEF Edit
  <2>4. \A o \in Editors : Effective(o)' = Effective(o)
    BY <2>3 DEF Effective
  <2>5. \A o \in Editors : RoomFor(o)' <=> RoomFor(o)
    BY <2>1, <2>3, <2>4 DEF RoomFor, Siblings
  <2>6. WritersFit'
    BY <1>2, <2>3, <2>5, RoomForIsFits DEF BudgetInv, WritersFit
  <2>7. SplitsFit'
    BY <2>1 DEF BudgetInv, SplitsFit, SplitOfWork, SplitOfPhonogram
  <2>8. WritersApart'
    <3>. SUFFICES ASSUME NEW a \in Editors, NEW b \in Editors, a # b,
                         edit'[a].pc = "writing", edit'[b].pc = "writing",
                         HasParent(Effective(a)), Scope(Effective(b)) = Scope(Effective(a))
                  PROVE  FALSE
      BY <2>4 DEF WritersApart
    <3>1. HasParent(Effective(b))
      BY DEF Scope, HasParent
    <3>2. CASE a = e
      BY <2>1, <2>3, <3>2 DEF ScopeFree
    <3>3. CASE b = e
      BY <2>1, <2>3, <3>1, <3>3 DEF ScopeFree
    <3>4. CASE a # e /\ b # e
      BY <2>3, <3>4 DEF BudgetInv, WritersApart
    <3>. QED  BY <3>2, <3>3, <3>4
  <2>. QED  BY <2>6, <2>7, <2>8 DEF BudgetInv
<1>. QED  BY <1>1, <1>2

\* One row changes and enters no split that another writer relies on.
LEMMA OthersFit ==
  ASSUME IInv, IInv', BudgetInv, NEW s \in Shares,
         \A x \in Shares \ {s} : rows'[x] = rows[x],
         NEW o \in Editors, edit[o].pc = "writing", edit'[o] = edit[o],
         s \notin Siblings(Effective(o), edit[o].share)'
  PROVE  RoomFor(o)'
<1>1. RoomFor(o) /\ Effective(o)' = Effective(o) /\ edit'[o].share = edit[o].share
  BY DEF BudgetInv, WritersFit, Effective
<1>. DEFINE S == Siblings(Effective(o), edit[o].share)
<1>2. S \in SUBSET Shares /\ S' \in SUBSET S
  BY <1>1 DEF Siblings
<1>3. \A x \in S' : rows'[x] = rows[x]
  BY <1>2
<1>4. Total(S', rows') <= Total(S, rows) /\ Total(S', rows') \in Nat /\ Total(S, rows) \in Nat
  BY <1>2, <1>3, NoLarger DEF IInv
<1>5. Effective(o).percentage \in Nat
  <2>1. edit[o].seen \in Row /\ edit[o].patch \in Patch
    BY DEF IInv, TypeOK, Edit
  <2>. QED  BY <2>1, PatchedRow DEF Effective, Row
<1>. HIDE DEF S
<1>6. Budget \in Nat
  BY SplitsAssumption
<1>7. Total(S, rows) + Effective(o).percentage <= Budget
        => Total(S', rows') + Effective(o).percentage <= Budget
  BY <1>4, <1>5, <1>6
<1>. QED  BY <1>1, <1>7 DEF RoomFor, S

\* A split that the changed row is not part of afterwards fits as before.
LEMMA SplitsWithoutFit ==
  ASSUME IInv, IInv', BudgetInv, NEW s \in Shares,
         \A x \in Shares \ {s} : rows'[x] = rows[x]
  PROVE  /\ \A w \in Works : s \notin SplitOfWork(w)' => Total(SplitOfWork(w)', rows') <= Budget
         /\ \A p \in Phonograms :
              s \notin SplitOfPhonogram(p)' => Total(SplitOfPhonogram(p)', rows') <= Budget
<1>1. ASSUME NEW w \in Works, s \notin SplitOfWork(w)'
      PROVE  Total(SplitOfWork(w)', rows') <= Budget
  <2>. DEFINE S == SplitOfWork(w)
  <2>1. S \in SUBSET Shares /\ S' \in SUBSET S /\ \A x \in S' : rows'[x] = rows[x]
    BY <1>1 DEF SplitOfWork
  <2>2. Total(S', rows') <= Total(S, rows) /\ Total(S', rows') \in Nat /\ Total(S, rows) \in Nat
    BY <2>1, NoLarger DEF IInv
  <2>3. Total(S, rows) <= Budget
    BY DEF BudgetInv, SplitsFit
  <2>. QED  BY <2>2, <2>3, SplitsAssumption
<1>2. ASSUME NEW p \in Phonograms, s \notin SplitOfPhonogram(p)'
      PROVE  Total(SplitOfPhonogram(p)', rows') <= Budget
  <2>. DEFINE S == SplitOfPhonogram(p)
  <2>1. S \in SUBSET Shares /\ S' \in SUBSET S /\ \A x \in S' : rows'[x] = rows[x]
    BY <1>2 DEF SplitOfPhonogram
  <2>2. Total(S', rows') <= Total(S, rows) /\ Total(S', rows') \in Nat /\ Total(S, rows) \in Nat
    BY <2>1, NoLarger DEF IInv
  <2>3. Total(S, rows) <= Budget
    BY DEF BudgetInv, SplitsFit
  <2>. QED  BY <2>2, <2>3, SplitsAssumption
<1>. QED  BY <1>1, <1>2

\* The written row enters at most one split, with the sum that was checked.
LEMMA WriteFits ==
  ASSUME IInv, IInv', BudgetInv, NEW e \in Editors, Write(e)  PROVE BudgetInv'
<1>1. CASE ~Written(e)
  BY <1>1, LeaveFits DEF Write
<1>2. CASE Written(e)
  <2>. DEFINE s == edit[e].share
              r == Effective(e)
              new == Stored(rows[s], edit[e].patch)
  <2>1. /\ edit[e].pc = "writing" /\ rows' = [rows EXCEPT ![s] = new] /\ Leave(e)
        /\ rows[s] = edit[e].seen
    BY <1>2, WritesWhatItSaw DEF Write, Written
  <2>2. /\ rows \in [Shares -> Row] /\ edit \in [Editors -> Edit] /\ s \in Shares
        /\ OneParent(r) /\ edit[e].patch \in Patch
    BY <2>1 DEF IInv, TypeOK, OpenEdit, Edit
  <2>3. /\ new.live /\ new.type = r.type /\ new.percentage = r.percentage
        /\ new.work = r.work /\ new.phonogram = r.phonogram /\ r \in Row
    BY <2>1, <2>2, PatchedRow DEF Effective
  <2>4. rows'[s] = new /\ \A x \in Shares \ {s} : rows'[x] = rows[x]
    BY <2>1, <2>2
  <2>5. /\ \A o \in Editors \ {e} : edit'[o] = edit[o]
        /\ edit'[e].pc # "writing"
    BY <2>1, <2>2, NoEditTyped DEF Leave
  <2>6. RoomFor(e)
    BY <2>1 DEF BudgetInv, WritersFit
  <2>. HIDE DEF new, r, s
  <2>7. ASSUME NEW T \in SUBSET Shares, s \in T, T \ {s} \subseteq Siblings(r, s),
               r.type = "registry", HasParent(r)
        PROVE  Total(T, rows') <= Budget
    <3>. DEFINE S == Siblings(r, s)
    <3>1. S \in SUBSET Shares /\ T \ {s} \in SUBSET S /\ \A x \in T \ {s} : rows'[x] = rows[x]
      BY <2>4, <2>7 DEF Siblings
    <3>2. /\ Total(T \ {s}, rows') <= Total(S, rows)
          /\ Total(T \ {s}, rows') \in Nat /\ Total(S, rows) \in Nat
      BY <3>1, NoLarger DEF IInv
    <3>3. Total(S, rows) + r.percentage <= Budget
      BY <2>6, <2>7 DEF RoomFor, r, s
    <3>4. \A x \in T : rows'[x].percentage \in Nat
      BY <2>7 DEF IInv, TypeOK, Row
    <3>5. Total(T, rows') = rows'[s].percentage + Total(T \ {s}, rows')
      BY <2>7, <3>4, SharesFinite, TotalWithout
    <3>6. rows'[s].percentage = r.percentage /\ r.percentage \in Nat /\ Budget \in Nat
      BY <2>3, <2>4, SplitsAssumption DEF Row
    <3>. HIDE DEF S
    <3>. QED  BY <3>2, <3>3, <3>5, <3>6
  <2>8. ASSUME NEW w \in Works  PROVE Total(SplitOfWork(w)', rows') <= Budget
    <3>. DEFINE T == SplitOfWork(w)'
    <3>1. CASE s \in T
      <4>1. r.work = w /\ r.type = "registry" /\ w # None
        BY <2>3, <2>4, <3>1, SplitsAssumption DEF SplitOfWork, Eligible
      <4>2. HasParent(r) /\ r.phonogram = None
        BY <2>2, <4>1 DEF HasParent, OneParent
      <4>3. T \in SUBSET Shares /\ T \ {s} \subseteq Siblings(r, s)
        BY <2>4, <4>1, <4>2 DEF SplitOfWork, Siblings, Eligible
      <4>. QED  BY <2>7, <3>1, <4>1, <4>2, <4>3
    <3>2. CASE s \notin T
      BY <2>2, <2>4, <3>2, SplitsWithoutFit
    <3>. QED  BY <3>1, <3>2
  <2>9. ASSUME NEW p \in Phonograms  PROVE Total(SplitOfPhonogram(p)', rows') <= Budget
    <3>. DEFINE T == SplitOfPhonogram(p)'
    <3>1. CASE s \in T
      <4>1. r.phonogram = p /\ r.type = "registry" /\ p # None
        BY <2>3, <2>4, <3>1, SplitsAssumption DEF SplitOfPhonogram, Eligible
      <4>2. HasParent(r) /\ r.work = None
        BY <2>2, <4>1 DEF HasParent, OneParent
      <4>3. T \in SUBSET Shares /\ T \ {s} \subseteq Siblings(r, s)
        BY <2>4, <4>1, <4>2 DEF SplitOfPhonogram, Siblings, Eligible
      <4>. QED  BY <2>7, <3>1, <4>1, <4>2, <4>3
    <3>2. CASE s \notin T
      BY <2>2, <2>4, <3>2, SplitsWithoutFit
    <3>. QED  BY <3>1, <3>2
  <2>10. ASSUME NEW o \in Editors, edit'[o].pc = "writing"  PROVE RoomFor(o)'
    <3>1. o # e /\ edit'[o] = edit[o] /\ edit[o].pc = "writing"
      BY <2>5, <2>10
    <3>2. Effective(o)' = Effective(o) /\ OneParent(Effective(o))
      BY <3>1 DEF Effective, IInv, OpenEdit
    <3>3. CASE ~HasParent(Effective(o))
      BY <3>2, <3>3 DEF RoomFor
    <3>4. CASE HasParent(Effective(o))
      <4>1. Scope(r) # Scope(Effective(o))
        BY <2>1, <3>1, <3>4 DEF BudgetInv, WritersApart, r
      <4>2. s \notin Siblings(Effective(o), edit[o].share)'
        BY <2>2, <2>3, <2>4, <3>1, <3>2, <3>4, <4>1
           DEF Siblings, Scope, HasParent, OneParent
      <4>. QED  BY <2>2, <2>4, <3>1, <4>2, OthersFit
    <3>. QED  BY <3>3, <3>4
  <2>11. WritersApart'
    BY <2>5 DEF BudgetInv, WritersApart, Effective
  <2>. QED  BY <2>8, <2>9, <2>10, <2>11 DEF BudgetInv, SplitsFit, WritersFit
<1>. QED  BY <1>1, <1>2

\* A removed row is in no split.
LEMMA RemoveFits ==
  ASSUME IInv, IInv', BudgetInv, NEW s \in Shares, Remove(s)  PROVE BudgetInv'
<1>1. edit' = edit /\ \A x \in Shares \ {s} : rows'[x] = rows[x]
  BY DEF Remove, IInv, TypeOK
<1>2. ~rows'[s].live
  <2>1. rows[s] \in Row /\ rows'[s] = Removed(rows[s])
    BY DEF Remove, IInv, TypeOK
  <2>. QED  BY <2>1 DEF Removed, Row
<1>3. SplitsFit'
  <2>1. /\ \A w \in Works : s \notin SplitOfWork(w)'
        /\ \A p \in Phonograms : s \notin SplitOfPhonogram(p)'
    BY <1>2 DEF SplitOfWork, SplitOfPhonogram, Eligible
  <2>. QED  BY <1>1, <2>1, SplitsWithoutFit DEF SplitsFit
<1>4. ASSUME NEW o \in Editors, edit'[o].pc = "writing"  PROVE RoomFor(o)'
  <2>1. s \notin Siblings(Effective(o), edit[o].share)'
    BY <1>2 DEF Siblings, Eligible
  <2>. QED  BY <1>1, <1>4, <2>1, OthersFit
<1>5. WritersApart'
  BY <1>1 DEF BudgetInv, WritersApart, Effective
<1>. QED  BY <1>3, <1>4, <1>5 DEF BudgetInv, WritersFit

LEMMA StepFits ==
  ASSUME Versioned, IInv, BudgetInv, [Next]_vars  PROVE BudgetInv'
<1>1. IInv'
  BY StepKeeps
<1>2. CASE \E e \in Editors, s \in Shares : BeginCreate(e, s) \/ BeginUpdate(e, s)
  BY <1>2, BeginFits DEF BeginCreate, BeginUpdate
<1>3. CASE \E e \in Editors : Check(e)
  BY <1>3, CheckFits
<1>4. CASE \E e \in Editors : Write(e)
  BY <1>1, <1>4, WriteFits
<1>5. CASE \E e \in Editors : Fail(e)
  BY <1>5, LeaveFits DEF Fail
<1>6. CASE \E s \in Shares : Remove(s)
  BY <1>1, <1>6, RemoveFits
<1>7. CASE UNCHANGED vars
  BY <1>7, SameRowsFit DEF vars
<1>. QED  BY <1>2, <1>3, <1>4, <1>5, <1>6, <1>7 DEF Next

-----------------------------------------------------------------------------
(* The results.                                                            *)

LEMMA Invariance == ASSUME Versioned PROVE Spec => []IInv
<1>1. Init => IInv
  BY InitHolds
<1>2. IInv /\ [Next]_vars => IInv'
  BY StepKeeps
<1> QED
  BY <1>1, <1>2, PTL DEF Spec

\* Rows and transactions keep their shape whatever requests do, with versions
\* or without, and an open transaction is about one share.
THEOREM TypeCorrect == Spec => []TypeOK
<1> DEFINE AboutShares == \A e \in Editors : edit[e].pc # "idle" => edit[e].share \in Shares
<1>1. Init => TypeOK /\ AboutShares
  BY NoEditTyped DEF Init, TypeOK, NoEdit
<1>2. ASSUME TypeOK, AboutShares, [Next]_vars  PROVE TypeOK' /\ AboutShares'
  <2>0. rows \in [Shares -> Row] /\ edit \in [Editors -> Edit] /\ edits \in Nat
    BY <1>2 DEF TypeOK
  <2>1. ASSUME NEW e \in Editors, Leave(e)
        PROVE  edit' \in [Editors -> Edit] /\ AboutShares'
    BY <1>2, <2>0, <2>1, NoEditTyped DEF Leave
  <2>2. ASSUME NEW e \in Editors, NEW s \in Shares, NEW patch \in Patch,
               NEW expected \in Nat \cup {Unversioned}, Begin(e, s, patch, expected)
        PROVE  TypeOK' /\ AboutShares'
    <3> DEFINE new == [pc |-> "locking", share |-> s, seen |-> rows[s],
                       patch |-> patch, expected |-> expected]
    <3>1. edit' = [edit EXCEPT ![e] = new] /\ edits' = edits + 1 /\ rows' = rows
      BY <2>2 DEF Begin
    <3>2. new \in Edit /\ new.share = s
      BY <2>0 DEF Edit
    <3> HIDE DEF new
    <3> QED
      BY <1>2, <2>0, <3>1, <3>2 DEF TypeOK
  <2>3. ASSUME NEW e \in Editors, NEW s \in Shares, BeginCreate(e, s)
        PROVE  TypeOK' /\ AboutShares'
    BY <2>2, <2>3, SplitsAssumption DEF BeginCreate
  <2>4. ASSUME NEW e \in Editors, NEW s \in Shares, BeginUpdate(e, s)
        PROVE  TypeOK' /\ AboutShares'
    <3>1. rows[s].version \in Nat
      BY <2>0 DEF Row
    <3>2. PICK patch \in Requests, expected \in Nat \cup {Unversioned} :
            Begin(e, s, patch, expected)
      BY <2>4, <3>1 DEF BeginUpdate
    <3> QED
      BY <2>2, <3>2, SplitsAssumption
  <2>5. ASSUME NEW e \in Editors, Check(e)  PROVE TypeOK' /\ AboutShares'
    <3>1. CASE Leave(e)
      BY <2>0, <2>1, <2>5, <3>1 DEF Check, TypeOK
    <3>2. CASE edit' = [edit EXCEPT ![e].pc = "writing"]
      <4>1. edit' \in [Editors -> Edit] /\ \A o \in Editors : edit'[o].share = edit[o].share
        BY <2>0, <3>2 DEF Edit
      <4>2. \A o \in Editors : edit'[o].pc # "idle" => edit[o].pc # "idle"
        BY <2>0, <2>5, <3>2 DEF Check, Edit
      <4> QED
        BY <1>2, <2>0, <2>5, <4>1, <4>2 DEF Check, TypeOK
    <3> QED
      BY <2>5, <3>1, <3>2 DEF Check
  <2>6. ASSUME NEW e \in Editors, Write(e)  PROVE TypeOK' /\ AboutShares'
    <3> DEFINE new == Stored(rows[edit[e].share], edit[e].patch)
    <3>1. edit[e].share \in Shares /\ edit[e].patch \in Patch
      BY <1>2, <2>0, <2>6 DEF Write, Edit
    <3>2. new \in Row
      BY <2>0, <3>1, PatchedRow
    <3>3. rows' = rows \/ rows' = [rows EXCEPT ![edit[e].share] = new]
      BY <2>6 DEF Write
    <3> HIDE DEF new
    <3>4. rows' \in [Shares -> Row]
      BY <2>0, <3>2, <3>3
    <3> QED
      BY <2>0, <2>1, <2>6, <3>4 DEF Write, TypeOK
  <2>7. ASSUME NEW e \in Editors, Fail(e)  PROVE TypeOK' /\ AboutShares'
    BY <2>0, <2>1, <2>7 DEF Fail, TypeOK
  <2>8. ASSUME NEW s \in Shares, Remove(s)  PROVE TypeOK' /\ AboutShares'
    <3> DEFINE v == rows[s].version + 1
               new == Removed(rows[s])
    <3>1. rows[s] \in Row /\ v \in Nat
      BY <2>0 DEF Row
    <3>2. new = [rows[s] EXCEPT !.live = FALSE, !.version = v]
      BY DEF Removed
    <3>3. rows' = [rows EXCEPT ![s] = new] /\ edits' = edits + 1 /\ edit' = edit
      BY <2>8 DEF Remove
    <3> HIDE DEF v, new
    <3>4. new \in Row
      BY <3>1, <3>2 DEF Row
    <3> QED
      BY <1>2, <2>0, <3>3, <3>4 DEF TypeOK
  <2>9. CASE UNCHANGED vars
    BY <1>2, <2>9 DEF vars, TypeOK
  <2> QED
    BY <1>2, <2>3, <2>4, <2>5, <2>6, <2>7, <2>8, <2>9 DEF Next
<1> QED
  BY <1>1, <1>2, PTL DEF Spec

\* No sequence of updates, each of them legal on the row its user saw, leaves
\* a share that is counted in the split of a work and in that of a phonogram.
THEOREM SharesHaveOneStructure == ASSUME Versioned PROVE Spec => []OneStructure
<1>1. IInv => OneStructure
  BY DEF IInv
<1> QED
  BY <1>1, Invariance, PTL

\* expectedUpdatedAt does for the whole transaction what it is compared for in
\* one statement: the read, the checks and the write are of one row.
THEOREM UpdatesAreNotLost == ASSUME Versioned PROVE Spec => NoLostUpdate
<1>1. ASSUME IInv, NEW e \in Editors, Write(e), rows' # rows
      PROVE  rows[edit[e].share] = edit[e].seen
  BY <1>1, WritesWhatItSaw DEF Write, Written
<1>2. IInv /\ [Next]_vars =>
        [\A e \in Editors : Write(e) /\ rows' # rows => rows[edit[e].share] = edit[e].seen]_vars
  BY <1>1
<1> QED
  BY <1>2, Invariance, PTL DEF Spec, NoLostUpdate

\* Whatever creates, moves, changes of type or percentage and removals run at
\* the same time, the eligible shares of every work and every phonogram fit the
\* budget, for any number of editors and shares.
THEOREM SplitsStayWithinBudget == ASSUME Versioned PROVE Spec => []SplitsWithinBudget
<1>1. Init => IInv /\ BudgetInv
  BY InitHolds, InitFits
<1>2. IInv /\ BudgetInv /\ [Next]_vars => IInv' /\ BudgetInv'
  BY StepKeeps, StepFits
<1>3. BudgetInv => SplitsWithinBudget
  BY SplitsFitIsBudget DEF BudgetInv
<1> QED
  BY <1>1, <1>2, <1>3, PTL DEF Spec
=============================================================================
