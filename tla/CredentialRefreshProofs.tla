----------------------- MODULE CredentialRefreshProofs -----------------------
(***************************************************************************)
(* Theorems about CredentialRefresh, for any number of refreshes and       *)
(* editors and whatever the bounds.  The argument: the row lock makes the  *)
(* exchange exclusive, so what a refresh was answered is what the target   *)
(* accepts until it is stored; and every change of the row takes a new     *)
(* revision, so a client whose revision still matches has in hand the      *)
(* secret the row holds.                                                   *)
(***************************************************************************)
EXTENDS CredentialRefresh, TLAPS

(* What an exchange answered is what the target accepts.                   *)
AnswerAccepted ==
  \A r \in Refresher : pc[r] = "answered" => view[r].row.session = target

(* A client whose revision is the row's has the row's changes in hand.     *)
ViewFollowsRow ==
  \A c \in Client : pc[c] \in {"read", "exchange", "answered"} =>
    /\ expected[c] <= view[c].row.revision
    /\ view[c].row.revision <= row.revision
    /\ view[c].row.revision = row.revision => view[c].row.edits = row.edits

(* The revision a page shows is not ahead of the row.                      *)
PageNotAhead ==
  \A c \in Client : pc[c] = "open" => expected[c] <= row.revision

IInv ==
  /\ RecordsTyped
  /\ LockHeld
  /\ AnswerAccepted
  /\ ViewFollowsRow
  /\ PageNotAhead
  /\ SavedChangesStay

USE CredentialAssumption

-----------------------------------------------------------------------------
LEMMA InitInv == Init => IInv
BY DEF Init, IInv, RecordsTyped, LockHeld, AnswerAccepted, ViewFollowsRow, PageNotAhead,
       SavedChangesStay, Row, View, Phase, FirstRow, NoView, Client

(* The end of a call, and the clients it leaves alone.                     *)
LEMMA EndsFacts ==
  ASSUME RecordsTyped, NEW c \in Client, NEW p \in Phase, Ends(c, p)
  PROVE  /\ pc' \in [Client -> Phase] /\ pc'[c] = p
         /\ view' \in [Client -> View] /\ expected' \in [Client -> Nat]
         /\ \A d \in Client \ {c} :
              pc'[d] = pc[d] /\ view'[d] = view[d] /\ expected'[d] = expected[d]
BY DEF RecordsTyped, Ends, Goes, NoView, FirstRow, View, Row

(* The numbers a client has in hand, and those of the row.                 *)
LEMMA Numbers ==
  ASSUME RecordsTyped
  PROVE  /\ row.revision \in Nat /\ row.edits \in Nat
         /\ \A c \in Client :
              /\ expected[c] \in Nat
              /\ view[c].row.revision \in Nat
              /\ view[c].row.session \in Nat
              /\ view[c].row.edits \in Nat
<1>1. row \in Row /\ \A c \in Client : view[c] \in View
  BY DEF RecordsTyped
<1> QED
  BY <1>1 DEF RecordsTyped, View, Row

(* A client that may write: what it has in hand is what the row holds.     *)
LEMMA WriterIsCurrent ==
  ASSUME RecordsTyped, ViewFollowsRow, NEW c \in Client,
         pc[c] \in {"read", "exchange", "answered"}, Matches(expected[c])
  PROVE  /\ expected[c] = row.revision
         /\ view[c].row.revision = row.revision
         /\ view[c].row.edits = row.edits
<1>1. expected[c] = row.revision
  BY DEF Matches
<1>2. /\ expected[c] <= view[c].row.revision
      /\ view[c].row.revision <= row.revision
      /\ view[c].row.revision = row.revision => view[c].row.edits = row.edits
  BY DEF ViewFollowsRow
<1>3. view[c].row.revision = row.revision
  BY <1>1, <1>2, Numbers
<1> QED
  BY <1>1, <1>2, <1>3

LEMMA RefreshTypes == ASSUME IInv, NEW r \in Refresher,
                             Read(r) \/ Refresh(r) \/ Crash(r) \/ LeaseExpires(r)
                      PROVE  RecordsTyped'
<1>1. RecordsTyped /\ r \in Client
  BY DEF IInv, Client
<1>2. CASE Read(r)
  BY <1>1, <1>2 DEF RecordsTyped, Read, Goes, Snapshot, View, Row, Phase
<1>3. CASE Acquire(r) \/ LockTimeout(r)
  BY <1>1, <1>3 DEF RecordsTyped, Acquire, LockTimeout, Goes, Phase
<1>4. CASE LeaseConflict(r) \/ MarkFailed(r) \/ Release(r) \/ Crash(r)
  <2>1. \E p \in Phase : Ends(r, p)
    BY <1>4 DEF LeaseConflict, MarkFailed, Release, Crash, Phase
  <2> QED
    BY <1>1, <1>4, <2>1, EndsFacts DEF RecordsTyped, LeaseConflict, MarkFailed, Release, Crash
<1>5. CASE Exchange(r)
  <2>1. view'[r] = [view[r] EXCEPT !.row.session = target + 1]
    BY <1>1, <1>5 DEF RecordsTyped, Exchange
  <2>2. view[r] \in View /\ target + 1 \in Nat
    BY <1>1 DEF RecordsTyped
  <2>3. view'[r] \in View
    BY <2>1, <2>2 DEF View, Row
  <2>4. view' \in [Client -> View]
    BY <1>1, <1>5, <2>3 DEF RecordsTyped, Exchange
  <2>5. target' \in Nat
    BY <1>5, <2>2 DEF Exchange
  <2> QED
    BY <1>1, <1>5, <2>4, <2>5 DEF RecordsTyped, Exchange, Goes, Phase
<1>6. CASE Store(r)
  <2>1. row \in Row /\ expected[r] + 1 \in Nat
    BY <1>1, Numbers DEF RecordsTyped
  <2>2. row' \in Row
    <3>1. view[r].row.session \in Nat /\ view[r].row.edits \in Nat
      BY <1>1, Numbers
    <3> QED
      BY <1>6, <2>1, <3>1 DEF Store, Row
  <2> QED
    BY <1>1, <1>6, <2>2 DEF RecordsTyped, Store, Commit, Goes, Phase
<1>7. CASE ExchangeFails(r)
  BY <1>1, <1>7 DEF RecordsTyped, ExchangeFails, Commit, Goes, Phase
<1>8. CASE LeaseExpires(r)
  BY <1>1, <1>8 DEF RecordsTyped, LeaseExpires, View
<1> QED
  BY <1>2, <1>3, <1>4, <1>5, <1>6, <1>7, <1>8 DEF Refresh

LEMMA EditTypes == ASSUME IInv, NEW e \in Editor,
                          Open(e) \/ Submit(e) \/ Refused(e) \/ Edit(e) \/ Delete(e)
                   PROVE  RecordsTyped'
<1>1. RecordsTyped /\ e \in Client
  BY DEF IInv, Client
<1>2. CASE Open(e) \/ Delete(e)
  BY <1>1, <1>2 DEF RecordsTyped, Open, Delete, Goes, Phase, Row
<1>3. CASE Submit(e)
  BY <1>1, <1>3 DEF RecordsTyped, Submit, Goes, Snapshot, View, Phase
<1>4. CASE Refused(e) \/ Edit(e)
  <2>1. \E p \in Phase : Ends(e, p)
    BY <1>4 DEF Refused, Edit, Save, SaveFields, SaveTimesOut, Phase
  <2>2. lock' \in Refresher \cup {Nobody} /\ leases' \subseteq Refresher /\ target' \in Nat
    BY <1>1, <1>4 DEF RecordsTyped, Refused, Edit, Save, SaveFields, SaveTimesOut
  <2>3. row' \in Row /\ saved' \in Nat
    <3>1. /\ row \in Row /\ saved \in Nat
          /\ expected[e] + 1 \in Nat /\ view[e].row.edits + 1 \in Nat
      BY <1>1, Numbers DEF RecordsTyped
    <3>2. CASE Refused(e) \/ SaveTimesOut(e)
      BY <3>1, <3>2 DEF Refused, SaveTimesOut
    <3>3. CASE Save(e)
      <4>1. CASE Matches(expected[e])
        <5>1. row' = [row EXCEPT !.revision = expected[e] + 1,
                                 !.session = view[e].row.session,
                                 !.edits = view[e].row.edits + 1]
          BY <3>3, <4>1 DEF Save
        <5>2. view[e].row.session \in Nat
          BY <1>1, Numbers
        <5>3. row' \in Row
          BY <3>1, <5>1, <5>2 DEF Row
        <5>4. saved' \in Nat
          BY <3>1, <3>3, <4>1 DEF Save
        <5> QED
          BY <5>3, <5>4
      <4>2. CASE ~Matches(expected[e])
        BY <3>1, <3>3, <4>2 DEF Save
      <4> QED
        BY <4>1, <4>2
    <3>4. CASE SaveFields(e)
      BY <3>1, <3>4 DEF SaveFields, Row
    <3> QED
      BY <1>4, <3>2, <3>3, <3>4 DEF Edit
  <2> QED
    BY <1>1, <2>1, <2>2, <2>3, EndsFacts DEF RecordsTyped
<1> QED
  BY <1>2, <1>3, <1>4

-----------------------------------------------------------------------------
(* The steps of a refresh keep the rest of the invariant.                  *)

LEMMA RefreshLock == ASSUME IInv, NEW r \in Refresher,
                            Read(r) \/ Refresh(r) \/ Crash(r) \/ LeaseExpires(r)
                     PROVE  LockHeld'
<1>1. RecordsTyped /\ LockHeld /\ r \in Client /\ Refresher \subseteq Client /\ r # Nobody
  BY DEF IInv, Client
<1>2. CASE Read(r) \/ Acquire(r) \/ LockTimeout(r) \/ Exchange(r) \/ LeaseExpires(r)
  BY <1>1, <1>2 DEF RecordsTyped, LockHeld, Read, Acquire, LockTimeout, Exchange, LeaseExpires, Goes
<1>3. CASE LeaseConflict(r) \/ MarkFailed(r) \/ Release(r) \/ Crash(r)
  BY <1>1, <1>3 DEF RecordsTyped, LockHeld, LeaseConflict, MarkFailed, Release, Crash, Ends, Goes
<1>4. CASE Store(r) \/ ExchangeFails(r)
  BY <1>1, <1>4 DEF RecordsTyped, LockHeld, Store, ExchangeFails, Commit, Goes
<1> QED
  BY <1>2, <1>3, <1>4 DEF Refresh

LEMMA RefreshAnswer == ASSUME IInv, NEW r \in Refresher,
                              Read(r) \/ Refresh(r) \/ Crash(r) \/ LeaseExpires(r)
                       PROVE  AnswerAccepted'
<1>1. /\ RecordsTyped /\ LockHeld /\ AnswerAccepted
      /\ r \in Client /\ Refresher \subseteq Client
  BY DEF IInv, Client
<1>2. CASE Read(r) \/ Acquire(r) \/ LockTimeout(r)
  BY <1>1, <1>2 DEF RecordsTyped, AnswerAccepted, Read, Acquire, LockTimeout, Goes
<1>3. CASE LeaseConflict(r) \/ MarkFailed(r) \/ Release(r) \/ Crash(r)
  BY <1>1, <1>3 DEF RecordsTyped, AnswerAccepted, LeaseConflict, MarkFailed, Release, Crash, Ends, Goes
<1>4. CASE Exchange(r)
  <2>1. \A s \in Refresher \ {r} : pc'[s] # "answered"
    BY <1>1, <1>4 DEF RecordsTyped, LockHeld, Exchange, Goes
  <2>2. view'[r].row.session = target'
    <3>1. view'[r] = [view[r] EXCEPT !.row.session = target + 1]
      BY <1>1, <1>4 DEF RecordsTyped, Exchange
    <3>2. view[r] \in View
      BY <1>1 DEF RecordsTyped
    <3> QED
      BY <1>4, <3>1, <3>2 DEF Exchange, View, Row
  <2> QED
    BY <2>1, <2>2 DEF AnswerAccepted
<1>5. CASE Store(r)
  BY <1>1, <1>5 DEF RecordsTyped, AnswerAccepted, Store, Commit, Goes
<1>6. CASE ExchangeFails(r)
  BY <1>1, <1>6 DEF RecordsTyped, LockHeld, AnswerAccepted, ExchangeFails, Commit, Goes
<1>7. CASE LeaseExpires(r)
  <2>1. \A s \in Refresher : view'[s].row = view[s].row
    BY <1>1, <1>7 DEF RecordsTyped, LeaseExpires, View
  <2> QED
    BY <1>1, <1>7, <2>1 DEF AnswerAccepted, LeaseExpires
<1> QED
  BY <1>2, <1>3, <1>4, <1>5, <1>6, <1>7 DEF Refresh

(* Another client's revision and view, and whether it waits to write, do   *)
(* not depend on this refresh; the row only moves to a higher revision.    *)
LEMMA RefreshViews == ASSUME IInv, NEW r \in Refresher,
                             Read(r) \/ Refresh(r) \/ Crash(r) \/ LeaseExpires(r)
                      PROVE  ViewFollowsRow' /\ PageNotAhead' /\ SavedChangesStay'
<1>1. /\ RecordsTyped /\ ViewFollowsRow /\ PageNotAhead /\ SavedChangesStay
      /\ r \in Client
  BY DEF IInv, Client
<1>2. /\ row \in Row /\ expected \in [Client -> Nat]
      /\ view \in [Client -> View] /\ pc \in [Client -> Phase]
  BY <1>1 DEF RecordsTyped
<1>3. CASE Read(r) \/ Acquire(r) \/ LockTimeout(r)
  BY <1>1, <1>2, <1>3
     DEF ViewFollowsRow, PageNotAhead, SavedChangesStay, Read, Acquire, LockTimeout,
         Goes, Snapshot, Row
<1>4. CASE LeaseConflict(r) \/ MarkFailed(r) \/ Release(r) \/ Crash(r)
  BY <1>1, <1>2, <1>4
     DEF ViewFollowsRow, PageNotAhead, SavedChangesStay, LeaseConflict, MarkFailed,
         Release, Crash, Ends, Goes
<1>5. CASE Exchange(r) \/ LeaseExpires(r)
  <2>1. \A c \in Client : /\ view'[c].row.revision = view[c].row.revision
                          /\ view'[c].row.edits = view[c].row.edits
    BY <1>2, <1>5 DEF Exchange, LeaseExpires, View, Row
  <2>2. \A c \in Client : pc'[c] # pc[c] => pc[c] = "exchange" /\ pc'[c] = "answered"
    BY <1>2, <1>5 DEF Exchange, LeaseExpires, Goes
  <2>3. UNCHANGED <<row, expected, saved>>
    BY <1>5 DEF Exchange, LeaseExpires
  <2>4. ViewFollowsRow'
    BY <1>1, <2>1, <2>2, <2>3 DEF ViewFollowsRow
  <2> QED
    BY <1>1, <2>2, <2>3, <2>4 DEF PageNotAhead, SavedChangesStay
<1>6. CASE ExchangeFails(r)
  BY <1>1, <1>2, <1>6 DEF ViewFollowsRow, PageNotAhead, SavedChangesStay, ExchangeFails, Commit, Goes
<1>7. CASE Store(r)
  <2>1. pc' = [pc EXCEPT ![r] = "release"] /\ UNCHANGED <<view, expected, saved>>
    BY <1>7 DEF Store, Commit, Goes
  <2>2. CASE Matches(expected[r])
    <3>1. row' = [row EXCEPT !.revision = expected[r] + 1,
                             !.session = view[r].row.session,
                             !.edits = view[r].row.edits]
      BY <1>7, <2>2 DEF Store
    <3>2. expected[r] = row.revision /\ expected[r] = view[r].row.revision
      BY <1>1, <1>7, <2>2, WriterIsCurrent DEF Store
    <3>3. row'.revision = row.revision + 1 /\ row'.edits = row.edits
      <4>1. view[r].row.edits = row.edits
        BY <1>1, <1>7, <2>2, WriterIsCurrent DEF Store
      <4>2. /\ row.revision + 1 \in Nat /\ view[r].row.session \in Nat
            /\ row.edits \in Nat
        BY <1>1, Numbers
      <4>3. row' = [row EXCEPT !.revision = row.revision + 1,
                               !.session = view[r].row.session,
                               !.edits = row.edits]
        BY <3>1, <3>2, <4>1
      <4> QED
        BY <1>2, <4>2, <4>3 DEF Row
    <3>4. ViewFollowsRow'
      BY <1>1, <1>2, <2>1, <3>3, Numbers DEF ViewFollowsRow
    <3> QED
      BY <1>1, <1>2, <2>1, <3>3, <3>4 DEF PageNotAhead, SavedChangesStay, Row
  <2>3. CASE ~Matches(expected[r])
    BY <1>1, <1>2, <1>7, <2>1, <2>3 DEF Store, ViewFollowsRow, PageNotAhead, SavedChangesStay
  <2> QED
    BY <2>2, <2>3
<1> QED
  BY <1>3, <1>4, <1>5, <1>6, <1>7 DEF Refresh

-----------------------------------------------------------------------------
(* The steps of an editor: they hold no lock and change no session but the *)
(* row's.                                                                  *)
LEMMA EditLockAnswer == ASSUME IInv, NEW e \in Editor,
                               Open(e) \/ Submit(e) \/ Refused(e) \/ Edit(e) \/ Delete(e)
                        PROVE  LockHeld' /\ AnswerAccepted'
<1>1. /\ RecordsTyped /\ LockHeld /\ AnswerAccepted
      /\ e \in Client /\ Refresher \subseteq Client
      /\ \A r \in Refresher : r # e
  BY DEF IInv, Client
<1>2. lock' = lock /\ target' = target
  BY DEF Open, Submit, Refused, Edit, Save, SaveFields, SaveTimesOut, Delete
<1>3. \A r \in Refresher : pc'[r] = pc[r] /\ view'[r] = view[r]
  BY <1>1 DEF RecordsTyped, Open, Submit, Refused, Edit, Save, SaveFields, SaveTimesOut,
              Delete, Ends, Goes
<1> QED
  BY <1>1, <1>2, <1>3 DEF LockHeld, AnswerAccepted

LEMMA EditViews == ASSUME IInv, NEW e \in Editor,
                          Open(e) \/ Submit(e) \/ Refused(e) \/ Edit(e) \/ Delete(e)
                   PROVE  ViewFollowsRow' /\ PageNotAhead' /\ SavedChangesStay'
<1>1. /\ RecordsTyped /\ ViewFollowsRow /\ PageNotAhead /\ SavedChangesStay
      /\ e \in Client
  BY DEF IInv, Client
<1>2. /\ row \in Row /\ expected \in [Client -> Nat] /\ saved \in Nat
      /\ view \in [Client -> View] /\ pc \in [Client -> Phase]
  BY <1>1 DEF RecordsTyped
<1>3. CASE Open(e) \/ Submit(e) \/ Delete(e)
  BY <1>1, <1>2, <1>3
     DEF ViewFollowsRow, PageNotAhead, SavedChangesStay, Open, Submit, Delete, Goes,
         Snapshot, Row
<1>4. CASE Refused(e) \/ SaveTimesOut(e)
  BY <1>1, <1>2, <1>4
     DEF ViewFollowsRow, PageNotAhead, SavedChangesStay, Refused, SaveTimesOut, Ends, Goes
<1>5. CASE Save(e) \/ SaveFields(e)
  <2>1. Ends(e, "idle") /\ pc[e] = "read"
    BY <1>5 DEF Save, SaveFields
  <2>2. /\ pc'[e] = "idle"
        /\ \A c \in Client \ {e} :
             pc'[c] = pc[c] /\ view'[c] = view[c] /\ expected'[c] = expected[c]
    BY <1>1, <2>1, EndsFacts DEF Phase
  <2>3. CASE Matches(expected[e])
    <3>1. expected[e] = row.revision /\ view[e].row.edits = row.edits
      BY <1>1, <2>1, <2>3, WriterIsCurrent
    <3>2. row'.revision = row.revision + 1 /\ row'.edits = saved'
      <4>1. CASE Save(e)
        <5>1. /\ row.revision + 1 \in Nat /\ view[e].row.session \in Nat
              /\ row.edits + 1 \in Nat
          BY <1>1, Numbers
        <5>2. row' = [row EXCEPT !.revision = row.revision + 1,
                                 !.session = view[e].row.session,
                                 !.edits = row.edits + 1]
          BY <2>3, <3>1, <4>1 DEF Save
        <5>3. row'.revision = row.revision + 1 /\ row'.edits = row.edits + 1
          BY <1>2, <5>1, <5>2 DEF Row
        <5>4. saved' = saved + 1 /\ row.edits = saved
          BY <1>1, <2>3, <4>1 DEF Save, SavedChangesStay
        <5> QED
          BY <5>3, <5>4
      <4>2. CASE SaveFields(e)
        BY <1>1, <1>2, <2>3, <3>1, <4>2 DEF SaveFields, SavedChangesStay, Row
      <4> QED
        BY <1>5, <4>1, <4>2
    <3>3. ViewFollowsRow'
      BY <1>1, <1>2, <2>2, <3>2, Numbers DEF ViewFollowsRow
    <3> QED
      BY <1>1, <2>2, <3>2, <3>3, Numbers DEF PageNotAhead, SavedChangesStay
  <2>4. CASE ~Matches(expected[e])
    BY <1>1, <1>2, <1>5, <2>2, <2>4
       DEF Save, SaveFields, ViewFollowsRow, PageNotAhead, SavedChangesStay
  <2> QED
    BY <2>3, <2>4
<1> QED
  BY <1>3, <1>4, <1>5 DEF Edit

-----------------------------------------------------------------------------
LEMMA StepInv == IInv /\ [Next]_vars => IInv'
<1> SUFFICES ASSUME IInv, [Next]_vars PROVE IInv'
  OBVIOUS
<1>1. CASE \E r \in Refresher : Read(r) \/ Refresh(r) \/ Crash(r) \/ LeaseExpires(r)
  BY <1>1, RefreshTypes, RefreshLock, RefreshAnswer, RefreshViews DEF IInv
<1>2. CASE \E e \in Editor : Open(e) \/ Submit(e) \/ Refused(e) \/ Edit(e) \/ Delete(e)
  BY <1>2, EditTypes, EditLockAnswer, EditViews DEF IInv
<1>3. CASE UNCHANGED vars
  BY <1>3 DEF IInv, RecordsTyped, LockHeld, AnswerAccepted, ViewFollowsRow, PageNotAhead,
              SavedChangesStay, Matches, vars
<1> QED
  BY <1>1, <1>2, <1>3 DEF Next

LEMMA Invariance == Spec => []IInv
BY InitInv, StepInv, PTL DEF Spec

(* The variables keep their types, and the row lock is held exactly during *)
(* the exchange with the target, for any number of clients.                *)
THEOREM TypesHold == Spec => []TypeOK
<1>1. IInv => TypeOK
  BY DEF IInv, TypeOK
<1> QED
  BY <1>1, Invariance, PTL

(* No change a user was told is saved is ever missing from the secret,     *)
(* whoever refreshes, edits or writes back, and however often.             *)
THEOREM NoSavedChangeIsLost == Spec => []SavedChangesStay
<1>1. IInv => SavedChangesStay
  BY DEF IInv
<1> QED
  BY <1>1, Invariance, PTL

(* A refresh never stores a session that another exchange has ended.       *)
THEOREM RefreshesStoreLiveSessions == Spec => StoredSessionIsAccepted
<1>1. ASSUME IInv, NEW r \in Refresher, Store(r), row' # row
      PROVE  row'.session = target'
  <2>1. view[r].row.session = target /\ target' = target
    BY <1>1 DEF IInv, AnswerAccepted, Store
  <2>2. row' = [row EXCEPT !.revision = expected[r] + 1,
                           !.session = view[r].row.session,
                           !.edits = view[r].row.edits]
    BY <1>1 DEF Store
  <2>3. row \in Row
    BY <1>1 DEF IInv, RecordsTyped
  <2> QED
    BY <2>1, <2>2, <2>3 DEF Row
<1>2. IInv /\ [Next]_vars =>
        [\A r \in Refresher : Store(r) /\ row' # row => row'.session = target']_vars
  BY <1>1
<1> QED
  BY <1>2, Invariance, PTL DEF Spec, StoredSessionIsAccepted

-----------------------------------------------------------------------------
(* The refinement of StoredSecret.                                         *)

(* A client that has not been to the target has the row's session in hand  *)
(* as long as the row has the revision it read.                            *)
SessionFollowsRow ==
  \A c \in Client :
    pc[c] \in {"read", "exchange"} /\ view[c].row.revision = row.revision =>
      view[c].row.session = row.session

(* What an exchange answered replaces a session the target has ended.      *)
AnswerIsNewer ==
  /\ row.session <= target
  /\ \A r \in Refresher : pc[r] = "answered" => row.session < target

SessionInv == SessionFollowsRow /\ AnswerIsNewer

(* What each step that writes the row makes of it.                         *)
LEMMA StoreWrites ==
  ASSUME IInv, NEW r \in Refresher, Store(r), Matches(expected[r])
  PROVE  /\ ~row.deleted /\ row'.deleted = row.deleted
         /\ row'.revision = row.revision + 1
         /\ row'.session = target /\ target' = target
         /\ row'.edits = row.edits
<1>1. /\ RecordsTyped /\ ViewFollowsRow /\ AnswerAccepted /\ r \in Client
      /\ row \in Row /\ pc[r] = "answered"
  BY DEF IInv, RecordsTyped, Client, Store
<1>2. /\ expected[r] = row.revision
      /\ view[r].row.edits = row.edits /\ view[r].row.session = target
  BY <1>1, WriterIsCurrent DEF AnswerAccepted
<1>3. /\ row' = [row EXCEPT !.revision = row.revision + 1,
                            !.session = target, !.edits = row.edits]
      /\ target' = target /\ ~row.deleted
  BY <1>2 DEF Store, Matches
<1> QED
  BY <1>1, <1>3 DEF Row

LEMMA SaveWrites ==
  ASSUME IInv, SessionInv, NEW e \in Editor, Save(e), Matches(expected[e])
  PROVE  /\ ~row.deleted /\ row'.deleted = row.deleted
         /\ row'.revision = row.revision + 1
         /\ row'.session = row.session /\ target' = target
         /\ row'.edits = row.edits + 1
<1>1. /\ RecordsTyped /\ ViewFollowsRow /\ e \in Client
      /\ row \in Row /\ pc[e] = "read"
  BY DEF IInv, RecordsTyped, Client, Save
<1>2. /\ expected[e] = row.revision /\ view[e].row.revision = row.revision
      /\ view[e].row.edits = row.edits
  BY <1>1, WriterIsCurrent
<1>3. view[e].row.session = row.session
  BY <1>1, <1>2 DEF SessionInv, SessionFollowsRow
<1>4. /\ row' = [row EXCEPT !.revision = row.revision + 1,
                            !.session = row.session, !.edits = row.edits + 1]
      /\ target' = target /\ ~row.deleted
  BY <1>2, <1>3 DEF Save, Matches
<1> QED
  BY <1>1, <1>4 DEF Row

LEMMA SaveFieldsWrites ==
  ASSUME IInv, NEW e \in Editor, SaveFields(e), Matches(expected[e])
  PROVE  /\ ~row.deleted /\ row'.deleted = row.deleted
         /\ row'.revision = row.revision + 1
         /\ row'.session = row.session /\ target' = target
         /\ row'.edits = row.edits
BY DEF IInv, RecordsTyped, Row, SaveFields, Matches

(* A step of a refresh that leaves the row alone opens at most one session.*)
LEMMA RefreshReads ==
  ASSUME IInv, NEW r \in Refresher,
         Read(r) \/ Refresh(r) \/ Crash(r) \/ LeaseExpires(r),
         ~(Store(r) /\ Matches(expected[r]))
  PROVE  row' = row /\ (target' = target \/ target' = target + 1)
BY DEF Read, Refresh, Crash, LeaseExpires, Acquire, LeaseConflict, LockTimeout,
       MarkFailed, Exchange, ExchangeFails, Store, Release

LEMMA SessionInit == Init => SessionInv
<1> SUFFICES ASSUME Init PROVE SessionInv
  OBVIOUS
<1>1. \A c \in Client : pc[c] = "idle"
  BY DEF Init
<1>2. row.session = 1 /\ target = 1
  BY DEF Init, FirstRow
<1> QED
  BY <1>1, <1>2 DEF SessionInv, SessionFollowsRow, AnswerIsNewer, Client

(* A new revision makes every copy of the row an old one.                  *)
LEMMA NewRevision ==
  ASSUME IInv, row'.revision = row.revision + 1,
         NEW w \in Client, pc'[w] \notin {"read", "exchange"},
         \A c \in Client \ {w} : pc'[c] = pc[c] /\ view'[c].row = view[c].row
  PROVE  SessionFollowsRow'
<1>1. \A c \in Client \ {w} :
        pc'[c] \in {"read", "exchange"} => view'[c].row.revision # row'.revision
  BY Numbers DEF IInv, ViewFollowsRow
<1> QED
  BY <1>1 DEF SessionFollowsRow

LEMMA RefreshSession ==
  ASSUME IInv, SessionInv, NEW r \in Refresher,
         Read(r) \/ Refresh(r) \/ Crash(r) \/ LeaseExpires(r)
  PROVE  SessionInv'
<1>1. /\ RecordsTyped /\ r \in Client /\ row.session \in Nat /\ target \in Nat
      /\ view \in [Client -> View] /\ pc \in [Client -> Phase]
      /\ Refresher \subseteq Client
  BY DEF IInv, RecordsTyped, Client, Row
<1>2. CASE Store(r) /\ Matches(expected[r])
  <2>1. pc' = [pc EXCEPT ![r] = "release"] /\ UNCHANGED view
    BY <1>2 DEF Store, Commit, Goes
  <2>2. row'.revision = row.revision + 1 /\ row'.session = target /\ target' = target
    BY <1>2, StoreWrites
  <2>3. SessionFollowsRow'
    BY <1>1, <2>1, <2>2, NewRevision
  <2>4. \A s \in Refresher : pc'[s] # "answered"
    BY <1>1, <1>2, <2>1 DEF IInv, LockHeld, Store
  <2> QED
    BY <1>1, <2>2, <2>3, <2>4 DEF SessionInv, AnswerIsNewer
<1>3. CASE ~(Store(r) /\ Matches(expected[r]))
  <2>1. row' = row /\ (target' = target \/ target' = target + 1)
    BY <1>3, RefreshReads
  <2>2. SessionFollowsRow'
    <3>1. \A c \in Client :
            pc'[c] \in {"read", "exchange"} =>
              \/ pc[c] \in {"read", "exchange"} /\ view'[c].row = view[c].row
              \/ view'[c].row = row
      <4>1. CASE Read(r)
        BY <1>1, <4>1 DEF Read, Goes, Snapshot
      <4>2. CASE LeaseExpires(r)
        BY <1>1, <4>2 DEF LeaseExpires, View
      <4>3. CASE LeaseConflict(r) \/ MarkFailed(r) \/ Release(r) \/ Crash(r)
        BY <1>1, <4>3 DEF LeaseConflict, MarkFailed, Release, Crash, Ends, Goes
      <4>4. CASE Acquire(r) \/ LockTimeout(r) \/ ExchangeFails(r) \/ Store(r)
        BY <1>1, <4>4 DEF Acquire, LockTimeout, ExchangeFails, Store, Commit, Goes
      <4>5. CASE Exchange(r)
        BY <1>1, <4>5 DEF Exchange, Goes
      <4> QED
        BY <4>1, <4>2, <4>3, <4>4, <4>5 DEF Refresh
    <3> QED
      BY <2>1, <3>1 DEF SessionInv, SessionFollowsRow
  <2>3. ASSUME NEW s \in Refresher, pc'[s] = "answered" PROVE row.session < target'
    <3>1. CASE Exchange(r)
      BY <1>1, <3>1 DEF Exchange, SessionInv, AnswerIsNewer
    <3>2. CASE ~Exchange(r)
      <4>1. pc[s] = "answered"
        BY <1>1, <2>3, <3>2
           DEF Read, Refresh, Crash, LeaseExpires, Acquire, LeaseConflict, LockTimeout,
               MarkFailed, ExchangeFails, Store, Release, Commit, Ends, Goes
      <4> QED
        BY <1>1, <2>1, <4>1 DEF SessionInv, AnswerIsNewer
    <3> QED
      BY <3>1, <3>2
  <2>4. row.session <= target'
    BY <1>1, <2>1 DEF SessionInv, AnswerIsNewer
  <2> QED
    BY <2>1, <2>2, <2>3, <2>4 DEF SessionInv, AnswerIsNewer
<1> QED
  BY <1>2, <1>3

LEMMA EditSession ==
  ASSUME IInv, SessionInv, NEW e \in Editor,
         Open(e) \/ Submit(e) \/ Refused(e) \/ Edit(e) \/ Delete(e)
  PROVE  SessionInv'
<1>1. /\ RecordsTyped /\ e \in Client /\ row \in Row /\ target' = target
      /\ view \in [Client -> View] /\ pc \in [Client -> Phase]
      /\ Refresher \subseteq Client /\ \A r \in Refresher : r # e
  BY DEF IInv, RecordsTyped, Client, Open, Submit, Refused, Edit, Save, SaveFields,
         SaveTimesOut, Delete
<1>2. \A c \in Client \ {e} : pc'[c] = pc[c] /\ view'[c] = view[c]
  BY <1>1 DEF Open, Submit, Refused, Edit, Save, SaveFields, SaveTimesOut, Delete,
              Ends, Goes
<1>3. CASE (Save(e) \/ SaveFields(e)) /\ Matches(expected[e])
  <2>1. row'.revision = row.revision + 1 /\ row'.session = row.session
    BY <1>3, SaveWrites, SaveFieldsWrites
  <2>2. pc'[e] = "idle"
    BY <1>1, <1>3 DEF Save, SaveFields, Ends, Goes
  <2>3. SessionFollowsRow'
    BY <1>1, <1>2, <2>1, <2>2, NewRevision
  <2> QED
    BY <1>1, <1>2, <2>1, <2>3 DEF SessionInv, AnswerIsNewer
<1>4. CASE ~((Save(e) \/ SaveFields(e)) /\ Matches(expected[e]))
  <2>1. row'.session = row.session /\ row'.revision = row.revision
    BY <1>1, <1>4 DEF Open, Submit, Refused, Edit, Save, SaveFields, SaveTimesOut,
                      Delete, Row
  <2>2. pc'[e] \in {"read", "exchange"} =>
          \/ pc[e] \in {"read", "exchange"} /\ view'[e] = view[e]
          \/ view'[e].row = row
    BY <1>1, <1>4 DEF Open, Submit, Refused, Edit, Save, SaveFields, SaveTimesOut,
                      Delete, Ends, Goes, Snapshot
  <2>3. SessionFollowsRow'
    BY <1>2, <2>1, <2>2 DEF SessionInv, SessionFollowsRow
  <2> QED
    BY <1>1, <1>2, <2>1, <2>3 DEF SessionInv, AnswerIsNewer
<1> QED
  BY <1>3, <1>4

LEMMA SessionStep == IInv /\ SessionInv /\ [Next]_vars => SessionInv'
<1>1. ASSUME UNCHANGED vars, SessionInv PROVE SessionInv'
  BY <1>1 DEF vars, SessionInv, SessionFollowsRow, AnswerIsNewer
<1> QED
  BY <1>1, RefreshSession, EditSession DEF Next

(* Every step is a step of the stored secret, or leaves it alone.          *)
LEMMA SecretStep ==
  ASSUME IInv, SessionInv, [Next]_vars PROVE [Secret!Next]_(Secret!secretVars)
<1> DEFINE Goal == [Secret!Next]_(Secret!secretVars)
<1>1. ASSUME NEW r \in Refresher,
             Read(r) \/ Refresh(r) \/ Crash(r) \/ LeaseExpires(r)
      PROVE  Goal
  <2>1. CASE Store(r) /\ Matches(expected[r])
    <3>1. row.session < target
      BY <2>1 DEF SessionInv, AnswerIsNewer, Store
    <3> QED
      BY <2>1, <3>1, StoreWrites DEF Secret!Next, Secret!Rotate, Secret!Write
  <2>2. CASE ~(Store(r) /\ Matches(expected[r]))
    <3>1. row' = row /\ (target' = target \/ target' = target + 1)
      BY <1>1, <2>2, RefreshReads
    <3> QED
      BY <3>1 DEF Secret!Next, Secret!OpenSession, Secret!secretVars
  <2> QED
    BY <2>1, <2>2
<1>2. ASSUME NEW e \in Editor,
             Open(e) \/ Submit(e) \/ Refused(e) \/ Edit(e) \/ Delete(e)
      PROVE  Goal
  <2>1. CASE Save(e) /\ Matches(expected[e])
    BY <2>1, SaveWrites DEF Secret!Next, Secret!Change, Secret!Write
  <2>2. CASE SaveFields(e) /\ Matches(expected[e])
    BY <2>2, SaveFieldsWrites DEF Secret!Next, Secret!EditFields, Secret!Write
  <2>3. CASE Delete(e)
    BY <2>3 DEF IInv, RecordsTyped, Row, Delete, Secret!Next, Secret!Delete
  <2>4. CASE /\ ~Delete(e)
             /\ ~((Save(e) \/ SaveFields(e)) /\ Matches(expected[e]))
    <3>1. row' = row /\ target' = target
      BY <1>2, <2>4 DEF Open, Submit, Refused, Edit, Save, SaveFields, SaveTimesOut
    <3> QED
      BY <3>1 DEF Secret!secretVars
  <2> QED
    BY <2>1, <2>2, <2>3, <2>4
<1>3. CASE UNCHANGED vars
  BY <1>3 DEF vars, Secret!secretVars
<1> QED
  BY <1>1, <1>2, <1>3 DEF Next

(* Whatever overlaps, fails or dies: the stored secret is one secret, each *)
(* refresh of it replaces a session the target has ended by the one it     *)
(* accepts and keeps every change, and no edit or write-back brings an     *)
(* ended session back.                                                     *)
THEOREM RefreshesImplementSecret == Spec => ImplementsSecret
<1>1. Init => Secret!Init
  BY DEF Init, FirstRow, Secret!Init
<1>2. IInv /\ SessionInv /\ [Next]_vars => [Secret!Next]_(Secret!secretVars)
  BY SecretStep
<1> QED
  BY <1>1, <1>2, InitInv, StepInv, SessionInit, SessionStep, PTL
     DEF Spec, ImplementsSecret, Secret!Spec

=============================================================================
