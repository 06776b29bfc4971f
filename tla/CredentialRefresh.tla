-------------------------- MODULE CredentialRefresh --------------------------
(***************************************************************************)
(* One stored credential: its refresh against the system it logs in to,    *)
(* its edits, and the write-back of browser state.                         *)
(*                                                                         *)
(* A refresh (modules/credential/service/credential_refresh_service.py) is *)
(* one database transaction: it reads the row, takes the row lock, adds a  *)
(* lease, talks to the target while it holds the lock, and writes the new  *)
(* secret where the revision is still the one it was called with.  Under   *)
(* the REPEATABLE READ of MySQL the plain reads of a transaction see the   *)
(* data of its first read, and the session returns the object it already   *)
(* holds: the "second" read of the revision, after the lock, cannot differ *)
(* from the first.  Locking reads and updates see the current row.         *)
(*                                                                         *)
(* A secret is abstracted to the target session in it and the number of    *)
(* user changes merged into it.                                            *)
(***************************************************************************)
EXTENDS Naturals

CONSTANTS
  Refresher,     \* calls of refresh_credential: page, scheduler
  Editor,        \* users who edit, and runs that write back
  Nobody,
  CanLogin,      \* http_login, or a login configured as fallback?
  MaxRevision,   \* bound: revisions of the row
  MaxSession     \* bound: sessions the target opens

ASSUME CredentialAssumption ==
  /\ Refresher \cap Editor = {}
  /\ Nobody \notin Refresher \cup Editor
  /\ CanLogin \in BOOLEAN

Client == Refresher \cup Editor

VARIABLES
  row,       \* auth_credential, as committed
  lock,      \* who holds the lock on that row
  leases,    \* auth_credential_lease: whose lease is committed
  target,    \* the session the target accepts
  pc,        \* where each client stands
  expected,  \* the expected_revision it was called with
  view,      \* what it has in hand: the row it read, and the leases it saw
  saved      \* history: user changes confirmed

vars == <<row, lock, leases, target, pc, expected, view, saved>>

Row == [revision : Nat, session : Nat, edits : Nat, deleted : BOOLEAN]
FirstRow == [revision |-> 1, session |-> 1, edits |-> 0, deleted |-> FALSE]
View == [row : Row, leases : SUBSET Refresher]
Phase == {"idle", "open", "read", "exchange", "answered", "failed", "release", "crashed"}

Snapshot == [row |-> row, leases |-> leases]
NoView == [row |-> FirstRow, leases |-> {}]
Goes(c, p) == pc' = [pc EXCEPT ![c] = p]

(* The call is over, and with it what it had read.                         *)
Ends(c, p) ==
  /\ Goes(c, p)
  /\ expected' = [expected EXCEPT ![c] = 1]
  /\ view' = [view EXCEPT ![c] = NoView]

(* UPDATE ... WHERE del_flag = '0' AND revision = expected; the mutated     *)
(* form forgets the revision.                                              *)
AnyRevision(revision) == ~row.deleted
Matches(revision) == ~row.deleted /\ row.revision = revision

Init ==
  /\ row = FirstRow
  /\ lock = Nobody
  /\ leases = {}
  /\ target = 1
  /\ pc = [c \in Client |-> "idle"]
  /\ expected = [c \in Client |-> 1]
  /\ view = [c \in Client |-> NoView]
  /\ saved = 0

-----------------------------------------------------------------------------
(* A refresh.                                                              *)

(* The call and its first read; a call with an outdated revision, or for a *)
(* deleted credential, ends here.                                          *)
Read(r) ==
  /\ pc[r] = "idle" /\ ~row.deleted
  /\ row.revision < MaxRevision /\ target < MaxSession
  /\ expected' = [expected EXCEPT ![r] = row.revision]
  /\ view' = [view EXCEPT ![r] = Snapshot]
  /\ Goes(r, "read")
  /\ UNCHANGED <<row, lock, leases, target, saved>>

(* The row lock, and no lease in sight: the new lease is not committed.    *)
(* The mutated form looks at the leases alone.                             *)
AcquireUnlocked(r) ==
  /\ pc[r] = "read"
  /\ view[r].leases = {}
  /\ lock' = r
  /\ Goes(r, "exchange")
  /\ UNCHANGED <<row, leases, target, expected, view, saved>>
Acquire(r) ==
  /\ pc[r] = "read" /\ lock = Nobody
  /\ view[r].leases = {}
  /\ lock' = r
  /\ Goes(r, "exchange")
  /\ UNCHANGED <<row, leases, target, expected, view, saved>>

(* The row lock, but another lease: the log entry is committed, which      *)
(* frees the lock.                                                         *)
LeaseConflict(r) ==
  /\ pc[r] = "read" /\ lock = Nobody
  /\ view[r].leases # {}
  /\ Ends(r, "idle")
  /\ UNCHANGED <<row, lock, leases, target, saved>>

(* The wait for the lock times out: the handler marks the row as failed,   *)
(* for which it needs the lock too.                                        *)
LockTimeout(r) ==
  /\ pc[r] = "read" /\ lock # Nobody
  /\ Goes(r, "failed")
  /\ UNCHANGED <<row, lock, leases, target, expected, view, saved>>

(* That update runs, or its wait times out as well.                        *)
MarkFailed(r) ==
  /\ pc[r] = "failed"
  /\ Ends(r, "idle")
  /\ UNCHANGED <<row, lock, leases, target, saved>>

(* The target refreshes the session of the secret it is shown, or logs in  *)
(* anew: either way the earlier session ends.                              *)
Accepts(r) == CanLogin \/ view[r].row.session = target

Exchange(r) ==
  /\ pc[r] = "exchange"
  /\ Accepts(r)
  /\ target' = target + 1
  /\ view' = [view EXCEPT ![r].row.session = target + 1]
  /\ Goes(r, "answered")
  /\ UNCHANGED <<row, lock, leases, expected, saved>>

(* Commit: the lock is freed and the lease becomes visible.  The mutated   *)
(* form leaves the transaction open.                                       *)
CommitForgotten(r) ==
  /\ UNCHANGED <<lock, leases>>
  /\ Goes(r, "release")
Commit(r) ==
  /\ lock' = Nobody
  /\ leases' = leases \cup {r}
  /\ Goes(r, "release")

(* The new secret, and a commit; where the revision has moved on, only a   *)
(* log entry is committed and the new session is lost.                     *)
Store(r) ==
  /\ pc[r] = "answered"
  /\ row' = IF Matches(expected[r])
            THEN [row EXCEPT !.revision = expected[r] + 1,
                             !.session = view[r].row.session,
                             !.edits = view[r].row.edits]
            ELSE row
  /\ Commit(r)
  /\ UNCHANGED <<target, expected, view, saved>>

(* The exchange raises: the target may have opened a session all the same  *)
(* (a login before the retried refresh, an answer that was not usable).    *)
(* The update of the status leaves secret and revision alone.              *)
ExchangeFails(r) ==
  /\ pc[r] = "exchange"
  /\ target' = target \/ (Accepts(r) /\ target' = target + 1)
  /\ Commit(r)
  /\ UNCHANGED <<row, expected, view, saved>>

(* The lease is given back; the mutated form expects to find it.           *)
ReleaseFound(r) ==
  /\ pc[r] = "release" /\ r \in leases
  /\ leases' = leases \ {r}
  /\ Ends(r, "idle")
  /\ UNCHANGED <<row, lock, target, saved>>
Release(r) ==
  /\ pc[r] = "release"
  /\ leases' = leases \ {r}
  /\ Ends(r, "idle")
  /\ UNCHANGED <<row, lock, target, saved>>

(* The process dies: the transaction is rolled back, a committed lease     *)
(* stays.  The target keeps what it did.                                   *)
Crash(r) ==
  /\ pc[r] \notin {"idle", "crashed"}
  /\ lock' = IF lock = r THEN Nobody ELSE lock
  /\ Ends(r, "crashed")
  /\ UNCHANGED <<row, leases, target, saved>>

(* Three hundred seconds after its creation a lease counts no more.        *)
LeaseExpires(r) ==
  /\ r \in leases
  /\ leases' = leases \ {r}
  /\ view' = [c \in Client |-> [view[c] EXCEPT !.leases = @ \ {r}]]
  /\ UNCHANGED <<row, lock, target, pc, expected, saved>>

-----------------------------------------------------------------------------
(* Edits and write-backs.                                                  *)

(* The page shows the credential; a web run is given its projection.       *)
Open(e) ==
  /\ pc[e] = "idle" /\ ~row.deleted /\ row.revision < MaxRevision
  /\ expected' = [expected EXCEPT ![e] = row.revision]
  /\ Goes(e, "open")
  /\ UNCHANGED <<row, lock, leases, target, view, saved>>

(* The request reads the secret the change is merged into.                 *)
Submit(e) ==
  /\ pc[e] = "open" /\ ~row.deleted
  /\ view' = [view EXCEPT ![e] = Snapshot]
  /\ Goes(e, "read")
  /\ UNCHANGED <<row, lock, leases, target, expected, saved>>

(* The credential is gone, or a write-back sees another revision at once.  *)
Refused(e) ==
  /\ pc[e] = "open" /\ ~Matches(expected[e])
  /\ Ends(e, "idle")
  /\ UNCHANGED <<row, lock, leases, target, saved>>

(* The update and its commit.                                              *)
Save(e) ==
  /\ pc[e] = "read" /\ lock = Nobody
  /\ IF Matches(expected[e])
     THEN /\ row' = [row EXCEPT !.revision = expected[e] + 1,
                                !.session = view[e].row.session,
                                !.edits = view[e].row.edits + 1]
          /\ saved' = saved + 1
     ELSE UNCHANGED <<row, saved>>
  /\ Ends(e, "idle")
  /\ UNCHANGED <<lock, leases, target>>

(* An edit of other fields keeps the secret and takes a revision.          *)
SaveFields(e) ==
  /\ pc[e] = "read" /\ lock = Nobody
  /\ row' = IF Matches(expected[e]) THEN [row EXCEPT !.revision = expected[e] + 1] ELSE row
  /\ Ends(e, "idle")
  /\ UNCHANGED <<lock, leases, target, saved>>

(* The wait for the lock times out: rollback, and an error.                *)
SaveTimesOut(e) ==
  /\ pc[e] = "read" /\ lock # Nobody
  /\ Ends(e, "idle")
  /\ UNCHANGED <<row, lock, leases, target, saved>>

(* Deletion does not look at the revision.                                 *)
Delete(e) ==
  /\ pc[e] = "idle" /\ lock = Nobody /\ ~row.deleted
  /\ row' = [row EXCEPT !.deleted = TRUE]
  /\ UNCHANGED <<lock, leases, target, pc, expected, view, saved>>

-----------------------------------------------------------------------------
Refresh(r) ==
  \/ Acquire(r) \/ LeaseConflict(r) \/ LockTimeout(r) \/ MarkFailed(r)
  \/ Exchange(r) \/ ExchangeFails(r) \/ Store(r) \/ Release(r)

Edit(e) == Save(e) \/ SaveFields(e) \/ SaveTimesOut(e)

Next ==
  \/ \E r \in Refresher : Read(r) \/ Refresh(r) \/ Crash(r) \/ LeaseExpires(r)
  \/ \E e \in Editor : Open(e) \/ Submit(e) \/ Refused(e) \/ Edit(e) \/ Delete(e)

(* Every request to the target has a time limit, every wait for a lock     *)
(* too, and the handler goes on after each.                                *)
Fairness ==
  /\ \A r \in Refresher : WF_vars(Refresh(r))
  /\ \A e \in Editor : WF_vars(Edit(e))

Spec == Init /\ [][Next]_vars /\ Fairness

-----------------------------------------------------------------------------
RecordsTyped ==
  /\ row \in Row
  /\ lock \in Refresher \cup {Nobody}
  /\ leases \subseteq Refresher
  /\ target \in Nat /\ saved \in Nat
  /\ pc \in [Client -> Phase]
  /\ view \in [Client -> View]
  /\ expected \in [Client -> Nat]

(* The row lock is held exactly while its holder talks to the target: no   *)
(* path out of the exchange leaves its transaction open.                   *)
LockHeld ==
  \A r \in Refresher : lock = r <=> pc[r] \in {"exchange", "answered"}

TypeOK == RecordsTyped /\ LockHeld

(* Every change a user was told is saved is part of the stored secret:     *)
(* no refresh writes back a secret it read before the change, and no edit  *)
(* merges into one that has been replaced (refresh_credential,             *)
(* update_credential, writeback_storage_state).                            *)
SavedChangesStay == row.edits = saved

(* A refresh stores no session that another exchange has already ended:    *)
(* what it writes is what the target accepts at that moment                *)
(* (CredentialLeaseService.acquire, refresh_credential).                   *)
StoredSessionIsAccepted ==
  [][\A r \in Refresher : Store(r) /\ row' # row => row'.session = target']_vars

(* With transactions and clients out of sight there is one secret: every   *)
(* refresh replaces an ended session by the one the target accepts and     *)
(* keeps the changes, every edit keeps the session (refresh_credential,    *)
(* update_credential, writeback_storage_state).                            *)
Secret == INSTANCE StoredSecret
            WITH session <- row.session, changes <- row.edits,
                 revision <- row.revision, deleted <- row.deleted,
                 accepted <- target
ImplementsSecret == Secret!Spec

(* Whatever the target, the lease and the other users do, a call for the   *)
(* credential comes to an end.                                             *)
CallsEnd ==
  \A c \in Client : pc[c] \notin {"idle", "open"} ~> pc[c] \in {"idle", "crashed"}

(* "The version is read again after the lease has been acquired, so that a *)
(* refresh that another task completed during the wait is noticed": a      *)
(* refresh that goes to the target does so at the stored revision          *)
(* (refresh_credential).                                                   *)
ExchangeAtItsRevision ==
  \A r \in Refresher : pc[r] = "exchange" => row.revision = view[r].row.revision

=============================================================================
