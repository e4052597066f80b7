------------------------------- MODULE Ledger -------------------------------
(***************************************************************************)
(* The distribution ledger in a client's portal                            *)
(* (src/server/utils/distributionLedgerWrite.ts, deletionReconcile.ts).    *)
(* A payment is a carrier element; the rows under it say to which deal or  *)
(* invoice its money went, and its field "rest" what is left of it.  Rows  *)
(* and rest are changed by separate REST calls of three writers that take  *)
(* no common lock: the crm-sync worker adds a row and recomputes, the      *)
(* deletion worker frees the rows of a deleted target and recomputes their *)
(* payments, the "recompute" button walks all payments.  Employees add and *)
(* remove rows by hand, and delete targets and payments, in the portal.    *)
(*                                                                         *)
(* The rest is kept as the set of rows it deducts.                         *)
(***************************************************************************)
EXTENDS Naturals, FiniteSets

CONSTANTS
  Payment,      \* incoming operations, one carrier element each
  Target,       \* deals and invoices that money is distributed to
  Row,          \* the rows that may ever exist
  Parent, To,   \* the payment and the target of a row
  Manual,       \* rows of employees; the others are written by crm-sync
  Fact,         \* zero rows that record a fired trigger
  NoPayment, NoTarget, NoRow,
  MaxWalked,    \* payments the button walks (MAX_LEDGER_PAYMENTS, 200)
  MaxAttempts,  \* attempts of a deletion job
  MaxRuns,      \* bound on the runs of crm-sync
  MaxEdits,     \* bound on the edits of rows and payments by hand
  MaxFaults     \* bound on failed calls and deaths

ASSUME LedgerAssumption ==
  /\ Parent \in [Row -> Payment] /\ To \in [Row -> Target]
  /\ Manual \subseteq Row /\ Fact \subseteq Row \ Manual
  /\ NoPayment \notin Payment /\ NoTarget \notin Target /\ NoRow \notin Row
  /\ MaxWalked \in Nat \ {0} /\ MaxAttempts \in Nat \ {0}
  /\ MaxRuns \in Nat /\ MaxEdits \in Nat /\ MaxFaults \in Nat

VARIABLES
  carrier,      \* payment elements: state, the rows their rest deducts, flag,
                \* the elements with smaller ids
  row,          \* states of the rows
  gone,         \* deleted targets
  writer,       \* the crm-sync worker inside writeLedgerAllocation
  cleaner,      \* the deletion worker inside reconcileTargetDeletion
  button,       \* a request to recompute all payments
  job, tries,   \* deletion jobs, one per target, and their failed attempts
  runs, edits,  \* runs of crm-sync, edits by hand
  drift,        \* history: payments whose rest nobody in flight will mend
  late,         \* history: rows added after the clean-up of their target looked
  faults

vars == <<carrier, row, gone, writer, cleaner, button, job, tries, runs,
          edits, drift, late, faults>>
-----------------------------------------------------------------------------
Carrier == [state: {"none", "live", "gone"}, counted: SUBSET Row,
            flag: BOOLEAN, older: SUBSET Payment]
Writer == [at: {"idle", "findPay", "addPay", "findRow", "addRow", "load", "save"},
           row: Row \cup {NoRow}, seen: SUBSET Row]
Cleaner == [at: {"idle", "list", "free", "read", "load", "save", "flag"},
            target: Target \cup {NoTarget}, rows: SUBSET Row, freed: SUBSET Row,
            parents: SUBSET Payment, pay: Payment \cup {NoPayment},
            seen: SUBSET Row]
Button == [at: {"idle", "walk", "save"}, left: SUBSET Payment,
           pay: Payment \cup {NoPayment}, seen: SUBSET Row]

Resting == [at |-> "idle", row |-> NoRow, seen |-> {}]
Clean == [at |-> "idle", target |-> NoTarget, rows |-> {}, freed |-> {},
          parents |-> {}, pay |-> NoPayment, seen |-> {}]
Released == [at |-> "idle", left |-> {}, pay |-> NoPayment, seen |-> {}]

Init ==
  /\ carrier = [p \in Payment |->
       [state |-> "none", counted |-> {}, flag |-> FALSE, older |-> {}]]
  /\ row = [r \in Row |-> "none"]
  /\ gone = {}
  /\ writer = Resting /\ cleaner = Clean /\ button = Released
  /\ job = [t \in Target |-> "none"] /\ tries = [t \in Target |-> 0]
  /\ runs = 0 /\ edits = 0
  /\ drift = {} /\ late = {}
  /\ faults = 0

RowsOf(p) == {r \in Row : Parent[r] = p}
RowsAt(t) == {r \in Row : To[r] = t}
Active(p) == {r \in RowsOf(p) \ Fact : row[r] = "active"}
Live == {p \in Payment : carrier[p].state = "live"}
Exact(p) == carrier[p].counted = Active(p)

\* The rest is written from rows that were read by an earlier call.
SaveRest(p, seen) ==
  /\ carrier[p].state = "live"
  /\ carrier' = [carrier EXCEPT ![p].counted = seen]
  /\ drift' = IF seen = Active(p) THEN drift \ {p} ELSE drift \cup {p}

-----------------------------------------------------------------------------
(* crm-sync: writeLedgerAllocation, or writeTriggerLedgerFact for a fact    *)

InHand == Parent[writer.row]

\* An operation is distributed to a target that its run has just read.
StartWrite(r) ==
  /\ writer.at = "idle" /\ r \notin Manual /\ To[r] \notin gone
  /\ carrier[Parent[r]].state # "gone"
  /\ runs < MaxRuns /\ runs' = runs + 1
  /\ writer' = [Resting EXCEPT !.at = "findPay", !.row = r]
  /\ UNCHANGED <<carrier, row, gone, cleaner, button, job, tries, edits,
                 drift, late, faults>>

FindPay ==
  /\ writer.at = "findPay"
  /\ writer' = [writer EXCEPT !.at =
       IF carrier[InHand].state = "live" THEN "findRow" ELSE "addPay"]
  /\ UNCHANGED <<carrier, row, gone, cleaner, button, job, tries, runs,
                 edits, drift, late, faults>>

\* A new carrier has nothing distributed; after a deletion no second one is made.
AddPay ==
  /\ writer.at = "addPay" /\ carrier[InHand].state = "none"
  /\ carrier' = [carrier EXCEPT ![InHand] =
       [state |-> "live", counted |-> {}, flag |-> FALSE, older |-> Live]]
  /\ writer' = [writer EXCEPT !.at = "findRow"]
  /\ UNCHANGED <<row, gone, cleaner, button, job, tries, runs, edits, drift,
                 late, faults>>

\* Mutant of HasMarker: the look-up filters by status, as the rows' lists do.
MutantOfHasMarker(r) == row[r] = "active"
HasMarker(r) == row[r] \in {"active", "reverted"}

\* A fact weighs nothing, so no recomputation follows it.
AfterRow == IF writer.row \in Fact THEN Resting ELSE [writer EXCEPT !.at = "load"]

FindRow ==
  /\ writer.at = "findRow"
  /\ writer' = IF HasMarker(writer.row) THEN AfterRow
               ELSE [writer EXCEPT !.at = "addRow"]
  /\ UNCHANGED <<carrier, row, gone, cleaner, button, job, tries, runs,
                 edits, drift, late, faults>>

AddRow ==
  /\ writer.at = "addRow"
  /\ row' = [row EXCEPT ![writer.row] = "active"]
  /\ late' = late \cup {writer.row}
  /\ writer' = AfterRow
  /\ UNCHANGED <<carrier, gone, cleaner, button, job, tries, runs, edits,
                 drift, faults>>

LoadRows ==
  /\ writer.at = "load"
  /\ writer' = [writer EXCEPT !.at = "save", !.seen = Active(InHand)]
  /\ UNCHANGED <<carrier, row, gone, cleaner, button, job, tries, runs,
                 edits, drift, late, faults>>

SaveWritten ==
  /\ writer.at = "save"
  /\ SaveRest(InHand, writer.seen)
  /\ writer' = Resting
  /\ UNCHANGED <<row, gone, cleaner, button, job, tries, runs, edits, late,
                 faults>>

\* The run ends by an error or a death, its last call in effect or not; a later
\* run may decide otherwise, so a row without its recomputation is drift.
WriteFails ==
  /\ writer.at # "idle"
  /\ \/ faults < MaxFaults /\ faults' = faults + 1
     \/ carrier[InHand].state = "gone" /\ UNCHANGED faults
  /\ drift' = IF writer.at \in {"load", "save"} /\ ~Exact(InHand)
              THEN drift \cup {InHand} ELSE drift
  /\ writer' = Resting
  /\ UNCHANGED <<carrier, row, gone, cleaner, button, job, tries, runs,
                 edits, late>>

-----------------------------------------------------------------------------
(* The deletion worker: handleDeletionJob, reconcileTargetDeletion          *)

StartClean(t) ==
  /\ cleaner.at = "idle" /\ job[t] = "waiting"
  /\ job' = [job EXCEPT ![t] = "active"]
  /\ cleaner' = [Clean EXCEPT !.at = "list", !.target = t]
  /\ UNCHANGED <<carrier, row, gone, writer, button, tries, runs, edits,
                 drift, late, faults>>

\* Mutants of ToFree: only automatic rows are freed; an item of the list without
\* an id is not dropped.
MutantOfToFree(t) == {r \in RowsAt(t) \ Manual : row[r] = "active"}
MutantToFree2(t) == {NoRow} \cup {r \in RowsAt(t) : row[r] = "active"}
ToFree(t) == {r \in RowsAt(t) : row[r] = "active"}

\* From here on a row added for this target comes too late for this run.
ListRows ==
  /\ cleaner.at = "list"
  /\ LET found == ToFree(cleaner.target) IN
       IF found = {}
       THEN /\ cleaner' = Clean
            /\ job' = [job EXCEPT ![cleaner.target] = "done"]
       ELSE /\ cleaner' = [cleaner EXCEPT !.at = "free", !.rows = found]
            /\ UNCHANGED job
  /\ late' = late \ RowsAt(cleaner.target)
  /\ UNCHANGED <<carrier, row, gone, writer, button, tries, runs, edits,
                 drift, faults>>

FreeRow(r) ==
  /\ cleaner.at = "free" /\ r \in cleaner.rows
  /\ row[r] # "removed"
  /\ row' = [row EXCEPT ![r] = "reverted"]
  /\ cleaner' = [cleaner EXCEPT !.rows = @ \ {r}, !.freed = @ \cup {r},
                                !.parents = @ \cup {Parent[r]}]
  /\ UNCHANGED <<carrier, gone, writer, button, job, tries, runs, edits,
                 drift, late, faults>>

\* Mutant of Affected: the payments of automatic rows are left alone (flag only).
MutantOfAffected == {Parent[r] : r \in cleaner.freed \cap Manual}
Affected == {Parent[r] : r \in cleaner.freed}

AllFreed ==
  /\ cleaner.at = "free" /\ cleaner.rows = {}
  /\ cleaner' = [cleaner EXCEPT !.at = "read", !.parents = Affected]
  /\ UNCHANGED <<carrier, row, gone, writer, button, job, tries, runs, edits,
                 drift, late, faults>>

\* The next payment: its total is read first, and a deleted one is skipped.
ReadTotal(p) ==
  /\ cleaner.at = "read" /\ p \in cleaner.parents
  /\ cleaner' = IF carrier[p].state = "live"
                THEN [cleaner EXCEPT !.at = "load", !.pay = p]
                ELSE [cleaner EXCEPT !.parents = @ \ {p}]
  /\ UNCHANGED <<carrier, row, gone, writer, button, job, tries, runs, edits,
                 drift, late, faults>>

LoadFreed ==
  /\ cleaner.at = "load"
  /\ cleaner' = [cleaner EXCEPT !.at = "save", !.seen = Active(cleaner.pay)]
  /\ UNCHANGED <<carrier, row, gone, writer, button, job, tries, runs, edits,
                 drift, late, faults>>

\* Mutant of NeedsFlag: a payment is flagged for its automatic rows instead.
MutantOfNeedsFlag(p) == \E r \in cleaner.freed \ Manual : Parent[r] = p
NeedsFlag(p) == \E r \in cleaner.freed \cap Manual : Parent[r] = p

SaveFreed ==
  /\ cleaner.at = "save"
  /\ SaveRest(cleaner.pay, cleaner.seen)
  /\ cleaner' = [cleaner EXCEPT !.at = IF NeedsFlag(cleaner.pay) THEN "flag" ELSE "read",
                                !.parents = @ \ {cleaner.pay}]
  /\ UNCHANGED <<row, gone, writer, button, job, tries, runs, edits, late,
                 faults>>

RaiseFlag ==
  /\ cleaner.at = "flag" /\ carrier[cleaner.pay].state = "live"
  /\ carrier' = [carrier EXCEPT ![cleaner.pay].flag = TRUE]
  /\ cleaner' = [cleaner EXCEPT !.at = "read"]
  /\ UNCHANGED <<row, gone, writer, button, job, tries, runs, edits, drift,
                 late, faults>>

EndClean ==
  /\ cleaner.at = "read" /\ cleaner.parents = {}
  /\ job' = [job EXCEPT ![cleaner.target] = "done"]
  /\ cleaner' = Clean
  /\ UNCHANGED <<carrier, row, gone, writer, button, tries, runs, edits,
                 drift, late, faults>>

\* The element of the call has been deleted in the portal meanwhile.
CallFails ==
  \/ cleaner.at = "free" /\ \E r \in cleaner.rows : row[r] = "removed"
  \/ cleaner.at \in {"save", "flag"} /\ carrier[cleaner.pay].state = "gone"

\* The job goes back to the queue; the rows freed so far are not found again.
CleanFails ==
  /\ cleaner.at # "idle"
  /\ \/ faults < MaxFaults /\ faults' = faults + 1
     \/ CallFails /\ UNCHANGED faults
  /\ LET t == cleaner.target IN
       /\ tries' = [tries EXCEPT ![t] = @ + 1]
       /\ job' = [job EXCEPT ![t] =
            IF tries[t] + 1 < MaxAttempts THEN "waiting" ELSE "failed"]
  /\ drift' = drift \cup {p \in cleaner.parents : ~Exact(p)}
  /\ cleaner' = Clean
  /\ UNCHANGED <<carrier, row, gone, writer, button, runs, edits, late>>

-----------------------------------------------------------------------------
(* The button: recomputeAllPayments, under a lease                          *)

\* The list is ordered by id, newest first, and cut; every press sees the same end.
Newer(p) == {q \in Live : p \in carrier[q].older}
Walked == {p \in Live : Cardinality(Newer(p)) < MaxWalked}

Press ==
  /\ button.at = "idle"
  /\ button' = [Released EXCEPT !.at = "walk", !.left = Walked]
  /\ UNCHANGED <<carrier, row, gone, writer, cleaner, job, tries, runs,
                 edits, drift, late, faults>>

\* Mutant of Recounted: a reverted row is counted, as the list for the screen does.
MutantOfRecounted(p) == {r \in RowsOf(p) \ Fact : row[r] \in {"active", "reverted"}}
Recounted(p) == Active(p)

LoadNext(p) ==
  /\ button.at = "walk" /\ p \in button.left
  /\ button' = [button EXCEPT !.at = "save", !.pay = p, !.left = @ \ {p},
                              !.seen = Recounted(p)]
  /\ UNCHANGED <<carrier, row, gone, writer, cleaner, job, tries, runs,
                 edits, drift, late, faults>>

SaveNext ==
  /\ button.at = "save"
  /\ SaveRest(button.pay, button.seen)
  /\ button' = [button EXCEPT !.at = "walk"]
  /\ UNCHANGED <<row, gone, writer, cleaner, job, tries, runs, edits, late,
                 faults>>

EndPress ==
  /\ button.at = "walk" /\ button.left = {}
  /\ button' = Released
  /\ UNCHANGED <<carrier, row, gone, writer, cleaner, job, tries, runs,
                 edits, drift, late, faults>>

\* An error ends the walk where it is.
PressFails ==
  /\ button.at # "idle"
  /\ \/ faults < MaxFaults /\ faults' = faults + 1
     \/ button.at = "save" /\ carrier[button.pay].state = "gone" /\ UNCHANGED faults
  /\ button' = Released
  /\ UNCHANGED <<carrier, row, gone, writer, cleaner, job, tries, runs,
                 edits, drift, late>>

-----------------------------------------------------------------------------
(* Employees in the portal                                                  *)

AddByHand(r) ==
  /\ edits < MaxEdits /\ edits' = edits + 1
  /\ r \in Manual /\ row[r] = "none" /\ To[r] \notin gone
  /\ carrier[Parent[r]].state = "live"
  /\ row' = [row EXCEPT ![r] = "active"]
  /\ late' = late \cup {r}
  /\ drift' = drift \cup {Parent[r]}
  /\ UNCHANGED <<carrier, gone, writer, cleaner, button, job, tries, runs,
                 faults>>

\* The event of a deleted row names no payment, and the worker only logs it.
RemoveByHand(r) ==
  /\ edits < MaxEdits /\ edits' = edits + 1
  /\ row[r] = "active"
  /\ row' = [row EXCEPT ![r] = "removed"]
  /\ drift' = drift \cup {Parent[r]}
  /\ UNCHANGED <<carrier, gone, writer, cleaner, button, job, tries, runs,
                 late, faults>>

\* The portal does not promise that its event arrives.
DeleteTarget(t) ==
  /\ t \notin gone
  /\ gone' = gone \cup {t}
  /\ \/ job' = [job EXCEPT ![t] = "waiting"]
     \/ UNCHANGED job
  /\ UNCHANGED <<carrier, row, writer, cleaner, button, tries, runs, edits,
                 drift, late, faults>>

DeletePayment(p) ==
  /\ edits < MaxEdits /\ edits' = edits + 1
  /\ carrier[p].state = "live"
  /\ carrier' = [carrier EXCEPT ![p].state = "gone"]
  /\ UNCHANGED <<row, gone, writer, cleaner, button, job, tries, runs, drift,
                 late, faults>>

-----------------------------------------------------------------------------
WriterStep == FindPay \/ AddPay \/ FindRow \/ AddRow \/ LoadRows \/ SaveWritten
CleanerStep ==
  \/ \E t \in Target : StartClean(t)
  \/ ListRows \/ AllFreed \/ LoadFreed \/ SaveFreed \/ RaiseFlag \/ EndClean
  \/ \E r \in Row : FreeRow(r)
  \/ \E p \in Payment : ReadTotal(p)
ButtonStep == SaveNext \/ EndPress \/ \E p \in Payment : LoadNext(p)
ByHand ==
  \/ \E r \in Row : AddByHand(r) \/ RemoveByHand(r)
  \/ \E t \in Target : DeleteTarget(t)
  \/ \E p \in Payment : DeletePayment(p)

Next ==
  \/ \E r \in Row : StartWrite(r)
  \/ WriterStep \/ WriteFails
  \/ CleanerStep \/ CleanFails
  \/ Press \/ ButtonStep \/ PressFails
  \/ ByHand

Spec == Init /\ [][Next]_vars
\* A started run goes on to its next call, or meets its error; jobs in the
\* queue are taken.  No one is made to press the button.
FairSpec ==
  /\ Spec
  /\ WF_vars(WriterStep \/ WriteFails) /\ WF_vars(CleanerStep \/ CleanFails)
  /\ WF_vars(ButtonStep \/ PressFails)
-----------------------------------------------------------------------------
TypeOK ==
  /\ carrier \in [Payment -> Carrier]
  /\ row \in [Row -> {"none", "active", "reverted", "removed"}]
  /\ gone \in SUBSET Target
  /\ writer \in Writer /\ (writer.at # "idle" => writer.row \in Row)
  /\ cleaner \in Cleaner /\ (cleaner.at # "idle" => cleaner.target \in Target)
  /\ cleaner.at \in {"load", "save", "flag"} => cleaner.pay \in Payment
  /\ button \in Button /\ (button.at = "save" => button.pay \in Payment)
  /\ job \in [Target -> {"none", "waiting", "active", "done", "failed"}]
  /\ tries \in [Target -> Nat] /\ runs \in Nat /\ edits \in Nat
  /\ drift \in SUBSET Payment /\ late \in SUBSET Row
  /\ faults \in Nat

\* A writer in flight that has yet to bring the payment's rest up to date.
Owed(p) ==
  \/ writer.at \in {"load", "save"} /\ InHand = p
  \/ p \in cleaner.parents

\* The rest of a payment agrees with its active rows at all times, except while
\* a writer that changed a row has yet to recompute, and after one of: a hand
\* edit, an error between the change and the recomputation, a recomputation
\* written from rows that have changed since they were read.
RestAccounted == \A p \in Live : Exact(p) \/ Owed(p) \/ p \in drift

\* A row that was freed never takes money again, whatever batches come back:
\* the marker is looked up in any status.
FreedStaysFreed == [][\A r \in Row : row[r] = "reverted" => row'[r] = "reverted"]_vars

\* After a deletion was handled no row of the target is active, but those that
\* crm-sync or an employee added after the clean-up had listed the rows.
HandledMeansFreed ==
  \A r \in Row : job[To[r]] = "done" /\ row[r] = "active" => r \in late

\* A payment that lost a manual row to a deletion is flagged for distribution,
\* unless an attempt of the job had failed on the way.
ManualFreeFlagged ==
  \A r \in Manual :
    /\ job[To[r]] = "done" /\ tries[To[r]] = 0
    /\ row[r] = "reverted" /\ carrier[Parent[r]].state = "live"
    => carrier[Parent[r]].flag

\* What the steps rely on.  A row has its payment; crm-sync adds a row only where
\* none with its marker stands.
Placed ==
  /\ \A r \in Row : row[r] # "none" => carrier[Parent[r]].state # "none"
  /\ writer.at \in {"findRow", "addRow", "load", "save"} =>
       carrier[InHand].state # "none"
  /\ writer.at # "idle" => writer.row \notin Manual
  /\ writer.at = "addRow" => ~HasMarker(writer.row)
  /\ button.left \subseteq {p \in Payment : carrier[p].state # "none"}

\* The job in hand: the rows still to free, and those added since the listing.
Cleaning ==
  /\ \A t \in Target : job[t] = "active" <=> cleaner.at # "idle" /\ cleaner.target = t
  /\ cleaner.at = "free" => cleaner.parents \subseteq Affected
  /\ cleaner.at \in {"idle", "list"} => cleaner.parents = {}
  /\ cleaner.at \in {"read", "load", "save", "flag"} => cleaner.rows = {}
  /\ \A t \in Target : job[t] # "none" => t \in gone
  /\ \A r \in cleaner.rows : To[r] = cleaner.target /\ row[r] \in {"active", "removed"}
  /\ \A r \in cleaner.freed : row[r] = "reverted"
  /\ cleaner.at \notin {"idle", "list"} =>
       \A r \in RowsAt(cleaner.target) :
         row[r] = "active" => r \in late \cup cleaner.rows

\* On the first attempt, whatever lost a manual row is flagged or about to be.
Flagging ==
  /\ \A r \in Manual :
       /\ tries[To[r]] = 0 /\ row[r] = "reverted"
       => /\ job[To[r]] \in {"active", "done"}
          /\ job[To[r]] = "active" => r \in cleaner.freed
  /\ \A r \in cleaner.freed \cap Manual :
       \/ carrier[Parent[r]].state = "gone"
       \/ carrier[Parent[r]].flag
       \/ Parent[r] \in cleaner.parents
       \/ cleaner.at = "flag" /\ cleaner.pay = Parent[r]

LedgerInv ==
  /\ RestAccounted /\ HandledMeansFreed /\ ManualFreeFlagged
  /\ Placed /\ Cleaning /\ Flagging

\* Whatever went wrong, an administrator who goes on pressing "recompute" after
\* the rows have come to rest has the rest right in the end of every payment the
\* button reaches: as many of the newest as it walks, and no older one.
RestSettles == []<>(button.at = "walk") => <>[](\A p \in Walked : Exact(p))

\* docs/PROCESSING.md:1145: the button recomputes the rest of all payments;
\* distributionLedgerWrite.ts:413: for every one, against any drift.
EveryRestSettles == []<>(button.at = "walk") => <>[](\A p \in Live : Exact(p))

\* docs/PROCESSING.md:742-745: the button also takes back the distributions whose
\* targets are gone, for the case that the event of the deletion got lost.
ButtonFrees ==
  []<>(button.at = "walk") => <>[](\A r \in Row : row[r] = "active" => To[r] \notin gone)
=============================================================================
