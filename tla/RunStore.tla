------------------------------ MODULE RunStore ------------------------------
(***************************************************************************)
(* One run in the database: five tables, the transactions that change or   *)
(* delete it, and a page that watches it.  Elsewhere a handler is a single *)
(* action; here is what makes it one.  A transaction loads the run with    *)
(* several queries and writes all of it back, other transactions lock a    *)
(* child of the run first, and a page reads table after table with nothing *)
(* locked.                                                                 *)
(*                                                                         *)
(* A table's content is the set of commands whose effects it holds.  READ  *)
(* COMMITTED: each query sees what is committed when it runs.  A           *)
(* transaction may be rolled back at any time: by an error, by a crash or  *)
(* as the victim of a deadlock.                                            *)
(***************************************************************************)
EXTENDS Naturals, Sequences, Identifiers

CONSTANTS
  Command, \* the commands about the run that are ever dispatched
  KindOf   \* "answer" changes the run, "approval" and "firing" start from a child of it,
           \* "deletion" is DeleteRun, or a CleanupRuns whose statuses and age fit the run

VARIABLES
  runStatus, \* pipeline_runs.status, or "gone"
  stored,    \* what each table holds
  kept,      \* history: the commands that changed the run and committed
  txs,       \* the transaction of each command
  stream     \* the events stream of a page

storeVars == <<runStatus, stored, kept, txs, stream>>

\* completed and failed are alike here.
Status == {"running", "waiting", "ended", "cancelled"}
Terminal == {"ended", "cancelled"}

\* Mutant: the row of the run is read last.
RowLast == <<"attempts", "steps", "assets", "costs", "row">>

\* The tables in the order in which GetRun reads them.
Tables == <<"row", "attempts", "steps", "assets", "costs">>
Table == {"row", "attempts", "steps", "assets", "costs"}
Empty == [t \in Table |-> {}]

NoCopy == [status |-> "gone", tables |-> Empty]
NoTx == [at |-> "idle", copy |-> NoCopy]
NoStream == [at |-> 0, view |-> NoCopy, shown |-> NoCopy, is |-> "closed"]

StoreInit ==
  /\ runStatus = "running" /\ stored = Empty /\ kept = {}
  /\ txs = [c \in Command |-> NoTx]
  /\ stream = NoStream

-----------------------------------------------------------------------------
(* Locks *)

At(c) == txs[c].at
FromChild == {"approval", "firing"}

\* Mutant: the run is loaded without FOR UPDATE.
LoadsUnlocked(c) == At(c) = "cascade"

\* Until the transaction ends: the row of the run for update or shared by a foreign key, a
\* record or a scheduled row of the run.
HoldsRun(c) == At(c) \in {"row", "parts", "cascade"}
SharesRun(c) == At(c) = "share"
HoldsChild(c) == KindOf[c] \in FromChild /\ At(c) \notin {"idle", "committed", "failed"}

WantsRun(c) == At(c) = "child" \/ (At(c) = "idle" /\ KindOf[c] \notin FromChild)

\* Mutant: an answer also updates the run's records, in its own transaction.
AnswersSettleRecords(c) == At(c) = "cascade" \/ (At(c) = "parts" /\ KindOf[c] = "answer")

WantsChildren(c) == At(c) = "cascade"

WaitsFor(c, d) ==
  /\ c # d
  /\ \/ WantsRun(c) /\ (HoldsRun(d) \/ (SharesRun(d) /\ KindOf[c] # "firing"))
     \/ WantsChildren(c) /\ HoldsChild(d)
Unblocked(c) == \A d \in Command : ~WaitsFor(c, d)

-----------------------------------------------------------------------------
(* Transactions *)

To(c, at) == txs' = [txs EXCEPT ![c].at = at]
RunAsIs == UNCHANGED <<runStatus, stored, kept>>

\* The record to be approved, or a scheduled row that is due, is locked.
LockChild(c) ==
  /\ At(c) = "idle" /\ KindOf[c] \in FromChild
  /\ runStatus # "gone"
  /\ To(c, "child")
  /\ RunAsIs /\ UNCHANGED stream

\* The record of the upload fired is inserted, and its foreign key locks the run.
InsertRecord(c) ==
  /\ At(c) = "child" /\ KindOf[c] = "firing" /\ Unblocked(c)
  /\ To(c, "share")
  /\ RunAsIs /\ UNCHANGED stream

\* GetByID: the row first...
LoadRow(c) ==
  /\ \/ At(c) = "idle" /\ KindOf[c] = "answer"
     \/ At(c) = "child" /\ KindOf[c] = "approval"
  /\ Unblocked(c) /\ runStatus # "gone"
  /\ txs' = [txs EXCEPT ![c] =
       [at |-> "row",
        copy |-> [status |-> runStatus, tables |-> [Empty EXCEPT !["row"] = stored["row"]]]]]
  /\ RunAsIs /\ UNCHANGED stream

\* ... then the attempts and the steps.
LoadParts(c) ==
  /\ At(c) = "row"
  /\ txs' = [txs EXCEPT ![c].at = "parts",
                        ![c].copy.tables["attempts"] = stored["attempts"],
                        ![c].copy.tables["steps"] = stored["steps"]]
  /\ RunAsIs /\ UNCHANGED stream

\* What a handler may make of a run.  Nothing brings a cancelled one back.
Becomes(status) == IF status = "cancelled" THEN {"cancelled"} ELSE Status

\* Save: the row, the steps and the attempts become what the handler made of its copy; new
\* assets and costs are added.  An upsert: a row that was missing would be there again.
SaveRun(c) ==
  /\ At(c) = "parts" /\ Unblocked(c)
  /\ IF KindOf[c] = "approval" THEN txs[c].copy.status = "waiting" /\ runStatus' = "running"
     ELSE runStatus' \in Becomes(txs[c].copy.status)
  /\ stored' = [t \in Table |->
       {c} \cup IF t \in {"assets", "costs"} THEN stored[t] ELSE txs[c].copy.tables[t]]
  /\ kept' = kept \cup {c}
  /\ txs' = [txs EXCEPT ![c] = [NoTx EXCEPT !.at = "committed"]]
  /\ UNCHANGED stream

\* A firing commits its record; an approval of a run that does not wait commits nothing else.
CommitChild(c) ==
  /\ \/ At(c) = "share"
     \/ At(c) = "parts" /\ KindOf[c] = "approval" /\ txs[c].copy.status # "waiting"
  /\ txs' = [txs EXCEPT ![c] = [NoTx EXCEPT !.at = "committed"]]
  /\ RunAsIs /\ UNCHANGED stream

\* DELETE locks the row...
LockForDelete(c) ==
  /\ At(c) = "idle" /\ KindOf[c] = "deletion" /\ Unblocked(c)
  /\ runStatus # "gone"
  /\ To(c, "cascade")
  /\ RunAsIs /\ UNCHANGED stream

\* ... and its foreign keys delete what belongs to the run.
Cascade(c) ==
  /\ At(c) = "cascade" /\ Unblocked(c)
  /\ runStatus' = "gone" /\ stored' = Empty /\ kept' = {}
  /\ To(c, "committed")
  /\ UNCHANGED stream

Rollback(c) ==
  /\ At(c) \notin {"idle", "committed", "failed"}
  /\ txs' = [txs EXCEPT ![c] = [NoTx EXCEPT !.at = "failed"]]
  /\ RunAsIs /\ UNCHANGED stream

Begin(c) == LockChild(c) \/ LockForDelete(c) \/ (At(c) = "idle" /\ LoadRow(c))
Proceeds(c) ==
  \/ InsertRecord(c) \/ (At(c) # "idle" /\ LoadRow(c)) \/ LoadParts(c) \/ SaveRun(c)
  \/ CommitChild(c) \/ Cascade(c) \/ Rollback(c)

-----------------------------------------------------------------------------
(* StreamRunEvents *)

OpenStream ==
  /\ stream.is = "closed"
  /\ stream' = [NoStream EXCEPT !.is = "open"]
  /\ UNCHANGED <<runStatus, stored, kept, txs>>

\* GetRun's next query.  Without a row it finds nothing, and the stream ends with an error.
ReadTable ==
  /\ stream.is = "open" /\ stream.at < Len(Tables)
  /\ LET t == Tables[stream.at + 1]
     IN  IF t = "row" /\ runStatus = "gone"
         THEN stream' = [stream EXCEPT !.is = "error"]
         ELSE stream' = [stream EXCEPT
                !.at = @ + 1,
                !.view = [status |-> IF t = "row" THEN runStatus ELSE stream.view.status,
                          tables |-> [stream.view.tables EXCEPT ![t] = stored[t]]]]
  /\ UNCHANGED <<runStatus, stored, kept, txs>>

\* The view is sent if its etag is new: a new status always is, the steps and panels may look
\* the same although something changed.  A terminal status ends the stream.
SendView ==
  /\ stream.is = "open" /\ stream.at = Len(Tables)
  /\ \E shown \in {stream.view} \cup
                  IF stream.view.status = stream.shown.status THEN {stream.shown} ELSE {} :
       stream' = [at |-> 0, view |-> NoCopy, shown |-> shown,
                  is |-> IF stream.view.status \in Terminal THEN "ended" ELSE "open"]
  /\ UNCHANGED <<runStatus, stored, kept, txs>>

Watch == ReadTable \/ SendView

StoreNext == (\E c \in Command : Begin(c) \/ Proceeds(c)) \/ OpenStream \/ Watch
StoreSpec == StoreInit /\ [][StoreNext]_storeVars

-----------------------------------------------------------------------------
Copy == [status : Status \cup {"gone"}, tables : [Table -> SUBSET Command]]
StoreTypeOK ==
  /\ runStatus \in Status \cup {"gone"}
  /\ stored \in [Table -> SUBSET Command] /\ kept \subseteq Command
  /\ txs \in [Command -> [at : {"idle", "child", "share", "row", "parts", "cascade",
                                "committed", "failed"}, copy : Copy]]
  /\ stream \in [at : 0..Len(Tables), view : Copy, shown : Copy,
                 is : {"closed", "open", "ended", "error"}]

\* Handlers that write back all they have loaded lose nothing: every table holds what every
\* committed command did to the run, and a run that was deleted is not saved again.
NothingLost ==
  /\ \A t \in Table : stored[t] = kept
  /\ runStatus = "gone" <=> \E c \in Command : KindOf[c] = "deletion" /\ At(c) = "committed"

\* Approvals and firings lock a child before the run, deletions the run before its children:
\* only with a deletion can two transactions wait for each other.
DeadlocksNeedDeletion ==
  \A c, d \in Command :
    WaitsFor(c, d) /\ WaitsFor(d, c) => "deletion" \in {KindOf[c], KindOf[d]}

\* The view a stream ends with is all that its page ever has.  Although its tables were read
\* one after the other, it holds everything that led to the end it shows, unless the run was
\* deleted in between.
EndIsComplete ==
  stream.is = "ended" /\ runStatus # "gone" =>
    \A t \in Table : stream.shown.tables["row"] \subseteq stream.shown.tables[t]
=============================================================================
