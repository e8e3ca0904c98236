--------------------------- MODULE RunStoreProofs ---------------------------
(* Safety of one run's tables for any commands about it.                    *)
EXTENDS RunStore, TLAPS

Unfinished == {"child", "share", "row", "parts", "cascade"}

\* How far a transaction can be depends on what it is for.
KindsFit ==
  \A c \in Command :
    /\ At(c) \in {"row", "parts"} => KindOf[c] \in {"answer", "approval"}
    /\ At(c) = "child" => KindOf[c] \in FromChild
    /\ At(c) = "share" => KindOf[c] = "firing"
    /\ At(c) = "cascade" => KindOf[c] = "deletion"

\* A row that is locked for update is locked by one transaction, and shared by none.
OneHolds ==
  \A c, d \in Command : HoldsRun(c) /\ c # d => ~HoldsRun(d) /\ ~SharesRun(d)

\* What a transaction has loaded is still what the tables hold, and the run is there.
CopiesFresh ==
  \A c \in Command :
    /\ At(c) \in {"row", "parts"} =>
         /\ runStatus # "gone" /\ txs[c].copy.status = runStatus
         /\ txs[c].copy.tables["row"] = stored["row"]
    /\ At(c) = "parts" =>
         /\ txs[c].copy.tables["attempts"] = stored["attempts"]
         /\ txs[c].copy.tables["steps"] = stored["steps"]
    /\ At(c) = "cascade" => runStatus # "gone"

\* The row a page has read holds nothing that is not kept, nor that the tables read after it
\* lack; and a page that is still open was never shown an end.
StreamSees ==
  stream.is = "open" =>
    /\ stream.shown.status \notin Terminal
    /\ runStatus # "gone" =>
         /\ stream.view.tables["row"] \subseteq kept
         /\ \A i \in 1..stream.at :
              stream.view.tables["row"] \subseteq stream.view.tables[Tables[i]]

StoreInv ==
  /\ StoreTypeOK /\ KindsFit /\ OneHolds /\ CopiesFresh
  /\ NothingLost /\ StreamSees /\ EndIsComplete

-----------------------------------------------------------------------------
(* What a transaction does to its own record *)

LEMMA EmptyTyped == Empty \in [Table -> SUBSET Command] /\ NoCopy \in Copy
BY DEF Empty, NoCopy, Copy

\* A transaction that only goes on.
LEMMA GoesOn ==
  ASSUME StoreTypeOK, NEW c \in Command, NEW at, To(c, at)
  PROVE  /\ txs'[c].copy = txs[c].copy
         /\ At(c)' = at /\ \A d \in Command : d # c => txs'[d] = txs[d] /\ At(d)' = At(d)
BY DEF StoreTypeOK, To, At

\* A transaction that ends.
LEMMA Ends ==
  ASSUME StoreTypeOK, NEW c \in Command, NEW at,
         txs' = [txs EXCEPT ![c] = [NoTx EXCEPT !.at = at]]
  PROVE  /\ txs'[c] = [at |-> at, copy |-> NoCopy]
         /\ At(c)' = at /\ \A d \in Command : d # c => txs'[d] = txs[d] /\ At(d)' = At(d)
<1>1. [NoTx EXCEPT !.at = at] = [at |-> at, copy |-> NoCopy]
  BY DEF NoTx
<1>2. txs' = [txs EXCEPT ![c] = [at |-> at, copy |-> NoCopy]] /\ DOMAIN txs = Command
  BY <1>1 DEF StoreTypeOK
<1>3. txs'[c] = [at |-> at, copy |-> NoCopy] /\ \A d \in Command : d # c => txs'[d] = txs[d]
  BY <1>2
<1> QED
  BY <1>3 DEF At

-----------------------------------------------------------------------------
(* Types *)

LEMMA TxTypes ==
  ASSUME StoreTypeOK, NEW c \in Command, Begin(c) \/ Proceeds(c)
  PROVE  StoreTypeOK'
<1> DEFINE Stage == {"idle", "child", "share", "row", "parts", "cascade", "committed", "failed"}
           Tx == [at : Stage, copy : Copy]
<1>1. txs \in [Command -> Tx] /\ txs[c] \in Tx
  BY DEF StoreTypeOK
<1>2. ASSUME NEW at \in Stage, To(c, at) PROVE txs' \in [Command -> Tx]
  BY <1>1, <1>2 DEF To
<1>3. ASSUME NEW at \in Stage, txs' = [txs EXCEPT ![c] = [NoTx EXCEPT !.at = at]]
      PROVE  txs' \in [Command -> Tx]
  <2>1. [NoTx EXCEPT !.at = at] \in Tx
    BY EmptyTyped DEF NoTx
  <2> QED
    BY <1>1, <1>3, <2>1
<1>4. CASE LockChild(c) \/ InsertRecord(c) \/ LockForDelete(c)
  BY <1>2, <1>4 DEF LockChild, InsertRecord, LockForDelete, RunAsIs, StoreTypeOK
<1>5. CASE LoadRow(c)
  <2>1. [Empty EXCEPT !["row"] = stored["row"]] \in [Table -> SUBSET Command]
    BY EmptyTyped DEF StoreTypeOK, Table
  <2>2. [status |-> runStatus, tables |-> [Empty EXCEPT !["row"] = stored["row"]]] \in Copy
    BY <2>1 DEF StoreTypeOK, Copy
  <2>3. txs' \in [Command -> Tx]
    BY <1>1, <1>5, <2>2 DEF LoadRow
  <2> QED
    BY <1>5, <2>3 DEF LoadRow, RunAsIs, StoreTypeOK
<1>6. CASE LoadParts(c)
  <2>1. txs[c].copy \in Copy /\ stored \in [Table -> SUBSET Command]
    BY <1>1 DEF StoreTypeOK
  <2>2. [txs[c].copy.tables EXCEPT !["attempts"] = stored["attempts"],
                                   !["steps"] = stored["steps"]] \in [Table -> SUBSET Command]
    BY <2>1 DEF Copy, Table
  <2>3. [txs[c] EXCEPT !.at = "parts", !.copy.tables["attempts"] = stored["attempts"],
                       !.copy.tables["steps"] = stored["steps"]] \in Tx
    BY <1>1, <2>1, <2>2, ZenonT(40) DEF Copy
  <2>4. txs' \in [Command -> Tx]
    BY <1>1, <1>6, <2>3, ZenonT(40) DEF LoadParts
  <2> QED
    BY <1>6, <2>4 DEF LoadParts, RunAsIs, StoreTypeOK
<1>7. CASE SaveRun(c)
  <2>1. runStatus' \in Status
    BY <1>7 DEF SaveRun, Becomes, Status
  <2>2. txs[c].copy.tables \in [Table -> SUBSET Command]
    BY <1>1 DEF Copy
  <2>3. stored' \in [Table -> SUBSET Command] /\ kept' \subseteq Command
    BY <1>7, <2>2 DEF SaveRun, StoreTypeOK
  <2> QED
    BY <1>3, <1>7, <2>1, <2>3 DEF SaveRun, StoreTypeOK
<1>8. CASE CommitChild(c) \/ Rollback(c)
  BY <1>3, <1>8 DEF CommitChild, Rollback, RunAsIs, StoreTypeOK
<1>9. CASE Cascade(c)
  BY <1>2, <1>9, EmptyTyped DEF Cascade, StoreTypeOK
<1> QED
  BY <1>4, <1>5, <1>6, <1>7, <1>8, <1>9 DEF Begin, Proceeds

LEMMA TablesAre ==
  /\ Len(Tables) = 5 /\ Tables[1] = "row"
  /\ \A i \in 1..5 : Tables[i] \in Table
  /\ \A i \in 2..5 : Tables[i] # "row"
  /\ \A t \in Table : \E i \in 1..5 : Tables[i] = t
<1>1. Len(Tables) = 5
  BY DEF Tables
<1>2. /\ Tables[1] = "row" /\ Tables[2] = "attempts" /\ Tables[3] = "steps"
      /\ Tables[4] = "assets" /\ Tables[5] = "costs"
  BY DEF Tables
<1>3. 1..5 = {1, 2, 3, 4, 5} /\ 2..5 = {2, 3, 4, 5}
  OBVIOUS
<1> QED
  BY <1>1, <1>2, <1>3 DEF Table

LEMMA StreamTypes ==
  ASSUME StoreTypeOK, OpenStream \/ Watch
  PROVE  StoreTypeOK'
<1> DEFINE Page == [at : 0..5, view : Copy, shown : Copy,
                    is : {"closed", "open", "ended", "error"}]
<1>1. stream \in Page
  BY TablesAre DEF StoreTypeOK
<1>2. CASE OpenStream
  <2>1. stream' \in Page
    BY <1>2, EmptyTyped DEF OpenStream, NoStream
  <2> QED
    BY <1>2, <2>1, TablesAre DEF OpenStream, StoreTypeOK
<1>3. CASE ReadTable
  <2> DEFINE t == Tables[stream.at + 1]
  <2>1. stream.at \in 0..4 /\ stream.at + 1 \in 1..5 /\ t \in Table
    BY <1>1, <1>3, TablesAre DEF ReadTable
  <2>2. [stream.view.tables EXCEPT ![t] = stored[t]] \in [Table -> SUBSET Command]
    BY <1>1, <2>1 DEF Copy, StoreTypeOK
  <2>3. [status |-> IF t = "row" THEN runStatus ELSE stream.view.status,
         tables |-> [stream.view.tables EXCEPT ![t] = stored[t]]] \in Copy
    BY <1>1, <2>2 DEF Copy, StoreTypeOK
  <2> DEFINE view == [status |-> IF t = "row" THEN runStatus ELSE stream.view.status,
                      tables |-> [stream.view.tables EXCEPT ![t] = stored[t]]]
  <2>4. \/ stream' = [stream EXCEPT !.is = "error"]
        \/ stream' = [stream EXCEPT !.at = stream.at + 1, !.view = view]
    BY <1>3 DEF ReadTable
  <2>5. view \in Copy
    BY <2>3
  <2> HIDE DEF t, view
  <2>6. [stream EXCEPT !.is = "error"] \in Page
    BY <1>1
  <2>7. stream.at + 1 \in 0..5
    BY <2>1
  <2>8. [stream EXCEPT !.at = stream.at + 1, !.view = view] \in Page
    BY <1>1, <2>5, <2>7
  <2>9. stream' \in Page
    BY <2>4, <2>6, <2>8
  <2> QED
    BY <1>3, <2>9, TablesAre DEF ReadTable, StoreTypeOK
<1>4. CASE SendView
  <2>1. PICK shown \in {stream.view, stream.shown} :
          stream' = [at |-> 0, view |-> NoCopy, shown |-> shown,
                     is |-> IF stream.view.status \in Terminal THEN "ended" ELSE "open"]
    BY <1>4 DEF SendView
  <2>2. shown \in Copy
    BY <1>1
  <2>3. stream' \in Page
    BY <2>1, <2>2, EmptyTyped
  <2> QED
    BY <1>4, <2>3, TablesAre DEF SendView, StoreTypeOK
<1> QED
  BY <1>2, <1>3, <1>4 DEF Watch

-----------------------------------------------------------------------------
(* Locks *)

LEMMA LocksKeep ==
  ASSUME StoreInv, NEW c \in Command, Begin(c) \/ Proceeds(c)
  PROVE  KindsFit' /\ OneHolds'
<1>1. StoreTypeOK /\ KindsFit /\ OneHolds
  BY DEF StoreInv
<1>2. ASSUME NEW at, At(c)' = at, \A d \in Command : d # c => At(d)' = At(d),
             at \in {"row", "parts"} => KindOf[c] \in {"answer", "approval"},
             at = "child" => KindOf[c] \in FromChild,
             at = "share" => KindOf[c] = "firing",
             at = "cascade" => KindOf[c] = "deletion",
             at \in {"row", "parts", "cascade"} =>
               HoldsRun(c) \/ \A d \in Command : d # c => ~HoldsRun(d) /\ ~SharesRun(d),
             at = "share" => \A d \in Command : d # c => ~HoldsRun(d)
      PROVE  KindsFit' /\ OneHolds'
  <2>1. KindsFit'
    BY <1>1, <1>2 DEF KindsFit
  <2>2. OneHolds'
    BY <1>1, <1>2 DEF OneHolds, HoldsRun, SharesRun
  <2> QED
    BY <2>1, <2>2
<1>3. CASE LockChild(c)
  BY <1>1, <1>2, <1>3, GoesOn DEF LockChild
<1>4. CASE InsertRecord(c)
  <2>1. \A d \in Command : d # c => ~HoldsRun(d)
    BY <1>4 DEF InsertRecord, Unblocked, WaitsFor, WantsRun
  <2> QED
    BY <1>1, <1>2, <1>4, <2>1, GoesOn DEF InsertRecord
<1>5. CASE LockForDelete(c)
  <2>1. \A d \in Command : d # c => ~HoldsRun(d) /\ ~SharesRun(d)
    BY <1>5 DEF LockForDelete, Unblocked, WaitsFor, WantsRun, FromChild
  <2> QED
    BY <1>1, <1>2, <1>5, <2>1, GoesOn DEF LockForDelete
<1>6. CASE LoadRow(c)
  <2>1. \A d \in Command : d # c => ~HoldsRun(d) /\ ~SharesRun(d)
    BY <1>6 DEF LoadRow, Unblocked, WaitsFor, WantsRun, FromChild
  <2>2. At(c)' = "row" /\ \A d \in Command : d # c => At(d)' = At(d)
    BY <1>1, <1>6 DEF LoadRow, At, StoreTypeOK
  <2>3. KindOf[c] \in {"answer", "approval"}
    BY <1>6 DEF LoadRow
  <2> QED
    BY <1>2, <2>1, <2>2, <2>3
<1>7. CASE LoadParts(c)
  <2>1. At(c)' = "parts" /\ \A d \in Command : d # c => At(d)' = At(d)
    BY <1>1, <1>7 DEF LoadParts, At, StoreTypeOK
  <2>2. KindOf[c] \in {"answer", "approval"} /\ HoldsRun(c)
    BY <1>1, <1>7 DEF LoadParts, KindsFit, HoldsRun
  <2> QED
    BY <1>2, <2>1, <2>2
<1>8. CASE SaveRun(c) \/ CommitChild(c)
  <2>1. At(c)' = "committed" /\ \A d \in Command : d # c => At(d)' = At(d)
    BY <1>1, <1>8, Ends DEF SaveRun, CommitChild
  <2> QED
    BY <1>2, <2>1
<1>9. CASE Rollback(c)
  <2>1. At(c)' = "failed" /\ \A d \in Command : d # c => At(d)' = At(d)
    BY <1>1, <1>9, Ends DEF Rollback
  <2> QED
    BY <1>2, <2>1
<1>10. CASE Cascade(c)
  BY <1>1, <1>2, <1>10, GoesOn DEF Cascade
<1> QED
  BY <1>3, <1>4, <1>5, <1>6, <1>7, <1>8, <1>9, <1>10 DEF Begin, Proceeds

-----------------------------------------------------------------------------
(* Copies and tables *)

\* A step that leaves the tables alone leaves the copies of the others fresh.
LEMMA TablesAsTheyAre ==
  ASSUME StoreInv, NEW c \in Command, RunAsIs,
         \A d \in Command : d # c => txs'[d] = txs[d] /\ At(d)' = At(d),
         At(c)' \notin {"row", "parts", "cascade"},
         At(c)' = "committed" => KindOf[c] # "deletion",
         At(c) # "committed" \/ KindOf[c] # "deletion"
  PROVE  CopiesFresh' /\ NothingLost'
<1>1. CopiesFresh'
  BY DEF StoreInv, CopiesFresh, RunAsIs
<1>2. NothingLost'
  BY DEF StoreInv, NothingLost, RunAsIs
<1> QED
  BY <1>1, <1>2

LEMMA CopiesKeep ==
  ASSUME StoreInv, NEW c \in Command, Begin(c) \/ Proceeds(c)
  PROVE  CopiesFresh' /\ NothingLost'
<1>1. /\ StoreTypeOK /\ KindsFit /\ OneHolds /\ CopiesFresh /\ NothingLost
      /\ KindsFit' /\ OneHolds'
  BY LocksKeep DEF StoreInv
<1>2. At(c) \notin {"committed", "failed"}
  BY DEF Begin, Proceeds, LockChild, LockForDelete, LoadRow, InsertRecord, LoadParts, SaveRun,
         CommitChild, Cascade, Rollback
<1>3. CASE LockChild(c) \/ InsertRecord(c)
  BY <1>1, <1>2, <1>3, GoesOn, TablesAsTheyAre DEF LockChild, InsertRecord
<1>4. CASE LockForDelete(c)
  <2>1. At(c)' = "cascade" /\ \A d \in Command : d # c => txs'[d] = txs[d] /\ At(d)' = At(d)
    BY <1>1, <1>4, GoesOn DEF LockForDelete
  <2>2. runStatus' = runStatus /\ stored' = stored /\ kept' = kept /\ runStatus # "gone"
    BY <1>4 DEF LockForDelete, RunAsIs
  <2>3. CopiesFresh'
    BY <1>1, <2>1, <2>2 DEF CopiesFresh
  <2> QED
    BY <1>1, <1>2, <2>1, <2>2, <2>3 DEF NothingLost
<1>5. CASE LoadRow(c)
  <2>1. /\ At(c)' = "row" /\ txs'[c].copy.status = runStatus
        /\ txs'[c].copy.tables["row"] = stored["row"]
        /\ \A d \in Command : d # c => txs'[d] = txs[d] /\ At(d)' = At(d)
    BY <1>1, <1>5 DEF LoadRow, At, StoreTypeOK, Empty, Table
  <2>2. runStatus' = runStatus /\ stored' = stored /\ kept' = kept /\ runStatus # "gone"
    BY <1>5 DEF LoadRow, RunAsIs
  <2>3. CopiesFresh'
    BY <1>1, <2>1, <2>2 DEF CopiesFresh
  <2> QED
    BY <1>1, <1>2, <2>1, <2>2, <2>3 DEF NothingLost
<1>6. CASE LoadParts(c)
  <2>1. txs[c].copy.tables \in [Table -> SUBSET Command]
    BY <1>1 DEF StoreTypeOK, Copy
  <2>2. txs'[c] = [txs[c] EXCEPT !.at = "parts", !.copy.tables["attempts"] = stored["attempts"],
                                 !.copy.tables["steps"] = stored["steps"]]
    BY <1>1, <1>6 DEF LoadParts, StoreTypeOK
  <2>3. /\ txs'[c].at = "parts" /\ txs'[c].copy.status = txs[c].copy.status
        /\ txs'[c].copy.tables["row"] = txs[c].copy.tables["row"]
        /\ txs'[c].copy.tables["attempts"] = stored["attempts"]
        /\ txs'[c].copy.tables["steps"] = stored["steps"]
    <3>1. /\ txs[c] = [at |-> txs[c].at, copy |-> txs[c].copy]
          /\ txs[c].copy = [status |-> txs[c].copy.status, tables |-> txs[c].copy.tables]
      BY <1>1 DEF StoreTypeOK, Copy
    <3>2. DOMAIN txs[c].copy.tables = Table /\ {"row", "attempts", "steps"} \subseteq Table
      BY <2>1 DEF Table
    <3>3. txs'[c] = [at |-> "parts",
                     copy |-> [status |-> txs[c].copy.status,
                               tables |-> [txs[c].copy.tables EXCEPT
                                             !["attempts"] = stored["attempts"],
                                             !["steps"] = stored["steps"]]]]
      BY <2>2, <3>1, ZenonT(40)
    <3> QED
      BY <3>2, <3>3
  <2>4. \A d \in Command : d # c => txs'[d] = txs[d] /\ At(d)' = At(d)
    BY <1>1, <1>6 DEF LoadParts, At, StoreTypeOK
  <2>5. runStatus' = runStatus /\ stored' = stored /\ kept' = kept
    BY <1>6 DEF LoadParts, RunAsIs
  <2>6. At(c) = "row" /\ At(c)' = "parts"
    BY <1>6, <2>3 DEF LoadParts, At
  <2>7. CopiesFresh'
    BY <1>1, <2>3, <2>4, <2>5, <2>6 DEF CopiesFresh
  <2> QED
    BY <1>1, <2>4, <2>5, <2>6, <2>7 DEF NothingLost
<1>7. CASE SaveRun(c)
  <2>1. At(c)' = "committed" /\ \A d \in Command : d # c => txs'[d] = txs[d] /\ At(d)' = At(d)
    BY <1>1, <1>7, Ends DEF SaveRun
  <2>2. HoldsRun(c) /\ At(c) = "parts"
    BY <1>7 DEF SaveRun, HoldsRun
  <2>3. \A d \in Command : d # c => At(d) \notin {"row", "parts", "cascade"}
    BY <1>1, <2>2 DEF OneHolds, HoldsRun
  <2>4. runStatus # "gone" /\ runStatus' # "gone"
    BY <1>1, <1>7, <2>2 DEF CopiesFresh, SaveRun, Becomes, Status
  <2>5. CopiesFresh'
    BY <2>1, <2>3 DEF CopiesFresh
  <2>6. \A t \in Table : stored'[t] = kept'
    <3>1. \A t \in Table : stored[t] = kept
      BY <1>1 DEF NothingLost
    <3>2. \A t \in {"row", "attempts", "steps"} : txs[c].copy.tables[t] = kept
      BY <1>1, <2>2, <3>1 DEF CopiesFresh, Table
    <3>3. \A t \in Table : stored'[t] = {c} \cup IF t \in {"assets", "costs"} THEN stored[t]
                                                 ELSE txs[c].copy.tables[t]
      BY <1>7 DEF SaveRun
    <3>4. kept' = kept \cup {c}
      BY <1>7 DEF SaveRun
    <3> QED
      BY <3>1, <3>2, <3>3, <3>4 DEF Table
  <2>7. KindOf[c] # "deletion"
    BY <1>1, <2>2 DEF KindsFit
  <2>8. NothingLost'
    BY <1>1, <2>1, <2>4, <2>6, <2>7 DEF NothingLost
  <2> QED
    BY <2>5, <2>8
<1>8. CASE CommitChild(c)
  <2>1. KindOf[c] # "deletion"
    BY <1>1, <1>8 DEF CommitChild, KindsFit
  <2> QED
    BY <1>1, <1>2, <1>8, <2>1, Ends, TablesAsTheyAre DEF CommitChild
<1>9. CASE Rollback(c)
  <2>1. At(c)' = "failed" /\ \A d \in Command : d # c => txs'[d] = txs[d] /\ At(d)' = At(d)
    BY <1>1, <1>9, Ends DEF Rollback
  <2> QED
    BY <1>2, <1>9, <2>1, TablesAsTheyAre DEF Rollback
<1>10. CASE Cascade(c)
  <2>1. At(c)' = "committed" /\ \A d \in Command : d # c => txs'[d] = txs[d] /\ At(d)' = At(d)
    BY <1>1, <1>10, GoesOn DEF Cascade
  <2>2. HoldsRun(c) /\ At(c) = "cascade" /\ KindOf[c] = "deletion"
    BY <1>1, <1>10 DEF Cascade, HoldsRun, KindsFit
  <2>3. \A d \in Command : d # c => At(d) \notin {"row", "parts", "cascade"}
    BY <1>1, <2>2 DEF OneHolds, HoldsRun
  <2>4. CopiesFresh'
    BY <2>1, <2>3 DEF CopiesFresh
  <2>5. runStatus' = "gone" /\ \A t \in Table : stored'[t] = kept'
    BY <1>10 DEF Cascade, Empty
  <2> QED
    BY <2>1, <2>2, <2>4, <2>5 DEF NothingLost
<1> QED
  BY <1>3, <1>4, <1>5, <1>6, <1>7, <1>8, <1>9, <1>10 DEF Begin, Proceeds

-----------------------------------------------------------------------------
(* The page *)

\* Transactions only add to a run, or delete it for good.
LEMMA OnlyGrows ==
  ASSUME StoreInv, NEW c \in Command, Begin(c) \/ Proceeds(c)
  PROVE  stream' = stream /\ (runStatus' # "gone" => runStatus # "gone" /\ kept \subseteq kept')
<1>1. CASE SaveRun(c)
  BY <1>1 DEF SaveRun, StoreInv, CopiesFresh
<1>2. CASE Cascade(c)
  BY <1>2 DEF Cascade
<1>3. CASE ~SaveRun(c) /\ ~Cascade(c)
  BY <1>3 DEF Begin, Proceeds, LockChild, LockForDelete, LoadRow, InsertRecord, LoadParts,
              CommitChild, Rollback, RunAsIs
<1> QED
  BY <1>1, <1>2, <1>3

LEMMA PageUndisturbed ==
  ASSUME StoreInv, NEW c \in Command, Begin(c) \/ Proceeds(c)
  PROVE  StreamSees' /\ EndIsComplete'
<1>1. StreamSees'
  BY OnlyGrows DEF StoreInv, StreamSees
<1>2. EndIsComplete'
  BY OnlyGrows DEF StoreInv, EndIsComplete
<1> QED
  BY <1>1, <1>2

LEMMA StoreUndisturbed ==
  ASSUME StoreInv, UNCHANGED <<runStatus, stored, kept, txs>>
  PROVE  KindsFit' /\ OneHolds' /\ CopiesFresh' /\ NothingLost'
<1>1. \A c \in Command : At(c)' = At(c)
  BY DEF At
<1>2. KindsFit' /\ OneHolds'
  BY <1>1 DEF StoreInv, KindsFit, OneHolds, HoldsRun, SharesRun
<1>3. CopiesFresh' /\ NothingLost'
  BY <1>1 DEF StoreInv, CopiesFresh, NothingLost
<1> QED
  BY <1>2, <1>3

LEMMA OpenKeeps ==
  ASSUME StoreInv, OpenStream
  PROVE  StoreInv'
<1>1. StoreTypeOK'
  BY StreamTypes DEF StoreInv
<1>2. KindsFit' /\ OneHolds' /\ CopiesFresh' /\ NothingLost'
  BY StoreUndisturbed DEF OpenStream
<1>3. /\ stream'.is = "open" /\ stream'.at = 0 /\ stream'.shown.status = "gone"
      /\ stream'.view.tables["row"] = {}
  BY DEF OpenStream, NoStream, NoCopy, Empty, Table
<1>4. StreamSees' /\ EndIsComplete'
  BY <1>3 DEF StreamSees, EndIsComplete, Terminal
<1> QED
  BY <1>1, <1>2, <1>4 DEF StoreInv

LEMMA ReadKeeps ==
  ASSUME StoreInv, ReadTable
  PROVE  StoreInv'
<1> DEFINE t == Tables[stream.at + 1]
<1>1. StoreTypeOK'
  BY StreamTypes DEF StoreInv, Watch
<1>2. KindsFit' /\ OneHolds' /\ CopiesFresh' /\ NothingLost'
  BY StoreUndisturbed DEF ReadTable
<1>3. /\ stream.at \in 0..4 /\ stream.at + 1 \in 1..5 /\ t \in Table
      /\ t = "row" <=> stream.at = 0
  <2>1. stream.at \in 0..4
    BY TablesAre DEF StoreInv, StoreTypeOK, ReadTable
  <2>2. stream.at + 1 \in 1..5 /\ (stream.at # 0 => stream.at + 1 \in 2..5)
    BY <2>1
  <2> QED
    BY <2>1, <2>2, TablesAre
<1>4. CASE t = "row" /\ runStatus = "gone"
  <2>1. stream' = [stream EXCEPT !.is = "error"]
    BY <1>4 DEF ReadTable
  <2>2. stream'.is = "error"
    BY <2>1 DEF StoreInv, StoreTypeOK
  <2>3. StreamSees' /\ EndIsComplete'
    BY <2>2 DEF StreamSees, EndIsComplete
  <2> QED
    BY <1>1, <1>2, <2>3 DEF StoreInv
<1>5. CASE ~(t = "row" /\ runStatus = "gone")
  <2> DEFINE view == [status |-> IF t = "row" THEN runStatus ELSE stream.view.status,
                      tables |-> [stream.view.tables EXCEPT ![t] = stored[t]]]
  <2>1. stream' = [stream EXCEPT !.at = stream.at + 1, !.view = view]
    BY <1>5 DEF ReadTable
  <2>2. view.tables = [stream.view.tables EXCEPT ![t] = stored[t]]
    OBVIOUS
  <2>3. stream.view.tables \in [Table -> SUBSET Command]
    BY DEF StoreInv, StoreTypeOK, Copy
  <2>4. view.tables[t] = stored[t] /\ \A u \in Table : u # t => view.tables[u] = stream.view.tables[u]
    BY <1>3, <2>2, <2>3
  <2> HIDE DEF view
  <2>5. /\ stream'.is = "open" /\ stream.is = "open" /\ stream'.view = view
        /\ stream'.at = stream.at + 1 /\ stream'.shown = stream.shown
    BY <2>1 DEF ReadTable, StoreInv, StoreTypeOK
  <2>6. runStatus' = runStatus /\ kept' = kept
    BY DEF ReadTable
  <2>7. EndIsComplete'
    BY <2>5 DEF EndIsComplete
  <2>8. stream'.shown.status \notin Terminal
    BY <2>5 DEF StoreInv, StreamSees
  <2>9. stored[t] = kept
    BY <1>3 DEF StoreInv, NothingLost
  <2>10. ASSUME runStatus # "gone"
         PROVE  /\ view.tables["row"] \subseteq kept
                /\ \A i \in 1..(stream.at + 1) : view.tables["row"] \subseteq view.tables[Tables[i]]
    <3>1. CASE stream.at = 0
      <4>1. t = "row" /\ 1..(stream.at + 1) = {1} /\ Tables[1] = "row"
        BY <1>3, <3>1, TablesAre
      <4> QED
        BY <2>4, <2>9, <4>1
    <3>2. CASE stream.at # 0
      <4>1. t # "row" /\ "row" \in Table
        BY <1>3, <3>2 DEF Table
      <4>2. view.tables["row"] = stream.view.tables["row"]
        BY <2>4, <4>1
      <4>3. /\ stream.view.tables["row"] \subseteq kept
            /\ \A i \in 1..stream.at :
                 stream.view.tables["row"] \subseteq stream.view.tables[Tables[i]]
        BY <2>5, <2>10 DEF StoreInv, StreamSees
      <4>4. \A i \in 1..(stream.at + 1) : i \in 1..stream.at \/ Tables[i] = t
        BY <1>3
      <4>5. \A i \in 1..stream.at : Tables[i] \in Table
        BY <1>3, TablesAre
      <4>6. ASSUME NEW i \in 1..(stream.at + 1)
            PROVE  view.tables["row"] \subseteq view.tables[Tables[i]]
        <5>1. CASE Tables[i] = t
          BY <2>4, <2>9, <4>2, <4>3, <5>1
        <5>2. CASE Tables[i] # t
          BY <2>4, <4>2, <4>3, <4>4, <4>5, <5>2
        <5> QED
          BY <5>1, <5>2
      <4> QED
        BY <4>2, <4>3, <4>6
    <3> QED
      BY <3>1, <3>2
  <2>11. StreamSees'
    BY <2>5, <2>6, <2>8, <2>10 DEF StreamSees
  <2> QED
    BY <1>1, <1>2, <2>7, <2>11 DEF StoreInv
<1> QED
  BY <1>4, <1>5

LEMMA SendKeeps ==
  ASSUME StoreInv, SendView
  PROVE  StoreInv'
<1>1. StoreTypeOK'
  BY StreamTypes DEF StoreInv, Watch
<1>2. KindsFit' /\ OneHolds' /\ CopiesFresh' /\ NothingLost'
  BY StoreUndisturbed DEF SendView
<1>3. PICK shown \in {stream.view, stream.shown} :
        /\ stream' = [at |-> 0, view |-> NoCopy, shown |-> shown,
                      is |-> IF stream.view.status \in Terminal THEN "ended" ELSE "open"]
        /\ shown = stream.view \/ (shown = stream.shown /\ stream.view.status = stream.shown.status)
  BY DEF SendView
<1>4. stream.is = "open" /\ stream.at = 5 /\ runStatus' = runStatus
  BY TablesAre DEF SendView
<1>5. stream'.at = 0 /\ stream'.view = NoCopy /\ stream'.shown = shown
  BY <1>3
<1>6. CASE stream.view.status \in Terminal
  <2>1. stream'.is = "ended"
    BY <1>3, <1>6
  <2>2. shown = stream.view
    BY <1>3, <1>4, <1>6 DEF StoreInv, StreamSees
  <2>3. ASSUME runStatus # "gone", NEW t \in Table
        PROVE  stream.view.tables["row"] \subseteq stream.view.tables[t]
    BY <1>4, <2>3, TablesAre DEF StoreInv, StreamSees
  <2>4. StreamSees' /\ EndIsComplete'
    BY <1>4, <1>5, <2>1, <2>2, <2>3 DEF StreamSees, EndIsComplete
  <2> QED
    BY <1>1, <1>2, <2>4 DEF StoreInv
<1>7. CASE stream.view.status \notin Terminal
  <2>1. stream'.is = "open"
    BY <1>3, <1>7
  <2>2. shown.status \notin Terminal
    BY <1>3, <1>4, <1>7 DEF StoreInv, StreamSees
  <2>3. NoCopy.tables["row"] = {}
    BY DEF NoCopy, Empty, Table
  <2>4. StreamSees' /\ EndIsComplete'
    BY <1>5, <2>1, <2>2, <2>3 DEF StreamSees, EndIsComplete
  <2> QED
    BY <1>1, <1>2, <2>4 DEF StoreInv
<1> QED
  BY <1>6, <1>7

-----------------------------------------------------------------------------
LEMMA StoreStarts == StoreInit => StoreInv
<1> SUFFICES ASSUME StoreInit PROVE StoreInv
  OBVIOUS
<1>1. /\ runStatus = "running" /\ stored = Empty /\ kept = {} /\ stream = NoStream
      /\ txs = [c \in Command |-> NoTx]
  BY DEF StoreInit
<1>2. \A c \in Command : At(c) = "idle"
  BY <1>1 DEF At, NoTx
<1>3. StoreTypeOK
  <2>1. NoTx \in [at : {"idle", "child", "share", "row", "parts", "cascade", "committed",
                        "failed"}, copy : Copy]
    BY EmptyTyped DEF NoTx
  <2>2. NoStream \in [at : 0..Len(Tables), view : Copy, shown : Copy,
                      is : {"closed", "open", "ended", "error"}]
    BY EmptyTyped, TablesAre DEF NoStream
  <2> QED
    BY <1>1, <2>1, <2>2, EmptyTyped DEF StoreTypeOK, Status
<1>4. KindsFit /\ OneHolds /\ CopiesFresh
  BY <1>2 DEF KindsFit, OneHolds, CopiesFresh, HoldsRun
<1>5. NothingLost
  BY <1>1, <1>2 DEF NothingLost, Empty
<1>6. StreamSees /\ EndIsComplete
  BY <1>1 DEF NoStream, StreamSees, EndIsComplete
<1> QED
  BY <1>3, <1>4, <1>5, <1>6 DEF StoreInv

LEMMA StoreKeeps ==
  ASSUME StoreInv, [StoreNext]_storeVars
  PROVE  StoreInv'
<1>1. ASSUME NEW c \in Command, Begin(c) \/ Proceeds(c) PROVE StoreInv'
  <2>1. StoreTypeOK'
    BY <1>1, TxTypes DEF StoreInv
  <2> QED
    BY <1>1, <2>1, LocksKeep, CopiesKeep, PageUndisturbed DEF StoreInv
<1>2. CASE UNCHANGED storeVars
  <2>1. StoreTypeOK' /\ StreamSees' /\ EndIsComplete'
    BY <1>2 DEF storeVars, StoreInv, StoreTypeOK, StreamSees, EndIsComplete
  <2> QED
    BY <1>2, <2>1, StoreUndisturbed DEF storeVars, StoreInv
<1> QED
  BY <1>1, <1>2, OpenKeeps, ReadKeeps, SendKeeps DEF StoreNext, Watch

\* The invariant of a run's tables holds for any commands about it, however their transactions
\* and the page's queries interleave and are rolled back.
THEOREM StoreInvariant == StoreSpec => []StoreInv
BY StoreStarts, StoreKeeps, PTL DEF StoreSpec

\* The tables, transactions and the page keep their types.
THEOREM StoreTyped == StoreSpec => []StoreTypeOK
BY StoreInvariant, PTL DEF StoreInv

\* With the row locked from the first query to the commit, writing back all that was loaded
\* loses nothing (pipeline_run_repository.go).
THEOREM NothingIsLost == StoreSpec => []NothingLost
BY StoreInvariant, PTL DEF StoreInv

\* Two transactions wait for each other only if one of them deletes the run.
THEOREM DeadlocksDelete == StoreSpec => []DeadlocksNeedDeletion
<1>1. ASSUME StoreInv PROVE DeadlocksNeedDeletion
  BY <1>1 DEF StoreInv, KindsFit, DeadlocksNeedDeletion, WaitsFor, WantsRun, WantsChildren,
              HoldsRun, SharesRun
<1> QED
  BY <1>1, StoreInvariant, PTL

\* The view a stream ends with is complete, whatever was committed between its queries
\* (read/pipeline.go, pipeline_routes.go).
THEOREM EndsComplete == StoreSpec => []EndIsComplete
BY StoreInvariant, PTL DEF StoreInv
=============================================================================
