---------------------------- MODULE Ledger_proof ----------------------------
(***************************************************************************)
(* Proofs about Ledger: type correctness, what the rest of a payment       *)
(* accounts for, and what a handled deletion has done.  The lemmas take    *)
(* the actions one by one.                                                 *)
(***************************************************************************)
EXTENDS Ledger, TLAPS

USE LedgerAssumption

\* Updates of one field keep the type.
LEMMA FlagTyped ==
  ASSUME NEW p \in Payment, carrier \in [Payment -> Carrier]
  PROVE  [carrier EXCEPT ![p].flag = TRUE] \in [Payment -> Carrier]
<1>1. carrier[p] \in Carrier
  OBVIOUS
<1>2. [carrier[p] EXCEPT !.flag = TRUE] \in Carrier
  BY <1>1, Zenon DEF Carrier
<1> QED
  BY <1>2

LEMMA CountedTyped ==
  ASSUME NEW p \in Payment, NEW S \in SUBSET Row, carrier \in [Payment -> Carrier]
  PROVE  [carrier EXCEPT ![p].counted = S] \in [Payment -> Carrier]
<1>1. [carrier[p] EXCEPT !.counted = S] \in Carrier
  BY DEF Carrier
<1> QED
  BY <1>1

\* The button walks live payments.
LEMMA WalkedLive == Walked \in SUBSET Payment /\ \A p \in Walked : carrier[p].state = "live"
  BY DEF Walked, Live

LEMMA ListTyped ==
  ASSUME NEW S \in SUBSET Row, cleaner \in Cleaner
  PROVE  LET c == [cleaner EXCEPT !.at = "free", !.rows = S] IN
           c \in Cleaner /\ c.at = "free" /\ c.target = cleaner.target
  BY DEF Cleaner

\* The portal starts without payments and rows.
LEMMA TypeInit == Init => TypeOK
  BY DEF Init, TypeOK, Carrier, Writer, Cleaner, Button, Resting, Clean, Released

\* Every call keeps the types, and a run in hand has its element.
LEMMA TypeStep == TypeOK /\ [Next]_vars => TypeOK'
<1> SUFFICES ASSUME TypeOK, [Next]_vars PROVE TypeOK'
  OBVIOUS
<1> USE DEF TypeOK
<1>1. ASSUME NEW r \in Row, StartWrite(r) PROVE TypeOK'
  <2>1. writer' \in Writer /\ writer'.row \in Row
    BY <1>1 DEF StartWrite, Resting, Writer
  <2> QED
    BY <1>1, <2>1 DEF StartWrite
<1>2. CASE FindPay
  BY <1>2 DEF FindPay, InHand, Writer, Carrier, Cleaner, Button
<1>3. CASE AddPay
  <2>1. [state |-> "live", counted |-> {}, flag |-> FALSE, older |-> Live] \in Carrier
    BY DEF Carrier, Live
  <2>2. carrier' \in [Payment -> Carrier]
    BY <1>3, <2>1 DEF AddPay, InHand
  <2>3. writer' \in Writer /\ writer'.row = writer.row
    BY <1>3 DEF AddPay, Writer
  <2> QED
    BY <1>3, <2>2, <2>3 DEF AddPay, Writer
<1>4. CASE FindRow
  BY <1>4 DEF FindRow, AfterRow, HasMarker, Resting, Writer, Carrier, Cleaner, Button
<1>5. CASE AddRow
  BY <1>5 DEF AddRow, AfterRow, Resting, Writer, Carrier, Cleaner, Button
<1>6. CASE LoadRows
  BY <1>6 DEF LoadRows, InHand, Active, RowsOf, Writer, Carrier, Cleaner, Button
<1>7. CASE SaveWritten
  <2>1. InHand \in Payment /\ writer.seen \in SUBSET Row
    BY <1>7 DEF SaveWritten, InHand, Writer
  <2>2. carrier' \in [Payment -> Carrier] /\ drift' \in SUBSET Payment
    BY <1>7, <2>1, CountedTyped DEF SaveWritten, SaveRest
  <2>3. writer' \in Writer /\ writer'.at = "idle"
    BY <1>7 DEF SaveWritten, Resting, Writer
  <2> QED
    BY <1>7, <2>2, <2>3 DEF SaveWritten
<1>8. CASE WriteFails
  BY <1>8 DEF WriteFails, InHand, Resting, Writer, Carrier, Cleaner, Button
<1>9. ASSUME NEW t \in Target, StartClean(t) PROVE TypeOK'
  BY <1>9 DEF StartClean, Clean, Cleaner, Carrier, Writer, Button
<1>10. CASE ListRows
  <2>1. ToFree(cleaner.target) \in SUBSET Row
    BY DEF ToFree, RowsAt
  <2>2. CASE ToFree(cleaner.target) = {}
    <3>1. cleaner' = Clean
      BY <1>10, <2>2 DEF ListRows
    <3>2. cleaner' \in Cleaner /\ cleaner'.at = "idle"
      BY <3>1 DEF Clean, Cleaner
    <3> QED
      BY <1>10, <2>2, <3>2 DEF ListRows
  <2>3. CASE ToFree(cleaner.target) # {}
    <3>1. cleaner' \in Cleaner /\ cleaner'.at = "free" /\ cleaner'.target = cleaner.target
      BY <1>10, <2>1, <2>3, ListTyped DEF ListRows
    <3> QED
      BY <1>10, <2>3, <3>1 DEF ListRows
  <2> QED
    BY <2>2, <2>3
<1>11. ASSUME NEW r \in Row, FreeRow(r) PROVE TypeOK'
  <2>1. Parent[r] \in Payment
    OBVIOUS
  <2>2. cleaner' \in Cleaner /\ cleaner'.at = "free" /\ cleaner'.target = cleaner.target
    BY <1>11, <2>1 DEF FreeRow, Cleaner
  <2> QED
    BY <1>11, <2>2 DEF FreeRow
<1>12. CASE AllFreed
  <2>1. Affected \in SUBSET Payment
    BY DEF Affected, Cleaner
  <2>2. cleaner' \in Cleaner /\ cleaner'.at = "read" /\ cleaner'.target = cleaner.target
    BY <1>12, <2>1 DEF AllFreed, Cleaner
  <2> QED
    BY <1>12, <2>2 DEF AllFreed
<1>13. ASSUME NEW p \in Payment, ReadTotal(p) PROVE TypeOK'
  BY <1>13 DEF ReadTotal, Cleaner, Carrier, Writer, Button
<1>14. CASE LoadFreed
  BY <1>14 DEF LoadFreed, Active, RowsOf, Cleaner, Carrier, Writer, Button
<1>15. CASE SaveFreed
  <2>1. carrier' \in [Payment -> Carrier]
    BY <1>15, CountedTyped DEF SaveFreed, SaveRest, Cleaner
  <2>2. drift' \in SUBSET Payment
    BY <1>15 DEF SaveFreed, SaveRest, Cleaner
  <2>3. cleaner' \in Cleaner /\ cleaner'.at \in {"flag", "read"}
        /\ cleaner'.target = cleaner.target /\ cleaner'.pay = cleaner.pay
    BY <1>15 DEF SaveFreed, Cleaner
  <2> QED
    BY <1>15, <2>1, <2>2, <2>3 DEF SaveFreed
<1>16. CASE RaiseFlag
  <2>0. cleaner.pay \in Payment
    BY <1>16 DEF RaiseFlag
  <2>1. carrier' \in [Payment -> Carrier]
    BY <1>16, <2>0, FlagTyped DEF RaiseFlag
  <2>2. cleaner' \in Cleaner /\ cleaner'.at = "read" /\ cleaner'.target = cleaner.target
    BY <1>16 DEF RaiseFlag, Cleaner
  <2> QED
    BY <1>16, <2>1, <2>2 DEF RaiseFlag
<1>17. CASE EndClean
  BY <1>17 DEF EndClean, Clean, Cleaner, Carrier, Writer, Button
<1>18. CASE CleanFails
  BY <1>18 DEF CleanFails, CallFails, Clean, Cleaner, Carrier, Writer, Button
<1>19. CASE Press
  <2>1. button' \in Button /\ button'.at = "walk"
    BY <1>19, WalkedLive DEF Press, Released, Button
  <2> QED
    BY <1>19, <2>1 DEF Press
<1>20. ASSUME NEW p \in Payment, LoadNext(p) PROVE TypeOK'
  BY <1>20 DEF LoadNext, Recounted, Active, RowsOf, Button, Carrier, Writer, Cleaner
<1>21. CASE SaveNext
  <2>1. carrier' \in [Payment -> Carrier]
    BY <1>21 DEF SaveNext, SaveRest, Carrier, Button
  <2>2. drift' \in SUBSET Payment
    BY <1>21 DEF SaveNext, SaveRest, Button
  <2>3. button' \in Button /\ button'.at = "walk"
    BY <1>21 DEF SaveNext, Button
  <2> QED
    BY <1>21, <2>1, <2>2, <2>3 DEF SaveNext
<1>22. CASE EndPress
  BY <1>22 DEF EndPress, Released, Button, Carrier, Writer, Cleaner
<1>23. CASE PressFails
  BY <1>23 DEF PressFails, Released, Button, Carrier, Writer, Cleaner
<1>24. ASSUME NEW r \in Row, AddByHand(r) PROVE TypeOK'
  BY <1>24 DEF AddByHand, Carrier, Writer, Cleaner, Button
<1>25. ASSUME NEW r \in Row, RemoveByHand(r) PROVE TypeOK'
  BY <1>25 DEF RemoveByHand, Carrier, Writer, Cleaner, Button
<1>26. ASSUME NEW t \in Target, DeleteTarget(t) PROVE TypeOK'
  BY <1>26 DEF DeleteTarget, Carrier, Writer, Cleaner, Button
<1>27. ASSUME NEW p \in Payment, DeletePayment(p) PROVE TypeOK'
  <2>1. carrier' \in [Payment -> Carrier]
    BY <1>27 DEF DeletePayment, Carrier
  <2> QED
    BY <1>27, <2>1 DEF DeletePayment
<1>28. CASE UNCHANGED vars
  BY <1>28 DEF vars
<1> QED
  BY <1>1, <1>2, <1>3, <1>4, <1>5, <1>6, <1>7, <1>8, <1>9, <1>10, <1>11, <1>12, <1>13, <1>14, <1>15, <1>16, <1>17, <1>18, <1>19, <1>20, <1>21, <1>22, <1>23, <1>24, <1>25, <1>26, <1>27, <1>28
     DEF Next, WriterStep, CleanerStep, ButtonStep, ByHand

\* The variables keep their types (TypeOK).
THEOREM TypeCorrect == Spec => []TypeOK
<1>1. Init => TypeOK
  BY TypeInit
<1>2. TypeOK /\ [Next]_vars => TypeOK'
  BY TypeStep
<1> QED
  BY <1>1, <1>2, PTL DEF Spec

\* Whoever changes a row owes its payment a recomputation, or leaves drift.
LEMMA RestStep == TypeOK /\ LedgerInv /\ [Next]_vars => RestAccounted'
<1> SUFFICES ASSUME TypeOK, LedgerInv, [Next]_vars PROVE RestAccounted'
  OBVIOUS
<1> USE DEF TypeOK, LedgerInv, RestAccounted, Owed, Live, Exact, Active, RowsOf, InHand
<1>1. ASSUME NEW r \in Row, StartWrite(r) PROVE RestAccounted'
  BY <1>1 DEF StartWrite, Resting, Cleaning, Affected, Placed, Writer, Cleaner, Button, Carrier
<1>2. CASE FindPay
  BY <1>2 DEF FindPay, Cleaning, Affected, Placed, Writer, Cleaner, Button, Carrier
<1>3. CASE AddPay
  BY <1>3 DEF AddPay, Cleaning, Affected, Placed, Writer, Cleaner, Button, Carrier
<1>4. CASE FindRow
  BY <1>4 DEF FindRow, AfterRow, HasMarker, Resting, Cleaning, Affected, Placed, Writer, Cleaner, Button, Carrier
<1>5. CASE AddRow
  BY <1>5 DEF AddRow, AfterRow, Resting, Cleaning, Affected, Placed, Writer, Cleaner, Button, Carrier
<1>6. CASE LoadRows
  BY <1>6 DEF LoadRows, Cleaning, Affected, Placed, Writer, Cleaner, Button, Carrier
<1>7. CASE SaveWritten
  BY <1>7 DEF SaveWritten, SaveRest, Resting, Cleaning, Affected, Placed, Writer, Cleaner, Button, Carrier
<1>8. CASE WriteFails
  BY <1>8 DEF WriteFails, Resting, Cleaning, Affected, Placed, Writer, Cleaner, Button, Carrier
<1>9. ASSUME NEW t \in Target, StartClean(t) PROVE RestAccounted'
  BY <1>9 DEF StartClean, Clean, Cleaning, Affected, Placed, Writer, Cleaner, Button, Carrier
<1>10. CASE ListRows
  BY <1>10 DEF ListRows, ToFree, RowsAt, Clean, Cleaning, Affected, Placed, Writer, Cleaner, Button, Carrier
<1>11. ASSUME NEW r \in Row, FreeRow(r) PROVE RestAccounted'
  BY <1>11 DEF FreeRow, Cleaning, Affected, Placed, Writer, Cleaner, Button, Carrier
<1>12. CASE AllFreed
  BY <1>12 DEF AllFreed, Affected, Cleaning, Placed, Writer, Cleaner, Button, Carrier
<1>13. ASSUME NEW p \in Payment, ReadTotal(p) PROVE RestAccounted'
  BY <1>13 DEF ReadTotal, Cleaning, Affected, Placed, Writer, Cleaner, Button, Carrier
<1>14. CASE LoadFreed
  BY <1>14 DEF LoadFreed, Cleaning, Affected, Placed, Writer, Cleaner, Button, Carrier
<1>15. CASE SaveFreed
  BY <1>15 DEF SaveFreed, SaveRest, NeedsFlag, Cleaning, Affected, Placed, Writer, Cleaner, Button, Carrier
<1>16. CASE RaiseFlag
  BY <1>16 DEF RaiseFlag, Cleaning, Affected, Placed, Writer, Cleaner, Button, Carrier
<1>17. CASE EndClean
  BY <1>17 DEF EndClean, Clean, Cleaning, Affected, Placed, Writer, Cleaner, Button, Carrier
<1>18. CASE CleanFails
  BY <1>18 DEF CleanFails, CallFails, Clean, Cleaning, Affected, Placed, Writer, Cleaner, Button, Carrier
<1>19. CASE Press
  BY <1>19 DEF Press, Released, Cleaning, Affected, Placed, Writer, Cleaner, Button, Carrier
<1>20. ASSUME NEW p \in Payment, LoadNext(p) PROVE RestAccounted'
  BY <1>20 DEF LoadNext, Recounted, Cleaning, Affected, Placed, Writer, Cleaner, Button, Carrier
<1>21. CASE SaveNext
  BY <1>21 DEF SaveNext, SaveRest, Cleaning, Affected, Placed, Writer, Cleaner, Button, Carrier
<1>22. CASE EndPress
  BY <1>22 DEF EndPress, Released, Cleaning, Affected, Placed, Writer, Cleaner, Button, Carrier
<1>23. CASE PressFails
  BY <1>23 DEF PressFails, Released, Cleaning, Affected, Placed, Writer, Cleaner, Button, Carrier
<1>24. ASSUME NEW r \in Row, AddByHand(r) PROVE RestAccounted'
  BY <1>24 DEF AddByHand, Cleaning, Affected, Placed, Writer, Cleaner, Button, Carrier
<1>25. ASSUME NEW r \in Row, RemoveByHand(r) PROVE RestAccounted'
  BY <1>25 DEF RemoveByHand, Cleaning, Affected, Placed, Writer, Cleaner, Button, Carrier
<1>26. ASSUME NEW t \in Target, DeleteTarget(t) PROVE RestAccounted'
  BY <1>26 DEF DeleteTarget, Cleaning, Affected, Placed, Writer, Cleaner, Button, Carrier
<1>27. ASSUME NEW p \in Payment, DeletePayment(p) PROVE RestAccounted'
  BY <1>27 DEF DeletePayment, Cleaning, Affected, Placed, Writer, Cleaner, Button, Carrier
<1>28. CASE UNCHANGED vars
  BY <1>28 DEF vars
<1> QED
  BY <1>1, <1>2, <1>3, <1>4, <1>5, <1>6, <1>7, <1>8, <1>9, <1>10, <1>11, <1>12, <1>13, <1>14, <1>15, <1>16, <1>17, <1>18, <1>19, <1>20, <1>21, <1>22, <1>23, <1>24, <1>25, <1>26, <1>27, <1>28
     DEF Next, WriterStep, CleanerStep, ButtonStep, ByHand

\* A job ends only when no row of its target is left to free.
LEMMA HandledStep == TypeOK /\ LedgerInv /\ [Next]_vars => HandledMeansFreed'
<1> SUFFICES ASSUME TypeOK, LedgerInv, [Next]_vars PROVE HandledMeansFreed'
  OBVIOUS
<1> USE DEF TypeOK, LedgerInv, HandledMeansFreed, RowsAt, ToFree
<1>1. ASSUME NEW r \in Row, StartWrite(r) PROVE HandledMeansFreed'
  BY <1>1 DEF StartWrite, Resting, Cleaning, Placed, Writer, Cleaner, Button, Carrier
<1>2. CASE FindPay
  BY <1>2 DEF FindPay, InHand, Cleaning, Placed, Writer, Cleaner, Button, Carrier
<1>3. CASE AddPay
  BY <1>3 DEF AddPay, InHand, Cleaning, Placed, Writer, Cleaner, Button, Carrier
<1>4. CASE FindRow
  BY <1>4 DEF FindRow, AfterRow, HasMarker, Resting, Cleaning, Placed, Writer, Cleaner, Button, Carrier
<1>5. CASE AddRow
  BY <1>5 DEF AddRow, AfterRow, Resting, Cleaning, Placed, Writer, Cleaner, Button, Carrier
<1>6. CASE LoadRows
  BY <1>6 DEF LoadRows, InHand, Active, RowsOf, Cleaning, Placed, Writer, Cleaner, Button, Carrier
<1>7. CASE SaveWritten
  BY <1>7 DEF SaveWritten, InHand, SaveRest, Resting, Cleaning, Placed, Writer, Cleaner, Button, Carrier
<1>8. CASE WriteFails
  BY <1>8 DEF WriteFails, InHand, Resting, Cleaning, Placed, Writer, Cleaner, Button, Carrier
<1>9. ASSUME NEW t \in Target, StartClean(t) PROVE HandledMeansFreed'
  BY <1>9 DEF StartClean, Clean, Cleaning, Placed, Writer, Cleaner, Button, Carrier
<1>10. CASE ListRows
  BY <1>10 DEF ListRows, Clean, Cleaning, Placed, Writer, Cleaner, Button, Carrier
<1>11. ASSUME NEW r \in Row, FreeRow(r) PROVE HandledMeansFreed'
  BY <1>11 DEF FreeRow, Cleaning, Placed, Writer, Cleaner, Button, Carrier
<1>12. CASE AllFreed
  BY <1>12 DEF AllFreed, Affected, Cleaning, Placed, Writer, Cleaner, Button, Carrier
<1>13. ASSUME NEW p \in Payment, ReadTotal(p) PROVE HandledMeansFreed'
  BY <1>13 DEF ReadTotal, Cleaning, Placed, Writer, Cleaner, Button, Carrier
<1>14. CASE LoadFreed
  BY <1>14 DEF LoadFreed, Active, RowsOf, Cleaning, Placed, Writer, Cleaner, Button, Carrier
<1>15. CASE SaveFreed
  BY <1>15 DEF SaveFreed, SaveRest, NeedsFlag, Cleaning, Placed, Writer, Cleaner, Button, Carrier
<1>16. CASE RaiseFlag
  BY <1>16 DEF RaiseFlag, Cleaning, Placed, Writer, Cleaner, Button, Carrier
<1>17. CASE EndClean
  BY <1>17 DEF EndClean, Clean, Cleaning, Placed, Writer, Cleaner, Button, Carrier
<1>18. CASE CleanFails
  BY <1>18 DEF CleanFails, CallFails, Clean, Cleaning, Placed, Writer, Cleaner, Button, Carrier
<1>19. CASE Press
  BY <1>19 DEF Press, Live, Released, Cleaning, Placed, Writer, Cleaner, Button, Carrier
<1>20. ASSUME NEW p \in Payment, LoadNext(p) PROVE HandledMeansFreed'
  BY <1>20 DEF LoadNext, Recounted, Active, RowsOf, Cleaning, Placed, Writer, Cleaner, Button, Carrier
<1>21. CASE SaveNext
  BY <1>21 DEF SaveNext, SaveRest, Cleaning, Placed, Writer, Cleaner, Button, Carrier
<1>22. CASE EndPress
  BY <1>22 DEF EndPress, Released, Cleaning, Placed, Writer, Cleaner, Button, Carrier
<1>23. CASE PressFails
  BY <1>23 DEF PressFails, Released, Cleaning, Placed, Writer, Cleaner, Button, Carrier
<1>24. ASSUME NEW r \in Row, AddByHand(r) PROVE HandledMeansFreed'
  BY <1>24 DEF AddByHand, Cleaning, Placed, Writer, Cleaner, Button, Carrier
<1>25. ASSUME NEW r \in Row, RemoveByHand(r) PROVE HandledMeansFreed'
  BY <1>25 DEF RemoveByHand, Cleaning, Placed, Writer, Cleaner, Button, Carrier
<1>26. ASSUME NEW t \in Target, DeleteTarget(t) PROVE HandledMeansFreed'
  BY <1>26 DEF DeleteTarget, Cleaning, Placed, Writer, Cleaner, Button, Carrier
<1>27. ASSUME NEW p \in Payment, DeletePayment(p) PROVE HandledMeansFreed'
  BY <1>27 DEF DeletePayment, Cleaning, Placed, Writer, Cleaner, Button, Carrier
<1>28. CASE UNCHANGED vars
  BY <1>28 DEF vars
<1> QED
  BY <1>1, <1>2, <1>3, <1>4, <1>5, <1>6, <1>7, <1>8, <1>9, <1>10, <1>11, <1>12, <1>13, <1>14, <1>15, <1>16, <1>17, <1>18, <1>19, <1>20, <1>21, <1>22, <1>23, <1>24, <1>25, <1>26, <1>27, <1>28
     DEF Next, WriterStep, CleanerStep, ButtonStep, ByHand

\* A job that never failed ends with its manual payments flagged.
LEMMA FlaggedStep == TypeOK /\ LedgerInv /\ [Next]_vars => ManualFreeFlagged'
<1> SUFFICES ASSUME TypeOK, LedgerInv, [Next]_vars PROVE ManualFreeFlagged'
  OBVIOUS
<1> USE DEF TypeOK, LedgerInv, ManualFreeFlagged
<1>1. ASSUME NEW r \in Row, StartWrite(r) PROVE ManualFreeFlagged'
  BY <1>1 DEF StartWrite, Resting, Flagging, Cleaning, Placed, Writer, Cleaner, Button, Carrier
<1>2. CASE FindPay
  BY <1>2 DEF FindPay, InHand, Flagging, Cleaning, Placed, Writer, Cleaner, Button, Carrier
<1>3. CASE AddPay
  BY <1>3 DEF AddPay, InHand, Flagging, Cleaning, Placed, Writer, Cleaner, Button, Carrier
<1>4. CASE FindRow
  BY <1>4 DEF FindRow, AfterRow, HasMarker, Resting, Flagging, Cleaning, Placed, Writer, Cleaner, Button, Carrier
<1>5. CASE AddRow
  BY <1>5 DEF AddRow, AfterRow, Resting, Flagging, Cleaning, Placed, Writer, Cleaner, Button, Carrier
<1>6. CASE LoadRows
  BY <1>6 DEF LoadRows, InHand, Active, RowsOf, Flagging, Cleaning, Placed, Writer, Cleaner, Button, Carrier
<1>7. CASE SaveWritten
  BY <1>7 DEF SaveWritten, InHand, SaveRest, Resting, Flagging, Cleaning, Placed, Writer, Cleaner, Button, Carrier
<1>8. CASE WriteFails
  BY <1>8 DEF WriteFails, InHand, Resting, Flagging, Cleaning, Placed, Writer, Cleaner, Button, Carrier
<1>9. ASSUME NEW t \in Target, StartClean(t) PROVE ManualFreeFlagged'
  BY <1>9 DEF StartClean, Clean, Flagging, Cleaning, Placed, Writer, Cleaner, Button, Carrier
<1>10. CASE ListRows
  BY <1>10 DEF ListRows, ToFree, RowsAt, Clean, Flagging, Cleaning, Placed, Writer, Cleaner, Button, Carrier
<1>11. ASSUME NEW r \in Row, FreeRow(r) PROVE ManualFreeFlagged'
  BY <1>11 DEF FreeRow, Flagging, Cleaning, Placed, Writer, Cleaner, Button, Carrier
<1>12. CASE AllFreed
  BY <1>12 DEF AllFreed, Affected, Flagging, Cleaning, Placed, Writer, Cleaner, Button, Carrier
<1>13. ASSUME NEW p \in Payment, ReadTotal(p) PROVE ManualFreeFlagged'
  BY <1>13 DEF ReadTotal, Flagging, Cleaning, Placed, Writer, Cleaner, Button, Carrier
<1>14. CASE LoadFreed
  BY <1>14 DEF LoadFreed, Active, RowsOf, Flagging, Cleaning, Placed, Writer, Cleaner, Button, Carrier
<1>15. CASE SaveFreed
  BY <1>15 DEF SaveFreed, SaveRest, NeedsFlag, Flagging, Cleaning, Placed, Writer, Cleaner, Button, Carrier
<1>16. CASE RaiseFlag
  BY <1>16 DEF RaiseFlag, Flagging, Cleaning, Placed, Writer, Cleaner, Button, Carrier
<1>17. CASE EndClean
  BY <1>17 DEF EndClean, Clean, Flagging, Cleaning, Placed, Writer, Cleaner, Button, Carrier
<1>18. CASE CleanFails
  BY <1>18 DEF CleanFails, CallFails, Clean, Flagging, Cleaning, Placed, Writer, Cleaner, Button, Carrier
<1>19. CASE Press
  BY <1>19 DEF Press, Live, Released, Flagging, Cleaning, Placed, Writer, Cleaner, Button, Carrier
<1>20. ASSUME NEW p \in Payment, LoadNext(p) PROVE ManualFreeFlagged'
  BY <1>20 DEF LoadNext, Recounted, Active, RowsOf, Flagging, Cleaning, Placed, Writer, Cleaner, Button, Carrier
<1>21. CASE SaveNext
  BY <1>21 DEF SaveNext, SaveRest, Flagging, Cleaning, Placed, Writer, Cleaner, Button, Carrier
<1>22. CASE EndPress
  BY <1>22 DEF EndPress, Released, Flagging, Cleaning, Placed, Writer, Cleaner, Button, Carrier
<1>23. CASE PressFails
  BY <1>23 DEF PressFails, Released, Flagging, Cleaning, Placed, Writer, Cleaner, Button, Carrier
<1>24. ASSUME NEW r \in Row, AddByHand(r) PROVE ManualFreeFlagged'
  BY <1>24 DEF AddByHand, Flagging, Cleaning, Placed, Writer, Cleaner, Button, Carrier
<1>25. ASSUME NEW r \in Row, RemoveByHand(r) PROVE ManualFreeFlagged'
  BY <1>25 DEF RemoveByHand, Flagging, Cleaning, Placed, Writer, Cleaner, Button, Carrier
<1>26. ASSUME NEW t \in Target, DeleteTarget(t) PROVE ManualFreeFlagged'
  BY <1>26 DEF DeleteTarget, Flagging, Cleaning, Placed, Writer, Cleaner, Button, Carrier
<1>27. ASSUME NEW p \in Payment, DeletePayment(p) PROVE ManualFreeFlagged'
  BY <1>27 DEF DeletePayment, Flagging, Cleaning, Placed, Writer, Cleaner, Button, Carrier
<1>28. CASE UNCHANGED vars
  BY <1>28 DEF vars
<1> QED
  BY <1>1, <1>2, <1>3, <1>4, <1>5, <1>6, <1>7, <1>8, <1>9, <1>10, <1>11, <1>12, <1>13, <1>14, <1>15, <1>16, <1>17, <1>18, <1>19, <1>20, <1>21, <1>22, <1>23, <1>24, <1>25, <1>26, <1>27, <1>28
     DEF Next, WriterStep, CleanerStep, ButtonStep, ByHand

\* A row is added under a payment that exists, where no marker stands.
LEMMA PlacedStep == TypeOK /\ LedgerInv /\ [Next]_vars => Placed'
<1> SUFFICES ASSUME TypeOK, LedgerInv, [Next]_vars PROVE Placed'
  OBVIOUS
<1> USE DEF TypeOK, LedgerInv, Placed, InHand, HasMarker
<1>1. ASSUME NEW r \in Row, StartWrite(r) PROVE Placed'
  BY <1>1 DEF StartWrite, Resting, Cleaning, Writer, Cleaner, Button, Carrier
<1>2. CASE FindPay
  BY <1>2 DEF FindPay, Cleaning, Writer, Cleaner, Button, Carrier
<1>3. CASE AddPay
  BY <1>3 DEF AddPay, Cleaning, Writer, Cleaner, Button, Carrier
<1>4. CASE FindRow
  BY <1>4 DEF FindRow, AfterRow, Resting, Cleaning, Writer, Cleaner, Button, Carrier
<1>5. CASE AddRow
  BY <1>5 DEF AddRow, AfterRow, Resting, Cleaning, Writer, Cleaner, Button, Carrier
<1>6. CASE LoadRows
  BY <1>6 DEF LoadRows, Active, RowsOf, Cleaning, Writer, Cleaner, Button, Carrier
<1>7. CASE SaveWritten
  BY <1>7 DEF SaveWritten, SaveRest, Resting, Cleaning, Writer, Cleaner, Button, Carrier
<1>8. CASE WriteFails
  BY <1>8 DEF WriteFails, Resting, Cleaning, Writer, Cleaner, Button, Carrier
<1>9. ASSUME NEW t \in Target, StartClean(t) PROVE Placed'
  BY <1>9 DEF StartClean, Clean, Cleaning, Writer, Cleaner, Button, Carrier
<1>10. CASE ListRows
  BY <1>10 DEF ListRows, ToFree, RowsAt, Clean, Cleaning, Writer, Cleaner, Button, Carrier
<1>11. ASSUME NEW r \in Row, FreeRow(r) PROVE Placed'
  BY <1>11 DEF FreeRow, Cleaning, Writer, Cleaner, Button, Carrier
<1>12. CASE AllFreed
  BY <1>12 DEF AllFreed, Affected, Cleaning, Writer, Cleaner, Button, Carrier
<1>13. ASSUME NEW p \in Payment, ReadTotal(p) PROVE Placed'
  BY <1>13 DEF ReadTotal, Cleaning, Writer, Cleaner, Button, Carrier
<1>14. CASE LoadFreed
  BY <1>14 DEF LoadFreed, Active, RowsOf, Cleaning, Writer, Cleaner, Button, Carrier
<1>15. CASE SaveFreed
  BY <1>15 DEF SaveFreed, SaveRest, NeedsFlag, Cleaning, Writer, Cleaner, Button, Carrier
<1>16. CASE RaiseFlag
  BY <1>16 DEF RaiseFlag, Cleaning, Writer, Cleaner, Button, Carrier
<1>17. CASE EndClean
  BY <1>17 DEF EndClean, Clean, Cleaning, Writer, Cleaner, Button, Carrier
<1>18. CASE CleanFails
  BY <1>18 DEF CleanFails, CallFails, Clean, Cleaning, Writer, Cleaner, Button, Carrier
<1>19. CASE Press
  BY <1>19, WalkedLive DEF Press, Released, Cleaning, Writer, Cleaner, Button, Carrier
<1>20. ASSUME NEW p \in Payment, LoadNext(p) PROVE Placed'
  BY <1>20 DEF LoadNext, Recounted, Active, RowsOf, Cleaning, Writer, Cleaner, Button, Carrier
<1>21. CASE SaveNext
  BY <1>21 DEF SaveNext, SaveRest, Cleaning, Writer, Cleaner, Button, Carrier
<1>22. CASE EndPress
  BY <1>22 DEF EndPress, Released, Cleaning, Writer, Cleaner, Button, Carrier
<1>23. CASE PressFails
  BY <1>23 DEF PressFails, Released, Cleaning, Writer, Cleaner, Button, Carrier
<1>24. ASSUME NEW r \in Row, AddByHand(r) PROVE Placed'
  BY <1>24 DEF AddByHand, Cleaning, Writer, Cleaner, Button, Carrier
<1>25. ASSUME NEW r \in Row, RemoveByHand(r) PROVE Placed'
  BY <1>25 DEF RemoveByHand, Cleaning, Writer, Cleaner, Button, Carrier
<1>26. ASSUME NEW t \in Target, DeleteTarget(t) PROVE Placed'
  BY <1>26 DEF DeleteTarget, Cleaning, Writer, Cleaner, Button, Carrier
<1>27. ASSUME NEW p \in Payment, DeletePayment(p) PROVE Placed'
  BY <1>27 DEF DeletePayment, Cleaning, Writer, Cleaner, Button, Carrier
<1>28. CASE UNCHANGED vars
  BY <1>28 DEF vars
<1> QED
  BY <1>1, <1>2, <1>3, <1>4, <1>5, <1>6, <1>7, <1>8, <1>9, <1>10, <1>11, <1>12, <1>13, <1>14, <1>15, <1>16, <1>17, <1>18, <1>19, <1>20, <1>21, <1>22, <1>23, <1>24, <1>25, <1>26, <1>27, <1>28
     DEF Next, WriterStep, CleanerStep, ButtonStep, ByHand

\* The worker's lists agree with the rows of the target in hand.
LEMMA CleaningStep == TypeOK /\ LedgerInv /\ [Next]_vars => Cleaning'
<1> SUFFICES ASSUME TypeOK, LedgerInv, [Next]_vars PROVE Cleaning'
  OBVIOUS
<1> USE DEF TypeOK, LedgerInv, Cleaning, RowsAt, Affected, ToFree
<1>1. ASSUME NEW r \in Row, StartWrite(r) PROVE Cleaning'
  BY <1>1 DEF StartWrite, Resting, Placed, InHand, HasMarker, Writer, Cleaner, Button, Carrier
<1>2. CASE FindPay
  BY <1>2 DEF FindPay, InHand, Placed, HasMarker, Writer, Cleaner, Button, Carrier
<1>3. CASE AddPay
  BY <1>3 DEF AddPay, InHand, Placed, HasMarker, Writer, Cleaner, Button, Carrier
<1>4. CASE FindRow
  BY <1>4 DEF FindRow, AfterRow, HasMarker, Resting, Placed, InHand, Writer, Cleaner, Button, Carrier
<1>5. CASE AddRow
  BY <1>5 DEF AddRow, AfterRow, Resting, Placed, InHand, HasMarker, Writer, Cleaner, Button, Carrier
<1>6. CASE LoadRows
  BY <1>6 DEF LoadRows, InHand, Active, RowsOf, Placed, HasMarker, Writer, Cleaner, Button, Carrier
<1>7. CASE SaveWritten
  BY <1>7 DEF SaveWritten, InHand, SaveRest, Resting, Placed, HasMarker, Writer, Cleaner, Button, Carrier
<1>8. CASE WriteFails
  BY <1>8 DEF WriteFails, InHand, Resting, Placed, HasMarker, Writer, Cleaner, Button, Carrier
<1>9. ASSUME NEW t \in Target, StartClean(t) PROVE Cleaning'
  BY <1>9 DEF StartClean, Clean, Placed, InHand, HasMarker, Writer, Cleaner, Button, Carrier
<1>10. CASE ListRows
  <2>1. CASE ToFree(cleaner.target) = {}
    <3>1. cleaner' = Clean /\ job' = [job EXCEPT ![cleaner.target] = "done"]
      BY <1>10, <2>1 DEF ListRows
    <3> QED
      BY <1>10, <2>1, <3>1 DEF ListRows, Clean, ToFree, RowsAt, Affected
  <2>2. CASE ToFree(cleaner.target) # {}
    <3>1. /\ cleaner' = [cleaner EXCEPT !.at = "free", !.rows = ToFree(cleaner.target)]
          /\ UNCHANGED job
      BY <1>10, <2>2 DEF ListRows
    <3> QED
      BY <1>10, <3>1 DEF ListRows, ToFree, RowsAt, Cleaner, Affected
  <2> QED
    BY <2>1, <2>2
<1>11. ASSUME NEW r \in Row, FreeRow(r) PROVE Cleaning'
  BY <1>11 DEF FreeRow, Placed, InHand, HasMarker, Writer, Cleaner, Button, Carrier
<1>12. CASE AllFreed
  BY <1>12 DEF AllFreed, Placed, InHand, HasMarker, Writer, Cleaner, Button, Carrier
<1>13. ASSUME NEW p \in Payment, ReadTotal(p) PROVE Cleaning'
  BY <1>13 DEF ReadTotal, Placed, InHand, HasMarker, Writer, Cleaner, Button, Carrier
<1>14. CASE LoadFreed
  BY <1>14 DEF LoadFreed, Active, RowsOf, Placed, InHand, HasMarker, Writer, Cleaner, Button, Carrier
<1>15. CASE SaveFreed
  BY <1>15 DEF SaveFreed, SaveRest, NeedsFlag, Placed, InHand, HasMarker, Writer, Cleaner, Button, Carrier
<1>16. CASE RaiseFlag
  BY <1>16 DEF RaiseFlag, Placed, InHand, HasMarker, Writer, Cleaner, Button, Carrier
<1>17. CASE EndClean
  BY <1>17 DEF EndClean, Clean, Placed, InHand, HasMarker, Writer, Cleaner, Button, Carrier
<1>18. CASE CleanFails
  BY <1>18 DEF CleanFails, CallFails, Clean, Placed, InHand, HasMarker, Writer, Cleaner, Button, Carrier
<1>19. CASE Press
  BY <1>19 DEF Press, Live, Released, Placed, InHand, HasMarker, Writer, Cleaner, Button, Carrier
<1>20. ASSUME NEW p \in Payment, LoadNext(p) PROVE Cleaning'
  BY <1>20 DEF LoadNext, Recounted, Active, RowsOf, Placed, InHand, HasMarker, Writer, Cleaner, Button, Carrier
<1>21. CASE SaveNext
  BY <1>21 DEF SaveNext, SaveRest, Placed, InHand, HasMarker, Writer, Cleaner, Button, Carrier
<1>22. CASE EndPress
  BY <1>22 DEF EndPress, Released, Placed, InHand, HasMarker, Writer, Cleaner, Button, Carrier
<1>23. CASE PressFails
  BY <1>23 DEF PressFails, Released, Placed, InHand, HasMarker, Writer, Cleaner, Button, Carrier
<1>24. ASSUME NEW r \in Row, AddByHand(r) PROVE Cleaning'
  BY <1>24 DEF AddByHand, Placed, InHand, HasMarker, Writer, Cleaner, Button, Carrier
<1>25. ASSUME NEW r \in Row, RemoveByHand(r) PROVE Cleaning'
  BY <1>25 DEF RemoveByHand, Placed, InHand, HasMarker, Writer, Cleaner, Button, Carrier
<1>26. ASSUME NEW t \in Target, DeleteTarget(t) PROVE Cleaning'
  BY <1>26 DEF DeleteTarget, Placed, InHand, HasMarker, Writer, Cleaner, Button, Carrier
<1>27. ASSUME NEW p \in Payment, DeletePayment(p) PROVE Cleaning'
  BY <1>27 DEF DeletePayment, Placed, InHand, HasMarker, Writer, Cleaner, Button, Carrier
<1>28. CASE UNCHANGED vars
  BY <1>28 DEF vars
<1> QED
  BY <1>1, <1>2, <1>3, <1>4, <1>5, <1>6, <1>7, <1>8, <1>9, <1>10, <1>11, <1>12, <1>13, <1>14, <1>15, <1>16, <1>17, <1>18, <1>19, <1>20, <1>21, <1>22, <1>23, <1>24, <1>25, <1>26, <1>27, <1>28
     DEF Next, WriterStep, CleanerStep, ButtonStep, ByHand

\* A freed manual row is remembered until its payment is flagged.
LEMMA FlaggingStep == TypeOK /\ LedgerInv /\ [Next]_vars => Flagging'
<1> SUFFICES ASSUME TypeOK, LedgerInv, [Next]_vars PROVE Flagging'
  OBVIOUS
<1> USE DEF TypeOK, LedgerInv, Flagging
<1>1. ASSUME NEW r \in Row, StartWrite(r) PROVE Flagging'
  BY <1>1 DEF StartWrite, Resting, Cleaning, Placed, Writer, Cleaner, Button, Carrier
<1>2. CASE FindPay
  BY <1>2 DEF FindPay, InHand, Cleaning, Placed, Writer, Cleaner, Button, Carrier
<1>3. CASE AddPay
  BY <1>3 DEF AddPay, InHand, Cleaning, Placed, Writer, Cleaner, Button, Carrier
<1>4. CASE FindRow
  BY <1>4 DEF FindRow, AfterRow, HasMarker, Resting, Cleaning, Placed, Writer, Cleaner, Button, Carrier
<1>5. CASE AddRow
  BY <1>5 DEF AddRow, AfterRow, Resting, Cleaning, Placed, Writer, Cleaner, Button, Carrier
<1>6. CASE LoadRows
  BY <1>6 DEF LoadRows, InHand, Active, RowsOf, Cleaning, Placed, Writer, Cleaner, Button, Carrier
<1>7. CASE SaveWritten
  BY <1>7 DEF SaveWritten, InHand, SaveRest, Resting, Cleaning, Placed, Writer, Cleaner, Button, Carrier
<1>8. CASE WriteFails
  BY <1>8 DEF WriteFails, InHand, Resting, Cleaning, Placed, Writer, Cleaner, Button, Carrier
<1>9. ASSUME NEW t \in Target, StartClean(t) PROVE Flagging'
  BY <1>9 DEF StartClean, Clean, Cleaning, Placed, Writer, Cleaner, Button, Carrier
<1>10. CASE ListRows
  <2>1. CASE ToFree(cleaner.target) = {}
    <3>1. cleaner' = Clean /\ job' = [job EXCEPT ![cleaner.target] = "done"]
      BY <1>10, <2>1 DEF ListRows
    <3> QED
      BY <1>10, <2>1, <3>1 DEF ListRows, Clean, ToFree, RowsAt, Cleaning
  <2>2. CASE ToFree(cleaner.target) # {}
    <3>1. /\ cleaner' = [cleaner EXCEPT !.at = "free", !.rows = ToFree(cleaner.target)]
          /\ UNCHANGED job
      BY <1>10, <2>2 DEF ListRows
    <3> QED
      BY <1>10, <3>1 DEF ListRows, ToFree, RowsAt, Cleaner, Cleaning
  <2> QED
    BY <2>1, <2>2
<1>11. ASSUME NEW r \in Row, FreeRow(r) PROVE Flagging'
  BY <1>11 DEF FreeRow, Cleaning, Placed, Writer, Cleaner, Button, Carrier
<1>12. CASE AllFreed
  BY <1>12 DEF AllFreed, Affected, Cleaning, Placed, Writer, Cleaner, Button, Carrier
<1>13. ASSUME NEW p \in Payment, ReadTotal(p) PROVE Flagging'
  BY <1>13 DEF ReadTotal, Cleaning, Placed, Writer, Cleaner, Button, Carrier
<1>14. CASE LoadFreed
  BY <1>14 DEF LoadFreed, Active, RowsOf, Cleaning, Placed, Writer, Cleaner, Button, Carrier
<1>15. CASE SaveFreed
  BY <1>15 DEF SaveFreed, SaveRest, NeedsFlag, Cleaning, Placed, Writer, Cleaner, Button, Carrier
<1>16. CASE RaiseFlag
  BY <1>16 DEF RaiseFlag, Cleaning, Placed, Writer, Cleaner, Button, Carrier
<1>17. CASE EndClean
  BY <1>17 DEF EndClean, Clean, Cleaning, Placed, Writer, Cleaner, Button, Carrier
<1>18. CASE CleanFails
  BY <1>18 DEF CleanFails, CallFails, Clean, Cleaning, Placed, Writer, Cleaner, Button, Carrier
<1>19. CASE Press
  BY <1>19 DEF Press, Live, Released, Cleaning, Placed, Writer, Cleaner, Button, Carrier
<1>20. ASSUME NEW p \in Payment, LoadNext(p) PROVE Flagging'
  BY <1>20 DEF LoadNext, Recounted, Active, RowsOf, Cleaning, Placed, Writer, Cleaner, Button, Carrier
<1>21. CASE SaveNext
  BY <1>21 DEF SaveNext, SaveRest, Cleaning, Placed, Writer, Cleaner, Button, Carrier
<1>22. CASE EndPress
  BY <1>22 DEF EndPress, Released, Cleaning, Placed, Writer, Cleaner, Button, Carrier
<1>23. CASE PressFails
  BY <1>23 DEF PressFails, Released, Cleaning, Placed, Writer, Cleaner, Button, Carrier
<1>24. ASSUME NEW r \in Row, AddByHand(r) PROVE Flagging'
  BY <1>24 DEF AddByHand, Cleaning, Placed, Writer, Cleaner, Button, Carrier
<1>25. ASSUME NEW r \in Row, RemoveByHand(r) PROVE Flagging'
  BY <1>25 DEF RemoveByHand, Cleaning, Placed, Writer, Cleaner, Button, Carrier
<1>26. ASSUME NEW t \in Target, DeleteTarget(t) PROVE Flagging'
  BY <1>26 DEF DeleteTarget, Cleaning, Placed, Writer, Cleaner, Button, Carrier
<1>27. ASSUME NEW p \in Payment, DeletePayment(p) PROVE Flagging'
  BY <1>27 DEF DeletePayment, Cleaning, Placed, Writer, Cleaner, Button, Carrier
<1>28. CASE UNCHANGED vars
  BY <1>28 DEF vars
<1> QED
  BY <1>1, <1>2, <1>3, <1>4, <1>5, <1>6, <1>7, <1>8, <1>9, <1>10, <1>11, <1>12, <1>13, <1>14, <1>15, <1>16, <1>17, <1>18, <1>19, <1>20, <1>21, <1>22, <1>23, <1>24, <1>25, <1>26, <1>27, <1>28
     DEF Next, WriterStep, CleanerStep, ButtonStep, ByHand

\* No call makes a freed row active.
LEMMA FreedStep ==
  TypeOK /\ LedgerInv /\ [Next]_vars
    => \A r \in Row : row[r] = "reverted" => row'[r] = "reverted"
<1> SUFFICES ASSUME TypeOK, LedgerInv, [Next]_vars, NEW s \in Row, row[s] = "reverted"
             PROVE  row'[s] = "reverted"
  OBVIOUS
<1>1. CASE AddRow
  BY <1>1 DEF AddRow, TypeOK, LedgerInv, Placed, HasMarker
<1>2. ASSUME NEW r \in Row, FreeRow(r) PROVE row'[s] = "reverted"
  BY <1>2 DEF FreeRow, TypeOK
<1>3. ASSUME NEW r \in Row, AddByHand(r) \/ RemoveByHand(r) PROVE row'[s] = "reverted"
  BY <1>3 DEF AddByHand, RemoveByHand, TypeOK
<1>4. CASE UNCHANGED row
  BY <1>4
<1> QED
  BY <1>1, <1>2, <1>3, <1>4 DEF Next, WriterStep, CleanerStep, ButtonStep, ByHand, vars,
     StartWrite, FindPay, AddPay, FindRow, LoadRows, SaveWritten, WriteFails,
     StartClean, ListRows, AllFreed, ReadTotal, LoadFreed, SaveFreed, RaiseFlag,
     EndClean, CleanFails, Press, LoadNext, SaveNext, EndPress, PressFails,
     DeleteTarget, DeletePayment

\* The invariant holds of the empty portal.
LEMMA LedgerInit == Init => LedgerInv
<1> SUFFICES ASSUME Init PROVE LedgerInv
  OBVIOUS
<1> USE DEF Init, Resting, Clean, Released
<1>1. RestAccounted /\ HandledMeansFreed /\ ManualFreeFlagged
  BY DEF RestAccounted, Live, HandledMeansFreed, ManualFreeFlagged
<1>2. Placed /\ Cleaning /\ Flagging
  BY DEF Placed, Cleaning, Flagging, RowsAt
<1> QED
  BY <1>1, <1>2 DEF LedgerInv

\* The inductive invariant (LedgerInv).
THEOREM LedgerHolds == Spec => []LedgerInv
<1>1. Init => LedgerInv
  BY LedgerInit
<1>2. TypeOK /\ LedgerInv /\ [Next]_vars => LedgerInv'
  BY RestStep, HandledStep, FlaggedStep, PlacedStep, CleaningStep, FlaggingStep
     DEF LedgerInv
<1> QED
  BY <1>1, <1>2, TypeCorrect, PTL DEF Spec

\* The rest of a payment agrees with its rows, but for the named windows of
\* writeLedgerAllocation and reconcileTargetDeletion (RestAccounted).
THEOREM RestIsAccounted == Spec => []RestAccounted
<1>1. LedgerInv => RestAccounted
  BY DEF LedgerInv
<1> QED
  BY <1>1, LedgerHolds, PTL

\* After reconcileTargetDeletion only late rows are active (HandledMeansFreed).
THEOREM HandledIsFreed == Spec => []HandledMeansFreed
<1>1. LedgerInv => HandledMeansFreed
  BY DEF LedgerInv
<1> QED
  BY <1>1, LedgerHolds, PTL

\* A deletion handled at the first attempt flags manual payments.
THEOREM ManualIsFlagged == Spec => []ManualFreeFlagged
<1>1. LedgerInv => ManualFreeFlagged
  BY DEF LedgerInv
<1> QED
  BY <1>1, LedgerHolds, PTL

\* The look-up by marker never lets a freed row take money again (FreedStaysFreed).
THEOREM FreedForGood == Spec => FreedStaysFreed
<1>1. TypeOK /\ LedgerInv /\ [Next]_vars
        => [\A r \in Row : row[r] = "reverted" => row'[r] = "reverted"]_vars
  BY FreedStep
<1> QED
  BY <1>1, TypeCorrect, LedgerHolds, PTL DEF Spec, FreedStaysFreed

=============================================================================
