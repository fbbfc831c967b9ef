--------------------------- MODULE SaveQueueProofs ---------------------------
(***************************************************************************)
(* The queue of saves keeps its invariant and implements SessionFile, for  *)
(* any number of saves.                                                    *)
(***************************************************************************)
EXTENDS SaveQueue, TLAPS

USE SavesAssumption DEF Saves

\* A waiter is known by its sequence, and by its save; both are in one order.
LEMMA WaitersOrdered ==
  ASSUME IInv, NEW v \in queue.waiters, NEW w \in queue.waiters
  PROVE  /\ v \in Item /\ w \in Item
         /\ v.sequence = w.sequence => v = w
         /\ v.save = w.save => v = w
         /\ v.sequence <= w.sequence <=> v.save <= w.save
<1>1. /\ queue.waiters \in SUBSET Item /\ queue.next \in 0 .. MaxSaves
      /\ asked \in 0 .. MaxSaves
  BY DEF IInv, TypeOK
<1>2. v \in Item /\ w \in Item
  BY <1>1
<1>3. /\ v = [sequence |-> v.sequence, save |-> v.save]
      /\ w = [sequence |-> w.sequence, save |-> w.save]
      /\ v.sequence \in Nat /\ v.save \in Nat /\ w.sequence \in Nat /\ w.save \in Nat
  BY <1>2 DEF Item
<1>4. /\ v.save + queue.next = v.sequence + asked
      /\ w.save + queue.next = w.sequence + asked
  BY DEF IInv, InQueue
<1> QED
  BY <1>1, <1>2, <1>3, <1>4

\* Who waits for an answer: the savers up to the item, and no other.
LEMMA AnsweredUpToItem ==
  ASSUME IInv, NEW item \in writing, NEW a \in {"saved", "failed"}, Answered(item, a)
  PROVE  answer' = AnsweredUpTo(item.save, a)
<1>1. item \in queue.waiters
  BY DEF IInv, InQueue
<1>2. ASSUME NEW n \in Saves
      PROVE  (\E w \in queue.waiters : w.save = n /\ Covers(item, w))
               <=> (n \in Waiting /\ n <= item.save)
  <2>1. n \in Waiting <=> \E w \in queue.waiters : w.save = n
    BY DEF IInv, InQueue
  <2>2. \A w \in queue.waiters : Covers(item, w) <=> w.save <= item.save
    BY <1>1, WaitersOrdered DEF Covers
  <2> QED
    BY <2>1, <2>2
<1> QED
  BY <1>2 DEF Answered, AnsweredUpTo

-----------------------------------------------------------------------------
LEMMA InitHolds ==
  ASSUME Init
  PROVE  IInv
<1>1. TypeOK
  BY DEF Init, FileInit, TypeOK, FileTypeOK, FreshQueue, Answers
<1>2. InQueue
  BY DEF Init, FileInit, InQueue, FreshQueue, Waiting
<1> QED
  BY <1>1, <1>2 DEF IInv

LEMMA SaveKeeps ==
  ASSUME IInv, Save
  PROVE  IInv'
<1> DEFINE n == asked + 1
           item == [sequence |-> queue.next + 1, save |-> n]
<1>1. /\ TypeOK /\ InQueue
      /\ n \in Saves /\ asked \in Nat /\ queue.next \in Nat /\ queue.next <= asked
      /\ item \in Item /\ file \in 0 .. MaxSaves
      /\ asked' = n
      /\ answer' = [answer EXCEPT ![n] = "waiting"]
      /\ file' = file /\ readable' = readable
  <2>1. /\ TypeOK /\ InQueue /\ queue.next \in 0 .. MaxSaves /\ asked \in 0 .. MaxSaves
        /\ file \in 0 .. MaxSaves
    BY DEF IInv, TypeOK, FileTypeOK
  <2>2. queue.next <= asked /\ asked < MaxSaves
    BY DEF IInv, InQueue, Save
  <2>3. n \in Saves /\ item.sequence \in Saves /\ item.save \in Saves
    BY <2>1, <2>2
  <2>4. item \in Item
    BY <2>3 DEF Item
  <2> QED
    BY <2>1, <2>2, <2>3, <2>4 DEF Save
<1>2. /\ queue.waiters \in SUBSET Item /\ queue.pending \in SUBSET Item
      /\ writing \in SUBSET Item /\ answer \in [Saves -> Answers]
  BY <1>1 DEF TypeOK, FileTypeOK
<1>3. /\ queue' = [next |-> item.sequence, pending |-> IF queue.draining THEN {item} ELSE {},
                   waiters |-> queue.waiters \cup {item}, draining |-> TRUE]
      /\ writing' = IF queue.draining THEN writing ELSE writing \cup {item}
  BY <1>1 DEF Save, Asked, TypeOK
<1> HIDE DEF n, item
<1>4. TypeOK'
  BY <1>1, <1>2, <1>3 DEF TypeOK, FileTypeOK, Answers, Item, item, n
<1>5. \A w \in queue.waiters : w.sequence <= queue.next /\ w.sequence \in Nat
  BY <1>1, <1>2 DEF InQueue, Item
<1>6. item.sequence = queue.next + 1 /\ item.save = asked + 1
  BY DEF item, n
<1>7. item \notin queue.waiters
  BY <1>5, <1>6, <1>1
<1>8. writing \subseteq queue.waiters
  BY <1>1 DEF InQueue
<1>9. queue'.pending = {w \in queue'.waiters : w.sequence = queue'.next} \ writing'
  BY <1>1, <1>3, <1>5, <1>6, <1>7, <1>8
<1>10. \A w \in queue'.waiters : /\ w.sequence <= queue'.next
                                 /\ w.save + queue'.next = w.sequence + asked'
                                 /\ file' < w.save
  <2>1. file < n
    \* file is below every waiter; without one it has been asked for.
    <3>1. file <= asked
      BY <1>1 DEF InQueue
    <3> QED
      BY <3>1, <1>1 DEF n
  <2>2. \A w \in queue.waiters : /\ w.save + queue.next = w.sequence + asked
                                /\ file < w.save /\ w.save \in Nat /\ w.sequence \in Nat
    BY <1>1, <1>2 DEF InQueue, Item
  <2>3. queue'.next = queue.next + 1 /\ queue'.waiters = queue.waiters \cup {item}
    BY <1>3, <1>6
  <2>4. \A w \in queue.waiters : /\ w.sequence <= queue'.next
                                /\ w.save + queue'.next = w.sequence + asked'
                                /\ file' < w.save
    BY <2>2, <2>3, <1>1, <1>5 DEF n
  <2>5. /\ item.sequence <= queue'.next
        /\ item.save + queue'.next = item.sequence + asked'
        /\ file' < item.save
    BY <2>1, <2>3, <1>1, <1>6 DEF n
  <2> QED
    BY <2>3, <2>4, <2>5
<1>11. Waiting' = {w.save : w \in queue'.waiters}
  BY <1>1, <1>2, <1>3, <1>6 DEF InQueue, Waiting, n
<1>12. \A k \in Saves : answer'[k] = "none" <=> k > asked'
  BY <1>1, <1>2 DEF InQueue, n
<1>13. /\ queue'.draining /\ writing' # {}
       /\ queue'.next <= asked' /\ file' <= asked'
       /\ \E w \in queue'.waiters : w.sequence = queue'.next
       /\ writing' \subseteq queue'.waiters
       /\ \A i, j \in writing' : i = j
  <2>1. queue'.next <= asked' /\ file' <= asked'
    BY <1>1, <1>3, <1>6 DEF InQueue, n
  <2>2. /\ queue'.draining /\ writing' # {} /\ item \in queue'.waiters
        /\ item.sequence = queue'.next
    BY <1>1, <1>3 DEF InQueue
  <2>3. writing' \subseteq queue'.waiters /\ \A i, j \in writing' : i = j
    BY <1>1, <1>3, <1>8 DEF InQueue
  <2> QED
    BY <2>1, <2>2, <2>3
<1> QED
  <2>1. InQueue'
    BY <1>9, <1>10, <1>11, <1>12, <1>13 DEF InQueue
  <2> QED
    BY <1>4, <2>1 DEF IInv

-----------------------------------------------------------------------------
\* The end of a write, however it ends: what is left to answer and to write.
LEMMA EndKeeps ==
  ASSUME IInv, NEW item \in writing, NEW a \in {"saved", "failed"},
         Answered(item, a), Drained(item), UNCHANGED asked,
         file' \in {file, item.save}, readable' \in BOOLEAN
  PROVE  IInv'
<1> DEFINE left == {w \in queue.waiters : w.sequence > item.sequence}
<1>1. /\ TypeOK /\ InQueue /\ item \in queue.waiters /\ item \in Item
      /\ writing = {item} /\ queue.draining
      /\ queue.waiters \in SUBSET Item /\ queue.pending \in SUBSET Item
      /\ queue.next \in Nat /\ asked \in 0 .. MaxSaves /\ file \in 0 .. MaxSaves
      /\ answer \in [Saves -> Answers]
  BY DEF IInv, TypeOK, FileTypeOK, InQueue
<1>2. \A w \in queue.waiters :
        /\ w.sequence \in Saves /\ w.save \in Saves /\ w.sequence <= queue.next
        /\ file < w.save
        /\ w.sequence = item.sequence => w = item
        /\ w.sequence <= item.sequence <=> w.save <= item.save
  BY <1>1, WaitersOrdered DEF InQueue, Item
<1>3. item.save <= asked
  <2>1. item.save + queue.next = item.sequence + asked /\ item.sequence <= queue.next
    BY <1>1 DEF InQueue
  <2> QED
    BY <2>1, <1>1, <1>2
<1>4. left = {w \in queue.waiters : ~Covers(item, w)}
  BY <1>1, <1>2 DEF Covers
<1>5. answer' = AnsweredUpTo(item.save, a)
  BY AnsweredUpToItem
<1>6. /\ answer' \in [Saves -> Answers]
      /\ \A n \in Saves : answer'[n] = "none" <=> answer[n] = "none"
      /\ \A n \in Saves : answer'[n] = "waiting" <=> (n \in Waiting /\ n > item.save)
  <2>1. Waiting \subseteq Saves /\ \A n \in Waiting : answer[n] = "waiting"
    BY DEF Waiting
  <2>2. item.save \in Saves
    BY <1>1, <1>2
  <2> QED
    BY <2>1, <2>2, <1>1, <1>5 DEF AnsweredUpTo, Answers, Waiting
<1>7. Waiting' = {w.save : w \in left}
  <2>1. Waiting' = {n \in Waiting : n > item.save}
    BY <1>6 DEF Waiting
  <2>2. Waiting = {w.save : w \in queue.waiters}
    BY <1>1 DEF InQueue
  <2>3. \A w \in queue.waiters : w \in left <=> w.save > item.save
    BY <1>1, <1>2
  <2> QED
    BY <2>1, <2>2, <2>3
<1>8. \A n \in Saves : answer'[n] = "none" <=> n > asked'
  BY <1>1, <1>6 DEF InQueue
<1>9. \A w \in left : w.save + queue.next = w.sequence + asked /\ file' < w.save
  BY <1>1, <1>2 DEF InQueue
<1>10. file' \in 0 .. MaxSaves /\ file' <= asked'
  BY <1>1, <1>2, <1>3 DEF InQueue
<1>11. CASE queue.pending = {}
  <2>1. queue' = FreshQueue /\ writing' = {}
    BY <1>1, <1>11 DEF Drained
  <2>2. item.sequence = queue.next
    BY <1>1, <1>11 DEF InQueue
  <2>3. left = {}
    BY <1>1, <1>2, <2>2
  <2>4. TypeOK'
    BY <1>1, <1>6, <1>10, <2>1 DEF TypeOK, FileTypeOK, FreshQueue
  <2>5. InQueue'
    BY <1>1, <1>7, <1>8, <1>10, <2>1, <2>3 DEF InQueue, FreshQueue
  <2> QED
    BY <2>4, <2>5 DEF IInv
<1>12. CASE queue.pending # {}
  <2>1. PICK next \in queue.waiters :
          /\ next.sequence = queue.next /\ next # item /\ queue.pending = {next}
    <3>1. queue.pending = {w \in queue.waiters : w.sequence = queue.next} \ {item}
      BY <1>1 DEF InQueue
    <3>2. \A v, w \in queue.waiters : v.sequence = w.sequence => v = w
      BY WaitersOrdered
    <3> QED
      BY <3>1, <3>2, <1>12
  <2>2. /\ queue' = [next |-> queue.next, pending |-> {}, waiters |-> left,
                     draining |-> TRUE]
        /\ writing' = {next}
    BY <1>1, <1>4, <1>12, <2>1 DEF Drained, TypeOK
  <2>3. next \in left
    BY <1>1, <1>2, <2>1
  <2>4. left \in SUBSET Item /\ next \in Item /\ queue.next \in 0 .. MaxSaves
    BY <1>1, <2>1 DEF TypeOK
  <2> HIDE DEF left
  <2>5. TypeOK'
    BY <1>1, <1>6, <1>10, <2>2, <2>4 DEF TypeOK, FileTypeOK
  <2>6. queue'.pending = {w \in queue'.waiters : w.sequence = queue'.next} \ writing'
    <3>1. \A w \in left : w.sequence = next.sequence => w = next
      BY <2>1, WaitersOrdered DEF left
    <3> QED
      BY <3>1, <2>1, <2>2
  <2>7. \A w \in left : w.sequence <= queue.next
    BY <1>2 DEF left
  <2>8. queue.next <= asked
    BY <1>1 DEF InQueue
  <2>9. InQueue'
    BY <1>7, <1>8, <1>9, <1>10, <2>1, <2>2, <2>3, <2>6, <2>7, <2>8 DEF InQueue
  <2> QED
    BY <2>5, <2>9 DEF IInv
<1> QED
  BY <1>11, <1>12

LEMMA CrashKeeps ==
  ASSUME IInv, Crash
  PROVE  IInv'
<1>1. TypeOK /\ InQueue
  BY DEF IInv
<1>2. file' \in 0 .. MaxSaves /\ file' <= asked' /\ readable' \in BOOLEAN
  <2>1. \A i \in writing : i.save \in Saves /\ i.save <= asked
    <3> SUFFICES ASSUME NEW i \in writing
                 PROVE  i.save \in Saves /\ i.save <= asked
      OBVIOUS
    <3>1. i \in queue.waiters /\ i \in Item
      BY <1>1 DEF TypeOK, InQueue
    <3>2. i.save + queue.next = i.sequence + asked /\ i.sequence <= queue.next
      BY <1>1, <3>1 DEF InQueue
    <3>3. i.save \in Saves /\ i.sequence \in Nat
      BY <3>1 DEF Item
    <3> QED
      BY <3>2, <3>3, <1>1 DEF TypeOK
  <2>2. file \in 0 .. MaxSaves /\ file <= asked /\ readable \in BOOLEAN /\ asked' = asked
    BY <1>1 DEF TypeOK, FileTypeOK, InQueue, Crash
  <2>3. \/ file' = file /\ readable' = readable
        \/ \E i \in writing : file' = i.save /\ readable' = TRUE
    BY DEF Crash
  <2>4. readable' \in BOOLEAN
    BY <2>2, <2>3, Zenon
  <2>5. file' \in 0 .. MaxSaves /\ file' <= asked'
    BY <2>1, <2>2, <2>3
  <2> QED
    BY <2>4, <2>5
<1>3. /\ answer' \in [Saves -> Answers]
      /\ \A n \in Saves : answer'[n] # "waiting"
      /\ \A n \in Saves : answer'[n] = "none" <=> answer[n] = "none"
  BY <1>1 DEF Crash, TypeOK, FileTypeOK, Answers, Waiting
<1>4. queue' = FreshQueue /\ writing' = {} /\ asked' = asked
  BY DEF Crash
<1>5. TypeOK'
  BY <1>1, <1>2, <1>3, <1>4 DEF TypeOK, FileTypeOK, FreshQueue
<1>6. InQueue'
  BY <1>1, <1>2, <1>3, <1>4 DEF InQueue, FreshQueue, Waiting, TypeOK
<1> QED
  BY <1>5, <1>6 DEF IInv

LEMMA NextKeeps ==
  ASSUME IInv, [Next]_vars
  PROVE  IInv'
<1>1. CASE Save
  BY <1>1, SaveKeeps
<1>2. ASSUME NEW item \in writing, Written(item)
      PROVE  IInv'
  BY <1>2, EndKeeps DEF Written
<1>3. ASSUME NEW item \in writing, NotWritten(item)
      PROVE  IInv'
  <2>1. readable \in BOOLEAN
    BY DEF IInv, TypeOK, FileTypeOK
  <2> QED
    BY <1>3, <2>1, EndKeeps DEF NotWritten
<1>4. CASE Truncate
  BY <1>4 DEF Truncate, IInv, TypeOK, FileTypeOK, InQueue, Waiting
<1>5. CASE Crash
  BY <1>5, CrashKeeps
<1>6. CASE UNCHANGED vars
  BY <1>6 DEF vars, IInv, TypeOK, FileTypeOK, InQueue, Waiting
<1> QED
  BY <1>1, <1>2, <1>3, <1>4, <1>5, <1>6 DEF Next, WriteEnds

\* The queue is never in a state that forgets a caller: the invariant of the
\* queue, of the items being written and of the callers' answers.
THEOREM QueueInductive == Safety => []IInv
<1>1. Init => IInv
  BY InitHolds
<1>2. IInv /\ [Next]_vars => IInv'
  BY NextKeeps
<1> QED
  BY <1>1, <1>2, PTL DEF Safety

-----------------------------------------------------------------------------
(* What callers may rely on.                                               *)

\* The item that is being written: of a save that waits, above the file.
LEMMA WritingWaits ==
  ASSUME IInv, NEW item \in writing
  PROVE  item.save \in Waiting /\ file < item.save
BY DEF IInv, InQueue

\* The file is whole but for newer saves, in every state; whether a save was
\* answered "saved" or not.
LEMMA WholeStays ==
  ASSUME IInv, WholeUnlessNewer, [Next]_vars
  PROVE  WholeUnlessNewer'
<1>1. /\ answer \in [Saves -> Answers] /\ file \in 0 .. MaxSaves /\ asked \in 0 .. MaxSaves
  BY DEF IInv, TypeOK, FileTypeOK
<1>2. \A i \in writing : /\ i.save \in Saves /\ file < i.save
                         /\ answer[i.save] = "waiting"
  BY WritingWaits DEF Waiting
<1>3. CASE Save
  <2>1. /\ file' = file /\ readable' = readable /\ writing \subseteq writing'
        /\ \A k \in Saves : k # asked + 1 => answer'[k] = answer[k]
    BY <1>1, <1>3 DEF Save, Asked
  <2>2. \A k \in Saves : answer[k] \in {"failed", "lost"} => k # asked + 1
    <3>1. \A n \in Saves : answer[n] = "none" <=> n > asked
      BY DEF IInv, InQueue
    <3> QED
      BY <1>1, <3>1
  <2> QED
    BY <2>1, <2>2 DEF WholeUnlessNewer
<1>4. ASSUME NEW item \in writing, Written(item)
      PROVE  WholeUnlessNewer'
  BY <1>4 DEF Written, WholeUnlessNewer
<1>5. ASSUME NEW item \in writing, NotWritten(item)
      PROVE  WholeUnlessNewer'
  <2>1. answer' = AnsweredUpTo(item.save, "failed") /\ file' = file /\ readable' = readable
    BY <1>5, AnsweredUpToItem DEF NotWritten
  <2>2. answer'[item.save] = "failed"
    BY <1>2, <2>1, WritingWaits DEF AnsweredUpTo
  <2> QED
    BY <1>2, <2>1, <2>2 DEF WholeUnlessNewer
<1>6. CASE Truncate
  BY <1>2, <1>6 DEF Truncate, WholeUnlessNewer
<1>7. CASE Crash
  <2>1. \A n \in Saves : answer'[n] = IF n \in Waiting THEN "lost" ELSE answer[n]
    BY <1>7 DEF Crash
  <2>2. \A k \in Saves : answer[k] \in {"failed", "lost"} => answer'[k] = answer[k]
    BY <2>1 DEF Waiting
  <2>3. \A i \in writing : answer'[i.save] = "lost"
    BY <1>2, <2>1, WritingWaits
  <2>4. \/ file' = file /\ readable' = readable
        \/ readable' = TRUE
    BY <1>7 DEF Crash
  <2> QED
    BY <1>2, <2>2, <2>3, <2>4 DEF WholeUnlessNewer
<1>8. CASE UNCHANGED vars
  BY <1>8 DEF vars, WholeUnlessNewer
<1> QED
  BY <1>3, <1>4, <1>5, <1>6, <1>7, <1>8 DEF Next, WriteEnds

\* A save is answered "saved" only once its snapshot or a newer one is in the
\* file, and only newer saves can make that file unreadable (property
\* SavedIsInFile).
THEOREM SavedStaysInFile == Safety => []SavedIsInFile
<1> DEFINE Landed == \A n \in Saves : answer[n] = "saved" => n <= file
<1>1. Init => Landed /\ WholeUnlessNewer
  BY DEF Init, FileInit, WholeUnlessNewer
<1>2. IInv /\ Landed /\ [Next]_vars => Landed'
  <2> SUFFICES ASSUME IInv, Landed, [Next]_vars
               PROVE  Landed'
    OBVIOUS
  <2>1. /\ answer \in [Saves -> Answers] /\ file \in 0 .. MaxSaves /\ asked \in 0 .. MaxSaves
    BY DEF IInv, TypeOK, FileTypeOK
  <2>2. CASE Save
    BY <2>1, <2>2 DEF Save
  <2>3. ASSUME NEW item \in writing, Written(item)
        PROVE  Landed'
    <3>1. answer' = AnsweredUpTo(item.save, "saved") /\ file' = item.save
      BY <2>3, AnsweredUpToItem DEF Written
    <3>2. item.save \in Saves /\ file < item.save
      BY WritingWaits DEF Waiting
    <3> QED
      BY <2>1, <3>1, <3>2 DEF AnsweredUpTo
  <2>4. ASSUME NEW item \in writing, NotWritten(item)
        PROVE  Landed'
    <3>1. answer' = AnsweredUpTo(item.save, "failed") /\ file' = file
      BY <2>4, AnsweredUpToItem DEF NotWritten
    <3> QED
      BY <2>1, <3>1 DEF AnsweredUpTo
  <2>5. CASE Truncate
    BY <2>5 DEF Truncate
  <2>6. CASE Crash
    <3>1. \A n \in Saves : answer'[n] = "saved" => answer[n] = "saved"
      BY <2>6 DEF Crash
    <3>2. file' = file \/ \E item \in writing : file' = item.save
      BY <2>6 DEF Crash
    <3>3. \A item \in writing : item.save \in Saves /\ file < item.save
      BY WritingWaits DEF Waiting
    <3> QED
      BY <2>1, <3>1, <3>2, <3>3
  <2>7. CASE UNCHANGED vars
    BY <2>7 DEF vars
  <2> QED
    BY <2>2, <2>3, <2>4, <2>5, <2>6, <2>7 DEF Next, WriteEnds
<1>3. IInv /\ WholeUnlessNewer /\ [Next]_vars => WholeUnlessNewer'
  BY WholeStays
<1>4. Landed /\ WholeUnlessNewer => SavedIsInFile
  BY DEF SavedIsInFile
<1> HIDE DEF Landed
<1> QED
  BY <1>1, <1>2, <1>3, <1>4, QueueInductive, PTL DEF Safety

\* A snapshot whose caller was told "failed" is not the one in the file
\* (property FailedStaysOut).
THEOREM FailedNeverLands == Safety => []FailedStaysOut
<1>1. Init => FailedStaysOut
  BY DEF Init, FileInit, FailedStaysOut
<1>2. IInv /\ FailedStaysOut /\ [Next]_vars => FailedStaysOut'
  <2> SUFFICES ASSUME IInv, FailedStaysOut, [Next]_vars
               PROVE  FailedStaysOut'
    OBVIOUS
  <2>1. answer \in [Saves -> Answers] /\ file \in 0 .. MaxSaves /\ asked \in 0 .. MaxSaves
    BY DEF IInv, TypeOK, FileTypeOK
  <2>2. \A n \in Waiting : n \in Saves /\ answer[n] = "waiting" /\ file < n
    <3>1. \A n \in Waiting : \E w \in queue.waiters : n = w.save
      BY DEF IInv, InQueue
    <3> QED
      BY <3>1 DEF IInv, InQueue, Waiting
  <2>3. CASE Save
    BY <2>1, <2>3 DEF Save, FailedStaysOut
  <2>4. ASSUME NEW item \in writing, Written(item)
        PROVE  FailedStaysOut'
    <3>1. answer' = AnsweredUpTo(item.save, "saved") /\ file' = item.save
      BY <2>4, AnsweredUpToItem DEF Written
    <3>2. item.save \in Waiting
      BY WritingWaits
    <3> QED
      BY <2>1, <2>2, <3>1, <3>2 DEF AnsweredUpTo, FailedStaysOut
  <2>5. ASSUME NEW item \in writing, NotWritten(item)
        PROVE  FailedStaysOut'
    <3>1. answer' = AnsweredUpTo(item.save, "failed") /\ file' = file
      BY <2>5, AnsweredUpToItem DEF NotWritten
    <3> QED
      BY <2>1, <2>2, <3>1 DEF AnsweredUpTo, FailedStaysOut
  <2>6. CASE Truncate
    BY <2>6 DEF Truncate, FailedStaysOut
  <2>7. CASE Crash
    <3>1. \A n \in Saves : answer'[n] = "failed" => answer[n] = "failed"
      BY <2>7 DEF Crash
    <3>2. file' = file \/ \E item \in writing : file' = item.save
      BY <2>7 DEF Crash
    <3>3. \A item \in writing : item.save \in Waiting
      BY WritingWaits
    <3> QED
      BY <2>1, <2>2, <3>1, <3>2, <3>3 DEF FailedStaysOut
  <2>8. CASE UNCHANGED vars
    BY <2>8 DEF vars, FailedStaysOut
  <2> QED
    BY <2>3, <2>4, <2>5, <2>6, <2>7, <2>8 DEF Next, WriteEnds
<1> QED
  BY <1>1, <1>2, QueueInductive, PTL DEF Safety

-----------------------------------------------------------------------------
(* Refinement: what the queue does is what the file promises.              *)

LEMMA SaveIsAsk ==
  ASSUME IInv, Save
  PROVE  Ask
<1>1. asked \in 0 .. MaxSaves /\ asked + 1 \in Saves
  BY DEF IInv, TypeOK, Save
<1>2. \A n \in Saves : answer[n] = "none" <=> n > asked
  BY DEF IInv, InQueue
<1>3. answer' = [answer EXCEPT ![asked + 1] = "waiting"] /\ UNCHANGED <<file, readable>>
  BY DEF Save
<1>4. answer[asked + 1] = "none" /\ \A k \in Saves : k < asked + 1 => answer[k] # "none"
  BY <1>1, <1>2
<1> QED
  BY <1>1, <1>3, <1>4 DEF Ask

LEMMA EndIsSettle ==
  ASSUME IInv, WriteEnds
  PROVE  Settle
<1>1. ASSUME NEW item \in writing, Written(item)
      PROVE  Land(item.save)
  <2>1. answer' = AnsweredUpTo(item.save, "saved")
    BY <1>1, AnsweredUpToItem DEF Written
  <2> QED
    BY <1>1, <2>1, WritingWaits DEF Land, Written
<1>2. ASSUME NEW item \in writing, NotWritten(item)
      PROVE  Fail(item.save)
  <2>1. answer' = AnsweredUpTo(item.save, "failed")
    BY <1>2, AnsweredUpToItem DEF NotWritten
  <2> QED
    BY <1>2, <2>1, WritingWaits DEF Fail, NotWritten
<1>3. \A item \in writing : item.save \in Saves
  BY WritingWaits DEF Waiting
<1> QED
  BY <1>1, <1>2, <1>3 DEF WriteEnds, Settle

LEMMA CrashIsLose ==
  ASSUME IInv, Crash
  PROVE  Lose
<1>1. answer' = AnsweredUpTo(MaxSaves, "lost")
  <2>1. \A n \in Saves : n <= MaxSaves
    OBVIOUS
  <2> QED
    BY <2>1 DEF Crash, AnsweredUpTo
<1>2. \/ UNCHANGED <<file, readable>>
      \/ \E n \in Waiting : file < n /\ file' = n /\ readable' = TRUE
  BY WritingWaits DEF Crash
<1> QED
  BY <1>1, <1>2 DEF Lose

\* Every step of the queue is a step of the file it stands for, or none; the
\* safety part of property Implements.
THEOREM QueueImplementsFile == Safety => FileSafety
<1>1. Init => FileInit
  BY DEF Init
<1>2. IInv /\ [Next]_vars => [FileNext]_fileVars
  <2> SUFFICES ASSUME IInv, [Next]_vars
               PROVE  [FileNext]_fileVars
    OBVIOUS
  <2>1. CASE Save
    BY <2>1, SaveIsAsk DEF FileNext
  <2>2. CASE WriteEnds
    BY <2>2, EndIsSettle DEF FileNext
  <2>3. CASE Truncate
    <3>1. Waiting # {}
      BY <2>3, WritingWaits DEF Truncate
    <3> QED
      BY <2>3, <3>1 DEF Truncate, Open, FileNext
  <2>4. CASE Crash
    BY <2>4, CrashIsLose DEF FileNext
  <2>5. CASE UNCHANGED vars
    BY <2>5 DEF vars, fileVars
  <2> QED
    BY <2>1, <2>2, <2>3, <2>4, <2>5 DEF Next
<1> QED
  BY <1>1, <1>2, QueueInductive, PTL DEF Safety, FileSafety

\* No step takes the file back to an older snapshot (property NeverGoesBack).
THEOREM FileNeverGoesBack == Safety => NeverGoesBack
<1>1. IInv /\ [Next]_vars => [file <= file']_vars
  <2> SUFFICES ASSUME IInv, [Next]_vars
               PROVE  file <= file' \/ UNCHANGED vars
    OBVIOUS
  <2>1. file \in 0 .. MaxSaves /\ \A item \in writing : item.save \in Saves
    BY WritingWaits DEF IInv, TypeOK, FileTypeOK, Waiting
  <2>2. \/ file' = file
        \/ \E item \in writing : file' = item.save
        \/ UNCHANGED vars
    BY DEF Next, Save, WriteEnds, Written, NotWritten, Truncate, Crash
  <2> QED
    BY <2>1, <2>2, WritingWaits
<1> QED
  BY <1>1, QueueInductive, PTL DEF Safety, NeverGoesBack
=============================================================================
