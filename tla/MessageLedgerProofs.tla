------------------------- MODULE MessageLedgerProofs ------------------------
(***************************************************************************)
(* The checks of the benchmarker's ledger never blame an application that  *)
(* stores what it acknowledges: for every number of channels, texts,       *)
(* writers and readers.                                                    *)
(***************************************************************************)
EXTENDS MessageLedger, FiniteSetTheorems, TLAPS

-----------------------------------------------------------------------------
(***************************************************************************)
(* Counting messages.                                                      *)
(***************************************************************************)
LEMMA InFinite ==
  ASSUME NEW S \in SUBSET Message, NEW c
  PROVE  IsFiniteSet(In(S, c)) /\ Cardinality(In(S, c)) \in Nat
<1>1. In(S, c) \in SUBSET Message
  BY DEF In
<1>2. IsFiniteSet(In(S, c))
  BY <1>1, MessagesAssumption, FS_Subset
<1> QED
  BY <1>2, FS_CardinalityType

LEMMA CountedType ==
  ASSUME NEW S \in SUBSET Message
  PROVE  Counted(S) \in [Channels -> Nat]
  BY InFinite DEF Counted

LEMMA CountedGrows ==
  ASSUME NEW T \in SUBSET Message, NEW S \in SUBSET T, NEW c
  PROVE  Cardinality(In(S, c)) <= Cardinality(In(T, c))
<1>1. In(S, c) \subseteq In(T, c)
  BY DEF In
<1> QED
  BY <1>1, InFinite, FS_Subset

\* One more message is one more in its channel and none in another.
LEMMA CountedAdd ==
  ASSUME NEW S \in SUBSET Message, NEW m \in Message, m \notin S
  PROVE  Counted(S \cup {m}) = [Counted(S) EXCEPT ![m[1]] = @ + 1]
<1>1. m[1] \in Channels
  BY DEF Message
<1>2. ASSUME NEW c \in Channels, c = m[1]
      PROVE  Cardinality(In(S \cup {m}, c)) = Cardinality(In(S, c)) + 1
  <2>1. In(S \cup {m}, c) = In(S, c) \cup {m} /\ m \notin In(S, c)
    BY <1>2 DEF In
  <2> QED
    BY <2>1, InFinite, FS_AddElement
<1>3. ASSUME NEW c \in Channels, c # m[1]
      PROVE  Cardinality(In(S \cup {m}, c)) = Cardinality(In(S, c))
  <2>1. In(S \cup {m}, c) = In(S, c)
    BY <1>3 DEF In
  <2> QED
    BY <2>1
<1> QED
  BY <1>1, <1>2, <1>3 DEF Counted

-----------------------------------------------------------------------------
(***************************************************************************)
(* Type correctness.                                                       *)
(***************************************************************************)
LEMMA InitLedgerType == Init => LedgerTypeOK
<1>1. InitialMessages \in SUBSET Message
  BY MessagesAssumption
<1>2. Zero \in [Channels -> Nat]
  BY DEF Zero
<1>3. NoReader \in Reader
  BY <1>2 DEF NoReader, Reader, ReaderPC
<1>4. [pc |-> "ready", msg |-> <<>>] \in Writer
  BY DEF Writer
<1> QED
  BY <1>1, <1>3, <1>4, CountedType DEF Init, LedgerTypeOK

LEMMA WriterPosts ==
  ASSUME LedgerTypeOK, NEW w \in Writers,
         writer[w].pc \in {"play", "sent", "complete"}
  PROVE  /\ writer[w] \in [pc : {"play", "sent", "complete"}, msg : Message]
         /\ writer[w].msg \in Message
  BY DEF LedgerTypeOK, Writer

LEMMA NextLedgerType == LedgerTypeOK /\ [Next]_vars => LedgerTypeOK'
<1> SUFFICES ASSUME LedgerTypeOK, [Next]_vars PROVE LedgerTypeOK'
  OBVIOUS
<1> USE DEF ledger, server
<1>a. \A r \in Readers : reader[r] \in Reader
  BY DEF LedgerTypeOK
<1>b. \A m \in Message : m[1] \in Channels
  BY DEF Message
<1>1. ASSUME NEW w \in Writers, NEW m \in Message, AddSendMessage(w, m)
      PROVE LedgerTypeOK'
  <2>1. [pc |-> "play", msg |-> m] \in Writer
    BY DEF Writer
  <2> QED
    BY <1>1, <1>b, <2>1 DEF AddSendMessage, LedgerTypeOK
<1>2. ASSUME NEW w \in Writers, PlayPost(w) PROVE LedgerTypeOK'
  <2>1. writer[w] \in [pc : {"play", "sent", "complete"}, msg : Message]
    BY <1>2, WriterPosts DEF PlayPost
  <2>2. \A pc \in {"sent", "complete"} :
           [writer[w] EXCEPT !.pc = pc] \in Writer
    BY <2>1 DEF Writer
  <2>3. writer' \in [Writers -> Writer]
    BY <1>2, <2>2 DEF PlayPost, LedgerTypeOK
  <2>4. inflight' \in SUBSET Message
    BY <1>2, <2>1 DEF PlayPost, LedgerTypeOK
  <2> QED
    BY <1>2, <2>3, <2>4 DEF PlayPost, LedgerTypeOK
<1>3. ASSUME NEW w \in Writers, PostAnswered(w) PROVE LedgerTypeOK'
  <2>1. writer[w] \in [pc : {"play", "sent", "complete"}, msg : Message]
    BY <1>3, WriterPosts DEF PostAnswered
  <2>2. [writer[w] EXCEPT !.pc = "complete"] \in Writer
    BY <2>1 DEF Writer
  <2>3. writer' \in [Writers -> Writer]
    BY <1>3, <2>2 DEF PostAnswered, LedgerTypeOK
  <2> QED
    BY <1>3, <2>3 DEF PostAnswered, LedgerTypeOK
<1>4. ASSUME NEW w \in Writers, PostFails(w) PROVE LedgerTypeOK'
  <2>1. [pc |-> "stopped", msg |-> <<>>] \in Writer
    BY DEF Writer
  <2> QED
    BY <1>4, <2>1 DEF PostFails, LedgerTypeOK
<1>5. ASSUME NEW w \in Writers, Complete(w) PROVE LedgerTypeOK'
  <2>1. [pc |-> "ready", msg |-> <<>>] \in Writer
    BY DEF Writer
  <2>2. writer[w].msg \in Message
    BY <1>5, WriterPosts DEF Complete
  <2>3. msgCntMin' \in [Channels -> Nat]
    BY <1>5, <1>b, <2>2 DEF Complete, LedgerTypeOK
  <2> QED
    BY <1>5, <2>1, <2>2, <2>3 DEF Complete, LedgerTypeOK
<1>6. ASSUME NEW m \in Message, Store(m) \/ Refuse(m) PROVE LedgerTypeOK'
  BY <1>6 DEF Store, Refuse, LedgerTypeOK
<1>7. ASSUME NEW r \in Readers, NEW R \in Reader,
             reader' = [reader EXCEPT ![r] = R],
             UNCHANGED <<ledger, server, writer, done>>
      PROVE LedgerTypeOK'
  BY <1>7 DEF LedgerTypeOK
<1>8. Zero \in [Channels -> Nat] /\ NoReader \in Reader
  BY DEF Zero, NoReader, Reader, ReaderPC
<1>9. ASSUME NEW r \in Readers, SnapshotMin(r) PROVE LedgerTypeOK'
  <2>1. [NoReader EXCEPT !.pc = "play", !.minCnt = msgCntMin] \in Reader
    BY <1>8 DEF Reader, ReaderPC, LedgerTypeOK
  <2> QED
    BY <1>7, <1>9, <2>1 DEF SnapshotMin
<1>10. ASSUME NEW r \in Readers, PlayFetch(r) PROVE LedgerTypeOK'
  <2>1. \A pc \in {"passed", "counting"} :
           [reader[r] EXCEPT !.pc = pc, !.todo = Channels] \in Reader
    BY <1>a DEF Reader, ReaderPC
  <2>2. PICK pc \in {"passed", "counting"} :
           reader' = [reader EXCEPT ![r] = [reader[r] EXCEPT !.pc = pc,
                                                      !.todo = Channels]]
    BY <1>10 DEF PlayFetch, LedgerTypeOK
  <2> QED
    BY <1>7, <1>10, <2>1, <2>2 DEF PlayFetch
<1>11. ASSUME NEW r \in Readers, NEW c \in Channels, CountUnread(r, c)
       PROVE LedgerTypeOK'
  <2>1. Cardinality(In(stored, c)) \in Nat
    BY InFinite DEF LedgerTypeOK
  <2>2. [reader[r] EXCEPT !.unread[c] = Cardinality(In(stored, c)),
                          !.todo = @ \ {c}] \in Reader
    BY <1>a, <2>1 DEF Reader
  <2>3. reader' = [reader EXCEPT ![r] =
                     [reader[r] EXCEPT
                        !.unread[c] = Cardinality(In(stored, c)),
                        !.todo = @ \ {c}]]
    BY <1>11 DEF CountUnread, LedgerTypeOK
  <2> QED
    BY <1>7, <1>11, <2>2, <2>3 DEF CountUnread
<1>12. ASSUME NEW r \in Readers, NEW pc \in ReaderPC,
              reader' = [reader EXCEPT ![r].pc = pc],
              UNCHANGED <<ledger, server, writer, done>>
       PROVE LedgerTypeOK'
  <2>1. [reader[r] EXCEPT !.pc = pc] \in Reader
    BY <1>a DEF Reader
  <2> QED
    BY <1>7, <1>12, <2>1
<1>13. ASSUME NEW r \in Readers, FetchAnswered(r) \/ CheckUnread(r)
                                  \/ ValidateJsonMessage(r) \/ ReadFails(r)
       PROVE LedgerTypeOK'
  <2>1. \E pc \in ReaderPC : reader' = [reader EXCEPT ![r].pc = pc]
    BY <1>13 DEF FetchAnswered, CheckUnread, ValidateJsonMessage, ReadFails,
                 ReaderPC
  <2> QED
    BY <1>12, <1>13, <2>1
       DEF FetchAnswered, CheckUnread, ValidateJsonMessage, ReadFails
<1>14. ASSUME NEW r \in Readers, PlayMessage(r) PROVE LedgerTypeOK'
  <2>1. [NoReader EXCEPT !.pc = "selecting"] \in Reader
    BY <1>8 DEF Reader, ReaderPC
  <2> QED
    BY <1>7, <1>14, <2>1 DEF PlayMessage
<1>15. ASSUME NEW r \in Readers, NEW c \in Channels, MessageAnswered(r, c)
       PROVE LedgerTypeOK'
  <2>1. In(stored, c) \in SUBSET Message
    BY DEF In, LedgerTypeOK
  <2>2. [reader[r] EXCEPT !.pc = "validate", !.msgs = In(stored, c)] \in Reader
    BY <1>a, <2>1 DEF Reader, ReaderPC
  <2>3. reader' = [reader EXCEPT ![r] =
                     [reader[r] EXCEPT !.pc = "validate",
                                       !.msgs = In(stored, c)]]
    BY <1>15 DEF MessageAnswered, LedgerTypeOK
  <2> QED
    BY <1>7, <1>15, <2>2, <2>3 DEF MessageAnswered
<1>16. ASSUME NEW r \in Readers, NextCheck(r) PROVE LedgerTypeOK'
  BY <1>7, <1>8, <1>16 DEF NextCheck
<1>17. CASE Deadline
  BY <1>17 DEF Deadline, LedgerTypeOK
<1>18. CASE UNCHANGED vars
  BY <1>18 DEF vars, LedgerTypeOK
<1> QED
  BY <1>1, <1>2, <1>3, <1>4, <1>5, <1>6, <1>9, <1>10, <1>11, <1>13, <1>14,
     <1>15, <1>16, <1>17, <1>18 DEF Next

\* Every variable keeps its type; a goroutine has a message exactly while it
\* posts one (structure.go, LoadReadWriteUser).
THEOREM LedgerTypeCorrect == Spec => []LedgerTypeOK
  BY InitLedgerType, NextLedgerType, PTL DEF Spec

-----------------------------------------------------------------------------
(***************************************************************************)
(* The invariant.  The ledger, the application and the end of the run only *)
(* ever grow, so a step that is not a reader's leaves what the readers     *)
(* have read valid.                                                        *)
(***************************************************************************)
Grows ==
    /\ stored \subseteq stored'
    /\ msgMap \subseteq msgMap'
    /\ \A c \in Channels : msgCntMax[c] <= msgCntMax'[c]
    /\ done => done'

LEMMA InitLedgerInv == Init => LedgerInv
  BY DEF Init, LedgerInv, CountsExact, Bracket, WriterInv, ReaderInv,
         ReaderOK, NoReader

LEMMA ReaderKept ==
  ASSUME LedgerTypeOK, LedgerTypeOK', Grows, NEW r \in Readers, ReaderOK(r),
         reader'[r] = reader[r]
  PROVE  ReaderOK(r)'
<1> DEFINE R == reader[r]
<1>1. R \in Reader
  BY DEF LedgerTypeOK
<1>2. \A c \in Channels :
         /\ R.minCnt[c] \in Nat /\ R.unread[c] \in Nat
         /\ msgCntMax[c] \in Nat /\ msgCntMax'[c] \in Nat
         /\ msgCntMax[c] <= msgCntMax'[c]
  BY <1>1 DEF Reader, LedgerTypeOK, Grows
<1>3. \A c : /\ Cardinality(In(stored, c)) \in Nat
             /\ Cardinality(In(stored', c)) \in Nat
             /\ Cardinality(In(stored, c)) <= Cardinality(In(stored', c))
  BY InFinite, CountedGrows DEF LedgerTypeOK, Grows
<1>4. (\A c \in Channels : R.minCnt[c] <= Cardinality(In(stored, c)))
        => \A c \in Channels : R.minCnt[c] <= Cardinality(In(stored', c))
  BY <1>2, <1>3
<1>5. \A c \in Channels : R.unread[c] <= msgCntMax[c]
                            => R.unread[c] <= msgCntMax'[c]
  BY <1>2
<1>6. done => done'
  BY DEF Grows
<1>7. CASE R.pc \in {"play", "counting"}
  BY <1>4, <1>5, <1>6, <1>7 DEF ReaderOK
<1>8. CASE R.pc \notin {"play", "counting"}
  BY <1>5, <1>8 DEF ReaderOK, Grows
<1> QED
  BY <1>7, <1>8

\* What is stored of a channel is at most what the ledger counts.
LEMMA StoredBound ==
  ASSUME LedgerTypeOK, CountsExact, Bracket, NEW c \in Channels
  PROVE  Cardinality(In(stored, c)) <= msgCntMax[c]
  BY CountedGrows DEF LedgerTypeOK, CountsExact, Bracket, Counted

\* Until the run is done it is at least what was completed.
LEMMA CompleteBound ==
  ASSUME LedgerTypeOK, CountsExact, Bracket, ~done, NEW c \in Channels
  PROVE  msgCntMin[c] <= Cardinality(In(stored, c))
  BY CountedGrows DEF LedgerTypeOK, CountsExact, Bracket, Counted

-----------------------------------------------------------------------------
\* A step of a reader moves nothing but that reader.
LEMMA ReaderStep ==
  ASSUME LedgerTypeOK, LedgerTypeOK', LedgerInv, NEW r \in Readers, NEW R,
         reader' = [reader EXCEPT ![r] = R],
         UNCHANGED <<ledger, server, writer, done>>,
         ReaderOK(r)'
  PROVE  LedgerInv'
<1> USE DEF ledger, server
<1>1. CountsExact' /\ Bracket' /\ WriterInv'
  BY DEF LedgerInv, CountsExact, Bracket, WriterInv
<1>2. Grows
  BY DEF Grows, LedgerTypeOK
<1>3. ASSUME NEW q \in Readers, q # r PROVE ReaderOK(q)'
  <2>1. reader'[q] = reader[q]
    BY <1>3 DEF LedgerTypeOK
  <2> QED
    BY <1>2, <2>1, ReaderKept DEF LedgerInv, ReaderInv
<1> QED
  BY <1>1, <1>3 DEF LedgerInv, ReaderInv

\* A step of anyone else moves no reader.
LEMMA OtherStep ==
  ASSUME LedgerTypeOK, LedgerTypeOK', LedgerInv, reader' = reader, Grows
  PROVE  ReaderInv'
  BY ReaderKept DEF LedgerInv, ReaderInv

LEMMA NextLedgerInv ==
  LedgerTypeOK /\ LedgerTypeOK' /\ LedgerInv /\ [Next]_vars => LedgerInv'
<1> SUFFICES ASSUME LedgerTypeOK, LedgerTypeOK', LedgerInv, [Next]_vars
             PROVE  LedgerInv'
  OBVIOUS
<1> USE DEF ledger, server
<1>0. \A c \in Channels : msgCntMax[c] <= msgCntMax[c]
  BY DEF LedgerTypeOK
<1>1. ASSUME NEW w \in Writers, NEW m \in Message, AddSendMessage(w, m)
      PROVE LedgerInv'
  <2>1. m[1] \in Channels
    BY DEF Message
  <2>2. CountsExact'
    <3>1. msgCntMax' = [Counted(msgMap) EXCEPT ![m[1]] = @ + 1]
      BY <1>1 DEF AddSendMessage, LedgerInv, CountsExact
    <3>2. msgCntMax' = Counted(msgMap \cup {m})
      BY <1>1, <3>1, CountedAdd DEF AddSendMessage, LedgerTypeOK
    <3> QED
      BY <1>1, <3>2 DEF AddSendMessage, LedgerInv, CountsExact
  <2>3. Bracket'
    BY <1>1 DEF AddSendMessage, LedgerInv, Bracket
  <2>4. WriterInv'
    BY <1>1 DEF AddSendMessage, LedgerInv, WriterInv, LedgerTypeOK
  <2>5. Grows
    BY <1>1, <2>1 DEF AddSendMessage, Grows, LedgerTypeOK
  <2> QED
    BY <1>1, <2>2, <2>3, <2>4, <2>5, OtherStep DEF AddSendMessage, LedgerInv
<1>2. ASSUME NEW w \in Writers, PlayPost(w) PROVE LedgerInv'
  <2>1. CountsExact' /\ Bracket'
    BY <1>2 DEF PlayPost, LedgerInv, CountsExact, Bracket
  <2>2. WriterInv'
    <3>1. inflight' \subseteq msgMap'
      BY <1>2 DEF PlayPost, LedgerInv, WriterInv
    <3>2. CASE done
      <4>1. writer'[w].pc = "complete" /\ writer'[w].msg = writer[w].msg
        BY <1>2, <3>2 DEF PlayPost, LedgerTypeOK, Writer
      <4>2. \A v \in Writers : v # w => writer'[v] = writer[v]
        BY <1>2, <3>2 DEF PlayPost, LedgerTypeOK
      <4> QED
        BY <1>2, <3>1, <3>2, <4>1, <4>2 DEF PlayPost, LedgerInv, WriterInv
    <3>3. CASE ~done
      <4>1. writer'[w].pc = "sent" /\ writer'[w].msg = writer[w].msg
        BY <1>2, <3>3 DEF PlayPost, LedgerTypeOK, Writer
      <4>2. \A v \in Writers : v # w => writer'[v] = writer[v]
        BY <1>2, <3>3 DEF PlayPost, LedgerTypeOK
      <4> QED
        BY <1>2, <3>1, <4>1, <4>2 DEF PlayPost, LedgerInv, WriterInv
    <3> QED
      BY <3>2, <3>3
  <2>3. Grows
    BY <1>2, <1>0 DEF PlayPost, Grows
  <2> QED
    BY <1>2, <2>1, <2>2, <2>3, OtherStep DEF PlayPost, LedgerInv
<1>3. ASSUME NEW w \in Writers, PostAnswered(w) PROVE LedgerInv'
  <2>1. CountsExact' /\ Bracket'
    BY <1>3 DEF PostAnswered, LedgerInv, CountsExact, Bracket
  <2>2. /\ writer'[w].msg = writer[w].msg /\ writer[w].pc = "sent"
        /\ \A v \in Writers : v # w => writer'[v] = writer[v]
    BY <1>3 DEF PostAnswered, LedgerTypeOK, Writer
  <2>3. writer[w].msg \in stored
    BY <1>3 DEF PostAnswered, LedgerInv, WriterInv
  <2>4. WriterInv'
    BY <1>3, <2>2, <2>3 DEF PostAnswered, LedgerInv, WriterInv
  <2>5. Grows
    BY <1>3, <1>0 DEF PostAnswered, Grows
  <2> QED
    BY <1>3, <2>1, <2>4, <2>5, OtherStep DEF PostAnswered, LedgerInv
<1>4. ASSUME NEW w \in Writers, PostFails(w) PROVE LedgerInv'
  <2>1. CountsExact' /\ Bracket'
    BY <1>4 DEF PostFails, LedgerInv, CountsExact, Bracket
  <2>2. WriterInv'
    BY <1>4 DEF PostFails, LedgerInv, WriterInv, LedgerTypeOK
  <2>3. Grows
    BY <1>4, <1>0 DEF PostFails, Grows
  <2> QED
    BY <1>4, <2>1, <2>2, <2>3, OtherStep DEF PostFails, LedgerInv
<1>5. ASSUME NEW w \in Writers, Complete(w) PROVE LedgerInv'
  <2> DEFINE m == writer[w].msg
  <2>1. m \in Message
    BY <1>5, WriterPosts DEF Complete
  <2>2. CountsExact'
    <3>1. CASE m \in complete
      <4>1. complete' = complete
        BY <1>5, <3>1 DEF Complete
      <4> QED
        BY <1>5, <3>1, <4>1 DEF Complete, LedgerInv, CountsExact
    <3>2. CASE m \notin complete
      <4>1. msgCntMin' = [Counted(complete) EXCEPT ![m[1]] = @ + 1]
        BY <1>5, <3>2 DEF Complete, LedgerInv, CountsExact
      <4>2. msgCntMin' = Counted(complete \cup {m})
        BY <2>1, <3>2, <4>1, CountedAdd DEF LedgerTypeOK
      <4> QED
        BY <1>5, <4>2 DEF Complete, LedgerInv, CountsExact
    <3> QED
      BY <3>1, <3>2
  <2>3. Bracket'
    BY <1>5 DEF Complete, LedgerInv, Bracket, WriterInv
  <2>4. WriterInv'
    BY <1>5 DEF Complete, LedgerInv, WriterInv, LedgerTypeOK
  <2>5. Grows
    BY <1>5, <1>0 DEF Complete, Grows
  <2> QED
    BY <1>5, <2>2, <2>3, <2>4, <2>5, OtherStep DEF Complete, LedgerInv
<1>6. ASSUME NEW m \in Message, Store(m) \/ Refuse(m) PROVE LedgerInv'
  <2>1. CountsExact' /\ Bracket'
    BY <1>6 DEF Store, Refuse, LedgerInv, CountsExact, Bracket, WriterInv
  <2>2. WriterInv'
    BY <1>6 DEF Store, Refuse, LedgerInv, WriterInv
  <2>3. Grows
    BY <1>6, <1>0 DEF Store, Refuse, Grows
  <2> QED
    BY <1>6, <2>1, <2>2, <2>3, OtherStep DEF Store, Refuse, LedgerInv
<1>7. ASSUME NEW r \in Readers, SnapshotMin(r) PROVE LedgerInv'
  <2> DEFINE R == [NoReader EXCEPT !.pc = "play", !.minCnt = msgCntMin]
  <2>1. R.pc = "play" /\ R.minCnt = msgCntMin
    BY DEF NoReader
  <2>2. reader'[r] = R
    BY <1>7 DEF SnapshotMin, LedgerTypeOK
  <2>3. ReaderOK(r)'
    BY <1>7, <2>1, <2>2, CompleteBound DEF SnapshotMin, ReaderOK, LedgerInv
  <2> QED
    BY <1>7, <2>3, ReaderStep DEF SnapshotMin
<1>8. ASSUME NEW r \in Readers, PlayFetch(r) PROVE LedgerInv'
  <2>1. /\ reader[r].pc = "play" /\ ReaderOK(r)
        /\ reader'[r].pc = IF done THEN "passed" ELSE "counting"
        /\ reader'[r].todo = Channels /\ reader'[r].minCnt = reader[r].minCnt
    BY <1>8 DEF PlayFetch, LedgerTypeOK, Reader, LedgerInv, ReaderInv
  <2>2. ReaderOK(r)'
    <3>1. CASE done
      <4>1. reader'[r].pc = "passed"
        BY <2>1, <3>1
      <4> QED
        BY <4>1 DEF ReaderOK
    <3>2. CASE ~done
      <4>1. reader'[r].pc = "counting"
        BY <2>1, <3>2
      <4>2. \A c \in Channels :
               /\ reader[r].minCnt[c] <= Cardinality(In(stored, c))
               /\ c \in reader'[r].todo
        BY <2>1, <3>2 DEF ReaderOK
      <4> QED
        BY <1>8, <2>1, <4>1, <4>2 DEF PlayFetch, ReaderOK
    <3> QED
      BY <3>1, <3>2
  <2>3. reader' = [reader EXCEPT ![r] = reader'[r]]
    BY <1>8 DEF PlayFetch, LedgerTypeOK
  <2> QED
    BY <1>8, <2>2, <2>3, ReaderStep DEF PlayFetch
<1>9. ASSUME NEW r \in Readers, NEW c \in Channels, CountUnread(r, c)
      PROVE LedgerInv'
  <2>1. /\ reader[r].pc = "counting" /\ ReaderOK(r)
        /\ reader'[r].pc = "counting"
        /\ reader'[r].todo = reader[r].todo \ {c}
        /\ reader'[r].minCnt = reader[r].minCnt
        /\ reader'[r].unread = [reader[r].unread EXCEPT
                                  ![c] = Cardinality(In(stored, c))]
    BY <1>9 DEF CountUnread, LedgerTypeOK, Reader, LedgerInv, ReaderInv
  <2>2. reader[r].unread \in [Channels -> Nat]
    BY DEF LedgerTypeOK, Reader
  <2>3. ReaderOK(r)'
    <3>1. ASSUME NEW d \in Channels
          PROVE  /\ reader'[r].minCnt[d] <= Cardinality(In(stored, d))
                 /\ d \notin reader'[r].todo =>
                      /\ reader'[r].minCnt[d] <= reader'[r].unread[d]
                      /\ reader'[r].unread[d] <= msgCntMax[d]
      <4>1. CASE d = c
        BY <2>1, <2>2, <4>1, StoredBound DEF ReaderOK, LedgerInv
      <4>2. CASE d # c
        BY <2>1, <2>2, <4>2 DEF ReaderOK
      <4> QED
        BY <4>1, <4>2
    <3> QED
      BY <1>9, <2>1, <3>1 DEF CountUnread, ReaderOK
  <2>4. reader' = [reader EXCEPT ![r] = reader'[r]]
    BY <1>9 DEF CountUnread, LedgerTypeOK
  <2> QED
    BY <1>9, <2>3, <2>4, ReaderStep DEF CountUnread
<1>10. ASSUME NEW r \in Readers, FetchAnswered(r) \/ CheckUnread(r)
                                 \/ ValidateJsonMessage(r) \/ ReadFails(r)
       PROVE LedgerInv'
  <2>1. /\ ReaderOK(r)
        /\ reader'[r].minCnt = reader[r].minCnt
        /\ reader'[r].unread = reader[r].unread
        /\ reader' = [reader EXCEPT ![r] = reader'[r]]
        /\ UNCHANGED <<ledger, server, writer, done>>
    BY <1>10 DEF FetchAnswered, CheckUnread, ValidateJsonMessage, ReadFails,
                 LedgerTypeOK, Reader, LedgerInv, ReaderInv
  <2>2. ReaderOK(r)'
    <3>1. CASE FetchAnswered(r)
      <4>1. reader'[r].pc = "check"
        BY <3>1 DEF FetchAnswered, LedgerTypeOK, Reader
      <4> QED
        BY <2>1, <3>1, <4>1 DEF FetchAnswered, ReaderOK
    <3>2. CASE CheckUnread(r) \/ ValidateJsonMessage(r) \/ ReadFails(r)
      <4>1. reader'[r].pc = "passed"
        BY <2>1, <3>2 DEF CheckUnread, ValidateJsonMessage, ReadFails,
                          ReaderOK, LedgerTypeOK, Reader
      <4> QED
        BY <4>1 DEF ReaderOK
    <3> QED
      BY <1>10, <3>1, <3>2
  <2> QED
    BY <2>1, <2>2, ReaderStep
<1>11. ASSUME NEW r \in Readers, PlayMessage(r) \/ NextCheck(r)
       PROVE LedgerInv'
  <2>1. /\ reader'[r].pc \in {"selecting", "ready"}
        /\ reader' = [reader EXCEPT ![r] = reader'[r]]
        /\ UNCHANGED <<ledger, server, writer, done>>
    BY <1>11 DEF PlayMessage, NextCheck, NoReader, LedgerTypeOK
  <2>2. ReaderOK(r)'
    BY <2>1 DEF ReaderOK
  <2> QED
    BY <2>1, <2>2, ReaderStep
<1>12. ASSUME NEW r \in Readers, NEW c \in Channels, MessageAnswered(r, c)
       PROVE LedgerInv'
  <2>1. /\ reader'[r].pc = "validate"
        /\ reader'[r].msgs = In(stored, c)
        /\ reader' = [reader EXCEPT ![r] = reader'[r]]
        /\ UNCHANGED <<ledger, server, writer, done>>
    BY <1>12 DEF MessageAnswered, LedgerTypeOK, Reader
  <2>2. In(stored, c) \subseteq msgMap
    BY DEF In, LedgerInv, Bracket
  <2>3. ReaderOK(r)'
    BY <2>1, <2>2 DEF ReaderOK
  <2> QED
    BY <2>1, <2>3, ReaderStep
<1>13. CASE Deadline
  <2>1. CountsExact' /\ Bracket' /\ WriterInv'
    BY <1>13 DEF Deadline, LedgerInv, CountsExact, Bracket, WriterInv
  <2>2. Grows
    BY <1>13, <1>0 DEF Deadline, Grows
  <2> QED
    BY <1>13, <2>1, <2>2, OtherStep DEF Deadline, LedgerInv
<1>14. CASE UNCHANGED vars
  <2>1. CountsExact' /\ Bracket' /\ WriterInv'
    BY <1>14 DEF vars, LedgerInv, CountsExact, Bracket, WriterInv
  <2>2. Grows
    BY <1>14, <1>0 DEF vars, Grows
  <2> QED
    BY <1>14, <2>1, <2>2, OtherStep DEF vars, LedgerInv
<1> QED
  BY <1>1, <1>2, <1>3, <1>4, <1>5, <1>6, <1>7, <1>8, <1>9, <1>10, <1>11,
     <1>12, <1>13, <1>14 DEF Next

\* The counters are the sizes of the sets they count, what is stored lies
\* between them, and every check in progress has bounds on its generous side
\* (AddSendMessage, SnapshotMessageCount, CheckFecthUnreadCount).
THEOREM LedgerInvCorrect == Spec => []LedgerInv
  BY InitLedgerType, NextLedgerType, InitLedgerInv, NextLedgerInv, PTL DEF Spec

\* The application stores at least the completed messages, until the run is
\* done, and never a message the ledger does not know (AddSendMessage).
THEOREM BracketCorrect == Spec => []Bracket
<1>1. LedgerInv => Bracket
  BY DEF LedgerInv
<1> QED
  BY <1>1, LedgerInvCorrect, PTL

\* However posts and checks interleave, time out or meet the end of the run,
\* no check ends in a fatal error (CheckFecthUnreadCount, ValidateJsonMessage).
THEOREM NoFalseAlarmCorrect == Spec => []NoFalseAlarm
<1>1. LedgerInv => NoFalseAlarm
  BY DEF LedgerInv, ReaderInv, ReaderOK, NoFalseAlarm
<1> QED
  BY <1>1, LedgerInvCorrect, PTL

-----------------------------------------------------------------------------
(***************************************************************************)
(* The ledger and the application implement MessageCounts.                 *)
(***************************************************************************)
LEMMA CountsStart == Init => Counts!CountsInit
  BY DEF Init, Counts!CountsInit

\* One more message, as the abstract counter sees it.
LEMMA CountedOne ==
  ASSUME NEW S \in SUBSET Message, NEW m \in Message, m \notin S
  PROVE  /\ m[1] \in Channels
         /\ Counted(S)[m[1]] \in Nat
         /\ Counted(S \cup {m}) = [Counted(S) EXCEPT ![m[1]] = @ + 1]
         /\ Counted(S \cup {m})[m[1]] = Counted(S)[m[1]] + 1
<1>1. m[1] \in Channels
  BY DEF Message
<1>2. Counted(S) \in [Channels -> Nat]
  BY CountedType
<1>3. Counted(S \cup {m}) = [Counted(S) EXCEPT ![m[1]] = @ + 1]
  BY CountedAdd
<1> QED
  BY <1>1, <1>2, <1>3

\* A set and one that is larger by a message of a channel.
LEMMA CountedLess ==
  ASSUME NEW T \in SUBSET Message, NEW S \in SUBSET T, NEW m \in T, m \notin S
  PROVE  Counted(S)[m[1]] < Counted(T)[m[1]]
<1>1. /\ S \in SUBSET Message /\ m \in Message /\ m[1] \in Channels
      /\ S \cup {m} \in SUBSET T
  BY DEF Message
<1>2. Cardinality(In(S \cup {m}, m[1])) <= Cardinality(In(T, m[1]))
  BY <1>1, CountedGrows
<1>3. Counted(S \cup {m})[m[1]] = Counted(S)[m[1]] + 1
  BY <1>1, CountedOne
<1>4. /\ Counted(S)[m[1]] \in Nat /\ Counted(T)[m[1]] \in Nat
      /\ Counted(S \cup {m})[m[1]] <= Counted(T)[m[1]]
  BY <1>1, <1>2, CountedType DEF Counted
<1> QED
  BY <1>3, <1>4

LEMMA CountsStep ==
  ASSUME LedgerTypeOK, LedgerTypeOK', LedgerInv, LedgerInv', [Next]_vars
  PROVE  [Counts!CountsNext]_<<msgCntMax, Counted(stored), msgCntMin, done>>
<1> USE DEF ledger, server
<1>0. /\ msgMap \in SUBSET Message /\ complete \in SUBSET Message
      /\ stored \in SUBSET Message /\ stored \in SUBSET msgMap
      /\ complete \in SUBSET msgMap
      /\ msgCntMax = Counted(msgMap) /\ msgCntMin = Counted(complete)
  BY DEF LedgerTypeOK, LedgerInv, CountsExact, Bracket
<1>1. ASSUME NEW w \in Writers, NEW m \in Message, AddSendMessage(w, m)
      PROVE  Counts!CountsNext
  <2>1. m[1] \in Channels
    BY DEF Message
  <2>2. Counts!Announce(m[1])
    BY <1>1 DEF AddSendMessage, Counts!Announce, Counted
  <2> QED
    BY <2>1, <2>2 DEF Counts!CountsNext
<1>2. ASSUME NEW m \in Message, Store(m)
      PROVE  Counts!CountsNext \/ UNCHANGED <<msgCntMax, Counted(stored),
                                              msgCntMin, done>>
  <2>1. /\ m \in msgMap /\ stored' = stored \cup {m}
        /\ UNCHANGED <<msgCntMax, msgCntMin, done>>
    BY <1>2 DEF Store, LedgerInv, WriterInv
  <2>2. CASE m \in stored
    BY <2>1, <2>2
  <2>3. CASE m \notin stored
    <3>1. Counted(stored)[m[1]] < msgCntMax[m[1]]
      BY <1>0, <2>1, <2>3, CountedLess
    <3>2. /\ m[1] \in Channels
          /\ Counted(stored \cup {m}) = [Counted(stored) EXCEPT ![m[1]] = @ + 1]
      BY <1>0, <2>3, CountedOne
    <3>3. Counted(stored)' = [Counted(stored) EXCEPT ![m[1]] = @ + 1]
      BY <2>1, <3>2 DEF Counted
    <3>4. Counts!Store(m[1])
      BY <2>1, <3>1, <3>3 DEF Counts!Store
    <3> QED
      BY <3>2, <3>4 DEF Counts!CountsNext
  <2> QED
    BY <2>2, <2>3
<1>3. ASSUME NEW w \in Writers, Complete(w)
      PROVE  Counts!CountsNext \/ UNCHANGED <<msgCntMax, Counted(stored),
                                              msgCntMin, done>>
  <2>1. PICK m \in Message : m = writer[w].msg
    BY <1>3, WriterPosts DEF Complete
  <2>2. /\ complete' = complete \cup {m}
        /\ msgCntMin' = IF m \in complete THEN msgCntMin
                        ELSE [msgCntMin EXCEPT ![m[1]] = @ + 1]
        /\ UNCHANGED <<msgMap, msgCntMax, stored, done>>
        /\ Counted(stored)' = Counted(stored)
    BY <1>3, <2>1 DEF Complete, Counted
  <2>3. CASE m \in complete
    BY <2>2, <2>3
  <2>4. CASE m \notin complete
    <3>1. m \in msgMap /\ (~done => m \in stored /\ complete \in SUBSET stored)
      BY <1>0, <1>3, <2>1 DEF Complete, LedgerInv, WriterInv, Bracket
    <3>2. msgCntMin[m[1]] < IF done THEN msgCntMax[m[1]]
                            ELSE Counted(stored)[m[1]]
      <4>1. done => msgCntMin[m[1]] < msgCntMax[m[1]]
        BY <1>0, <2>4, <3>1, CountedLess
      <4>2. ~done => msgCntMin[m[1]] < Counted(stored)[m[1]]
        BY <1>0, <2>4, <3>1, CountedLess
      <4> QED
        BY <4>1, <4>2
    <3>3. m[1] \in Channels /\ msgCntMin' = [msgCntMin EXCEPT ![m[1]] = @ + 1]
      BY <2>2, <2>4 DEF Message
    <3>4. Counts!Complete(m[1])
      BY <2>2, <3>2, <3>3 DEF Counts!Complete
    <3> QED
      BY <3>3, <3>4 DEF Counts!CountsNext
  <2> QED
    BY <2>3, <2>4
<1>4. CASE Deadline
  <2>1. Counts!Deadline
    BY <1>4 DEF Deadline, Counts!Deadline, Counted
  <2> QED
    BY <2>1 DEF Counts!CountsNext
<1>5. ASSUME UNCHANGED <<msgCntMax, msgCntMin, stored, done>>
      PROVE  UNCHANGED <<msgCntMax, Counted(stored), msgCntMin, done>>
  BY <1>5 DEF Counted
<1>6. ASSUME NEW w \in Writers, PlayPost(w) \/ PostAnswered(w) \/ PostFails(w)
      PROVE  UNCHANGED <<msgCntMax, msgCntMin, stored, done>>
  BY <1>6 DEF PlayPost, PostAnswered, PostFails
<1>7. ASSUME NEW m \in Message, Refuse(m)
      PROVE  UNCHANGED <<msgCntMax, msgCntMin, stored, done>>
  BY <1>7 DEF Refuse
<1>8. ASSUME NEW r \in Readers,
             \/ SnapshotMin(r) \/ PlayFetch(r) \/ FetchAnswered(r)
             \/ CheckUnread(r) \/ PlayMessage(r) \/ ReadFails(r)
             \/ \E c \in Channels : CountUnread(r, c) \/ MessageAnswered(r, c)
             \/ ValidateJsonMessage(r) \/ NextCheck(r)
      PROVE  UNCHANGED <<msgCntMax, msgCntMin, stored, done>>
  BY <1>8 DEF SnapshotMin, PlayFetch, FetchAnswered, CheckUnread, PlayMessage,
              ReadFails, CountUnread, MessageAnswered, ValidateJsonMessage,
              NextCheck
<1>9. CASE UNCHANGED vars
  BY <1>9 DEF vars
<1> QED
  BY <1>1, <1>2, <1>3, <1>4, <1>5, <1>6, <1>7, <1>8, <1>9 DEF Next

\* The ledger with an application behind it behaves like the counters of
\* MessageCounts, from which History takes its posts: what a check may conclude
\* from two of the numbers there holds for the real ledger, whatever is posted,
\* lost, timed out or completed after the end of the run (AddSendMessage,
\* SnapshotMessageCount).
THEOREM LedgerImplementsCounts == Spec => ImplementsCounts
<1>1. Init => Counts!CountsInit
  BY CountsStart
<1>2. LedgerTypeOK /\ LedgerTypeOK' /\ LedgerInv /\ LedgerInv' /\ [Next]_vars
        => [Counts!CountsNext]_<<msgCntMax, Counted(stored), msgCntMin, done>>
  BY CountsStep
<1> QED
  BY <1>1, <1>2, LedgerTypeCorrect, LedgerInvCorrect, PTL
     DEF Spec, ImplementsCounts, Counts!CountsSpec
=============================================================================
