-------------------------- MODULE DurableIndexProofs --------------------------
(***************************************************************************)
(* Proofs that a process that dies between any two transactions leaves a   *)
(* file from which the next one finds every download, and no download of   *)
(* other media: what IndexProofs shows of restarts between two handlers    *)
(* holds of crashes within one.                                            *)
(***************************************************************************)
EXTENDS DurableProofs, IndexProofs

USE BackendAssumption, NoneAssumption, KeyAssumption, EventAssumption, TimeAssumption,
    BoltAssumption

-----------------------------------------------------------------------------
(* Which grab gave the traces of a file their download ids.  Restore        *)
(* rebuilds the index from the traces, so two traces of the file must never *)
(* have one download id, whatever half of a handler is in it.               *)

\* As GrabbedFor, of the traces of a file.
GrabbedIn(file, e, k, d) ==
    /\ e.Phase = "arr.grab" /\ e.DownloadID = d
    /\ \/ e.Key = k
       \/ e.Key.Type = "tv" /\ SeriesKey(e.Key) = k /\ file.byKey[e.Key] = None

Granted(file, k, d) == \E e \in Event : GrabbedIn(file, e, k, d)

GrantedFile(file) ==
    \A k \in MediaKey :
        file.byKey[k] # None /\ file.byKey[k].DownloadID # None =>
            Granted(file, k, file.byKey[k].DownloadID)

\* An episode only gets a trace of its own while its series has none.
MayAppear(file, k) ==
    k.Type = "tv" /\ SeriesKey(k) # k => file.byKey[SeriesKey(k)] = None

PutFits(file, k, s) ==
    /\ s.DownloadID # None => Granted(file, k, s.DownloadID)
    /\ file.byKey[k] = None => MayAppear(file, k)

\* What a handler for the key k, or Restore, may have still to write.
FitTx(file, k) ==
    {tx \in Tx : tx.op = "put" =>
        /\ PutFits(file, tx.key, tx.trace)
        /\ tx.key = k \/ file.byKey[tx.key] # None}

\* No trace is put once one is deleted.
PutsFirst(W) ==
    \/ W \in Seq({tx \in Tx : tx.op # "delete"})
    \/ W # <<>> /\ Tail(W) \in Seq({tx \in Tx : tx.op # "put"})

WritesFit(file, W) ==
    /\ PutsFirst(W)
    /\ \E k \in MediaKey \cup {None} : W \in Seq(FitTx(file, k))

-----------------------------------------------------------------------------
(* A transaction more. *)

\* A put of a trace that may be put takes no grab from another one.
LEMMA PutKeepsGranted ==
    ASSUME NEW file \in File, NEW k \in MediaKey, NEW s \in TraceState,
           file.byKey[k] = None => MayAppear(file, k),
           NEW j \in MediaKey, j = k \/ file.byKey[j] # None,
           NEW d, Granted(file, j, d)
    PROVE  Granted(Committed(file, PutTx(k, s)), j, d)
<1> DEFINE new == Committed(file, PutTx(k, s))
<1>1. PICK e \in Event : GrabbedIn(file, e, j, d)
  BY DEF Granted
<1>2. e.Phase = "arr.grab" /\ e.DownloadID = d /\ e.Key \in MediaKey
  BY <1>1 DEF GrabbedIn
<1>3. new.byKey = [file.byKey EXCEPT ![k] = s]
  BY PutCommitted
<1>. HIDE DEF new
<1>4. CASE e.Key = j
  BY <1>2, <1>4 DEF GrabbedIn, Granted, new
<1>5. CASE e.Key # j
  <2>1. e.Key.Type = "tv" /\ SeriesKey(e.Key) = j /\ file.byKey[e.Key] = None
    BY <1>1, <1>5 DEF GrabbedIn
  <2>2. e.Key # k
    BY <1>5, <2>1 DEF MayAppear
  <2>3. new.byKey[e.Key] = None
    BY <1>2, <1>3, <2>1, <2>2 DEF File
  <2>4. GrabbedIn(new, e, j, d)
    BY <1>2, <2>1, <2>3 DEF GrabbedIn
  <2>. QED  BY <2>4 DEF Granted, new
<1>. QED  BY <1>4, <1>5

\* The fewer traces, the more may be granted.
LEMMA FewerGranted ==
    ASSUME NEW file, NEW new,
           \A j \in MediaKey : new.byKey[j] \in {file.byKey[j], None},
           NEW k, NEW d, Granted(file, k, d)
    PROVE  Granted(new, k, d)
<1>1. PICK e \in Event : GrabbedIn(file, e, k, d)
  BY DEF Granted
<1>2. e.Key \in MediaKey
  BY <1>1 DEF GrabbedIn
<1>3. file.byKey[e.Key] = None => new.byKey[e.Key] = None
  BY <1>2
<1>4. GrabbedIn(new, e, k, d)
  BY <1>1, <1>3 DEF GrabbedIn
<1>. QED  BY <1>4 DEF Granted

\* A put that fits.
LEMMA PutCommitFits ==
    ASSUME NEW file \in File, GrantedFile(file), NEW k \in MediaKey \cup {None},
           NEW j \in MediaKey, NEW s \in TraceState, PutTx(j, s) \in FitTx(file, k)
    PROVE  LET new == Committed(file, PutTx(j, s))
           IN  GrantedFile(new) /\ FitTx(file, k) \subseteq FitTx(new, k)
<1> DEFINE new == Committed(file, PutTx(j, s))
<1>1. PutFits(file, j, s) /\ (j = k \/ file.byKey[j] # None)
  BY DEF FitTx, PutTx
<1>2. file.byKey[j] = None => MayAppear(file, j)
  BY <1>1 DEF PutFits
<1>3. new.byKey = [file.byKey EXCEPT ![j] = s]
  BY PutCommitted
<1>4. new.byKey[j] = s /\ \A i \in MediaKey \ {j} : new.byKey[i] = file.byKey[i]
  BY <1>3 DEF File
<1>5. ASSUME NEW i \in MediaKey, i = j \/ file.byKey[i] # None, NEW d, Granted(file, i, d)
      PROVE  Granted(new, i, d)
  BY <1>2, <1>5, PutKeepsGranted
<1>. HIDE DEF new
<1>6. GrantedFile(new)
  <2>. SUFFICES ASSUME NEW i \in MediaKey, new.byKey[i] # None, new.byKey[i].DownloadID # None
                PROVE  Granted(new, i, new.byKey[i].DownloadID)
    BY DEF GrantedFile
  <2>1. CASE i = j
    BY <1>1, <1>4, <1>5, <2>1 DEF PutFits
  <2>2. CASE i # j
    <3>1. new.byKey[i] = file.byKey[i]
      BY <1>4, <2>2
    <3>. QED  BY <1>5, <3>1 DEF GrantedFile
  <2>. QED  BY <2>1, <2>2
<1>7. ASSUME NEW tx \in FitTx(file, k)
      PROVE  tx \in FitTx(new, k)
  <2>1. CASE tx.op # "put"
    BY <2>1 DEF FitTx
  <2>2. CASE tx.op = "put"
    <3> DEFINE i == tx.key
               u == tx.trace
    <3>1. tx \in Tx /\ i \in MediaKey
      BY <2>2 DEF FitTx, Tx
    <3>2. PutFits(file, i, u) /\ (i = k \/ file.byKey[i] # None)
      BY <2>2 DEF FitTx
    <3>. HIDE DEF i, u
    <3>3. i = j \/ file.byKey[i] # None \/ (i = k /\ file.byKey[j] # None)
      BY <1>1, <3>2
    <3>4. u.DownloadID # None => Granted(new, i, u.DownloadID)
      <4>. SUFFICES ASSUME u.DownloadID # None PROVE Granted(new, i, u.DownloadID)
        OBVIOUS
      <4>1. Granted(file, i, u.DownloadID)
        BY <3>2 DEF PutFits
      <4>2. CASE i = j \/ file.byKey[i] # None
        BY <1>5, <3>1, <4>1, <4>2
      <4>3. CASE file.byKey[j] # None
        <5>1. PICK e \in Event : GrabbedIn(file, e, i, u.DownloadID)
          BY <4>1 DEF Granted
        <5>2. e.Key \in MediaKey
          BY <5>1 DEF GrabbedIn
        <5>3. file.byKey[e.Key] = None => new.byKey[e.Key] = None
          BY <1>4, <4>3, <5>2
        <5>. QED  BY <5>1, <5>3 DEF GrabbedIn, Granted
      <4>. QED  BY <3>3, <4>2, <4>3
    <3>5. new.byKey[i] = None => MayAppear(new, i)
      <4>. SUFFICES ASSUME new.byKey[i] = None PROVE MayAppear(new, i)
        OBVIOUS
      <4>1. i # j /\ file.byKey[i] = None
        BY <1>4, <3>1
      <4>2. MayAppear(file, i) /\ file.byKey[j] # None
        BY <3>2, <3>3, <4>1 DEF PutFits
      <4>3. SeriesKey(i) \in MediaKey
        BY <3>1
      <4>4. file.byKey[SeriesKey(i)] = None => new.byKey[SeriesKey(i)] = None
        BY <1>4, <4>2, <4>3
      <4>. QED  BY <4>2, <4>4 DEF MayAppear
    <3>6. i = k \/ new.byKey[i] # None
      BY <1>4, <3>1, <3>2
    <3>. QED  BY <3>1, <3>4, <3>5, <3>6 DEF FitTx, PutFits, i, u
  <2>. QED  BY <2>1, <2>2
<1>. QED  BY <1>6, <1>7 DEF new

\* A deletion, and a record that comes or goes.
LEMMA OtherCommit ==
    ASSUME NEW file \in File, NEW tx \in Tx, tx.op # "put"
    PROVE  LET new == Committed(file, tx)
           IN  /\ \A j \in MediaKey : new.byKey[j] \in {file.byKey[j], None}
               /\ tx.op # "delete" => new.byKey = file.byKey
<1>1. CASE tx.op = "delete"
  <2>1. tx.key \in MediaKey
    BY <1>1 DEF Tx
  <2>2. Committed(file, tx).byKey = [file.byKey EXCEPT ![tx.key] = None]
    BY <1>1 DEF Committed, File
  <2>. QED  BY <1>1, <2>1, <2>2 DEF File
<1>2. CASE tx.op = "remember"
  <2>1. Committed(file, tx).byKey = file.byKey
    BY <1>2 DEF Committed, File
  <2>. QED  BY <1>2, <2>1
<1>3. CASE tx.op = "forget"
  <2>1. Committed(file, tx).byKey = file.byKey
    BY <1>3 DEF Committed, File
  <2>. QED  BY <1>3, <2>1
<1>. QED  BY <1>1, <1>2, <1>3 DEF Tx

LEMMA FewerGrantedFile ==
    ASSUME NEW file, GrantedFile(file), NEW new,
           \A j \in MediaKey : new.byKey[j] \in {file.byKey[j], None}
    PROVE  GrantedFile(new)
<1>. SUFFICES ASSUME NEW k \in MediaKey, new.byKey[k] # None, new.byKey[k].DownloadID # None
              PROVE  Granted(new, k, new.byKey[k].DownloadID)
  BY DEF GrantedFile
<1>1. new.byKey[k] = file.byKey[k]
  OBVIOUS
<1>2. Granted(file, k, new.byKey[k].DownloadID)
  BY <1>1 DEF GrantedFile
<1>. QED  BY <1>2, FewerGranted

\* What is still to be written fits the file that the first transaction
\* leaves.
LEMMA CommitFits ==
    ASSUME NEW file \in File, GrantedFile(file), NEW W, WritesFit(file, W), W # <<>>
    PROVE  /\ GrantedFile(Committed(file, Head(W)))
           /\ WritesFit(Committed(file, Head(W)), Tail(W))
<1> DEFINE tx == Head(W)
           new == Committed(file, tx)
           Kept == {x \in Tx : x.op # "delete"}
           Ends == {x \in Tx : x.op # "put"}
<1>1. PICK k \in MediaKey \cup {None} : W \in Seq(FitTx(file, k))
  BY DEF WritesFit
<1>2. tx \in FitTx(file, k) /\ Tail(W) \in Seq(FitTx(file, k))
  BY <1>1, HeadTailProperties
<1>3. tx \in Tx
  BY <1>2 DEF FitTx
<1>4. W \in Seq(Kept) \/ Tail(W) \in Seq(Ends)
  BY DEF WritesFit, PutsFirst
<1>5. PutsFirst(Tail(W))
  <2>1. CASE W \in Seq(Kept)
    <3>1. Tail(W) \in Seq(Kept)
      <4>. HIDE DEF Kept
      <4>. QED  BY <2>1, HeadTailProperties
    <3>. QED  BY <3>1 DEF PutsFirst
  <2>2. CASE Tail(W) \in Seq(Ends)
    <3>1. CASE Tail(W) = <<>>
      <4>1. <<>> \in Seq(Kept)
        BY EmptySeq
      <4>. QED  BY <3>1, <4>1 DEF PutsFirst
    <3>2. CASE Tail(W) # <<>>
      <4>1. Tail(Tail(W)) \in Seq(Ends)
        <5>. HIDE DEF Ends
        <5>. QED  BY <2>2, <3>2, HeadTailProperties
      <4>. QED  BY <3>2, <4>1 DEF PutsFirst
    <3>. QED  BY <3>1, <3>2
  <2>. QED  BY <1>4, <2>1, <2>2
<1>6. CASE tx.op = "put"
  <2>1. PICK j \in MediaKey, s \in TraceState : tx = PutTx(j, s)
    BY <1>3, <1>6 DEF Tx, PutTx
  <2>2. GrantedFile(new) /\ FitTx(file, k) \subseteq FitTx(new, k)
    BY <1>2, <2>1, PutCommitFits
  <2>3. Tail(W) \in Seq(FitTx(new, k))
    <3>. HIDE DEF new
    <3>. QED  BY <1>2, <2>2, SeqMonotonic
  <2>. QED  BY <1>5, <2>2, <2>3 DEF WritesFit
<1>7. CASE tx.op = "delete"
  <2>1. \A j \in MediaKey : new.byKey[j] \in {file.byKey[j], None}
    BY <1>3, <1>7, OtherCommit
  <2>2. Tail(W) \in Seq(Ends)
    <3>1. W \notin Seq(Kept)
      <4>1. tx \notin Kept
        BY <1>7
      <4>. HIDE DEF Kept
      <4>. QED  BY <4>1, HeadTailProperties
    <3>. QED  BY <1>4, <3>1
  <2>3. Ends \subseteq FitTx(new, k)
    BY DEF FitTx
  <2>4. Tail(W) \in Seq(FitTx(new, k))
    <3>. HIDE DEF new, Ends
    <3>. QED  BY <2>2, <2>3, SeqMonotonic
  <2>. HIDE DEF new
  <2>. QED  BY <1>5, <2>1, <2>4, FewerGrantedFile DEF WritesFit, new
<1>8. CASE tx.op \in {"remember", "forget"}
  <2>1. new.byKey = file.byKey
    BY <1>3, <1>8, OtherCommit
  <2>. HIDE DEF new
  <2>2. GrantedFile(new)
    BY <2>1 DEF GrantedFile, Granted, GrabbedIn
  <2>3. FitTx(new, k) = FitTx(file, k)
    BY <2>1 DEF FitTx, PutFits, MayAppear, Granted, GrabbedIn
  <2>. QED  BY <1>2, <1>5, <2>2, <2>3 DEF WritesFit, new
<1>. QED  BY <1>3, <1>6, <1>7, <1>8 DEF Tx

-----------------------------------------------------------------------------
(* The next process. *)

\* When no two keys are grabbed under one download id, one trace of the file
\* has it.
LEMMA GrantedOnce ==
    ASSUME OneGrabPerDownload, NEW file, NEW d,
           NEW j \in MediaKey, file.byKey[j] # None, Granted(file, j, d),
           NEW k \in MediaKey, file.byKey[k] # None, Granted(file, k, d)
    PROVE  j = k
<1>1. PICK e \in Event : GrabbedIn(file, e, j, d)
  BY DEF Granted
<1>2. PICK f \in Event : GrabbedIn(file, f, k, d)
  BY DEF Granted
<1>3. e.Key = f.Key
  BY <1>1, <1>2 DEF GrabbedIn, OneGrabPerDownload
<1>. QED  BY <1>1, <1>2, <1>3 DEF GrabbedIn

\* Restore puts back traces of the file, as they are in it.
LEMMA ReopenFits ==
    ASSUME disk \in GoodFile, GrantedFile(disk), Reopen
    PROVE  WritesFit(disk, writes')
<1> DEFINE K == {k \in MediaKey : disk.byKey[k] # None}
           n == Cardinality(K)
           Kept == {x \in Tx : x.op # "delete"}
<1>1. PICK o \in Orders(K) : writes' = [i \in 1 .. n |-> PutTx(o[i], Stored(o[i]))]
  BY DEF Reopen
<1>2. K \in SUBSET MediaKey /\ \A k \in K : k \in MediaKey /\ disk.byKey[k] # None
  OBVIOUS
<1>. HIDE DEF K
<1>3. n \in Nat /\ o \in [1 .. n -> K]
  BY <1>2, OrderType
<1>4. ASSUME NEW k \in K
      PROVE  PutTx(k, Stored(k)) \in FitTx(disk, None) /\ PutTx(k, Stored(k)) \in Kept
  <2>1. k \in MediaKey /\ disk.byKey[k] # None
    BY <1>2
  <2>2. Stored(k) \in TraceState /\ Stored(k).DownloadID = disk.byKey[k].DownloadID
    BY <2>1, StoredTrace
  <2>3. PutTx(k, Stored(k)) \in Tx
    BY <2>1, <2>2 DEF PutTx, Tx
  <2>4. PutFits(disk, k, Stored(k))
    BY <2>1, <2>2 DEF PutFits, GrantedFile
  <2>. QED  BY <2>1, <2>3, <2>4 DEF PutTx, FitTx
<1>. HIDE DEF n, Kept
<1>5. \A i \in 1 .. n : PutTx(o[i], Stored(o[i])) \in FitTx(disk, None) \cap Kept
  BY <1>3, <1>4
<1>6. writes' \in Seq(FitTx(disk, None)) /\ writes' \in Seq(Kept)
  BY <1>1, <1>3, <1>5
<1>. QED  BY <1>6 DEF WritesFit, PutsFirst, Kept

\* The traces and the index of a process that starts from the file.
LEMMA ReopenTables ==
    ASSUME disk \in GoodFile, Reopen
    PROVE  /\ Live' = {k \in MediaKey : disk.byKey[k] # None}
           /\ \A k \in Live' : byKey'[k].DownloadID = disk.byKey[k].DownloadID
           /\ \A d \in DownloadID :
                 LET claims == {k \in Live' : disk.byKey[k].DownloadID = d}
                 IN  IF claims = {} THEN byDLID'[d] = disk.byDLID[d]
                     ELSE byDLID'[d] \in claims
<1> DEFINE K == {k \in MediaKey : disk.byKey[k] # None}
           n == Cardinality(K)
<1>1. PICK o \in Orders(K) : byDLID' = IndexAfter(o, n)
  BY DEF Reopen
<1>2. ASSUME NEW k \in MediaKey
      PROVE  /\ k \in Live' <=> disk.byKey[k] # None
             /\ k \in Live' => byKey'[k].DownloadID = disk.byKey[k].DownloadID
  <2>1. byKey'[k] = IF disk.byKey[k] = None THEN None ELSE Stored(k)
    BY DEF Reopen
  <2>2. disk.byKey[k] # None =>
           Stored(k) # None /\ Stored(k).DownloadID = disk.byKey[k].DownloadID
    BY StoredTrace
  <2>. QED  BY <2>1, <2>2 DEF Live
<1>3. Live' \subseteq MediaKey
  BY DEF Live
<1>4. Live' = K
  BY <1>2, <1>3
<1>5. K \in SUBSET MediaKey
  OBVIOUS
<1>. HIDE DEF K
<1>6. n \in Nat /\ o \in [1 .. n -> K] /\ \A k \in K : \E i \in 1 .. n : o[i] = k
  BY <1>5, OrderType
<1>. HIDE DEF n
<1>7. ASSUME NEW d \in DownloadID
      PROVE  LET claims == {k \in K : disk.byKey[k].DownloadID = d}
             IN  IF claims = {} THEN byDLID'[d] = disk.byDLID[d] ELSE byDLID'[d] \in claims
  <2> DEFINE claims == {k \in K : disk.byKey[k].DownloadID = d}
             C == {i \in 1 .. n : disk.byKey[o[i]].DownloadID = d}
             last == CHOOSE i \in C : \A j \in C : j <= i
  <2>1. byDLID'[d] = IF C = {} THEN disk.byDLID[d] ELSE o[last]
    BY <1>1 DEF IndexAfter
  <2>2. C = {} <=> claims = {}
    BY <1>6
  <2>3. \A i \in C : o[i] \in claims
    BY <1>6
  <2>4. C \in SUBSET (1 .. n)
    OBVIOUS
  <2>. HIDE DEF C, claims
  <2>5. C # {} => last \in C
    BY <1>6, <2>4, LastClaim
  <2>. HIDE DEF last
  <2>6. IF claims = {} THEN byDLID'[d] = disk.byDLID[d] ELSE byDLID'[d] \in claims
    BY <2>1, <2>2, <2>3, <2>5
  <2>. QED  BY <2>6 DEF claims
<1>. QED  BY <1>2, <1>3, <1>4, <1>7 DEF K

\* Restore puts the traces back in any order, and indexes each of them.
LEMMA ReopenIndexed ==
    ASSUME OneGrabPerDownload, disk \in GoodFile, GrantedFile(disk), Reopen
    PROVE  IndexInv'
<1>1. ASSUME NEW k \in Live', byKey'[k].DownloadID # None
      PROVE  IndexedTrace(k)'
  <2> DEFINE d == byKey'[k].DownloadID
             claims == {j \in Live' : disk.byKey[j].DownloadID = d}
  <2>1. /\ k \in MediaKey /\ disk.byKey[k] # None
        /\ disk.byKey[k].DownloadID = d /\ d # None
    BY <1>1, ReopenTables
  <2>2. Granted(disk, k, d)
    BY <2>1 DEF GrantedFile
  <2>3. d \in DownloadID
    <3>1. disk.byKey[k] \in TraceState
      BY <2>1 DEF GoodFile, File
    <3>. QED  BY <2>1, <3>1 DEF TraceState
  <2>. HIDE DEF d
  <2>4. \A j \in claims : j = k
    <3>. SUFFICES ASSUME NEW j \in claims PROVE j = k
      OBVIOUS
    <3>1. j \in MediaKey /\ disk.byKey[j] # None /\ disk.byKey[j].DownloadID = d
      BY ReopenTables
    <3>2. Granted(disk, j, d)
      BY <2>1, <3>1 DEF GrantedFile
    <3>. QED  BY <2>1, <2>2, <3>1, <3>2, GrantedOnce
  <2>5. k \in claims
    BY <1>1, <2>1
  <2>6. byDLID'[d] \in claims
    BY <2>3, <2>5, ReopenTables
  <2>7. byDLID'[d] = k
    BY <2>4, <2>6
  <2>8. PICK e \in Event : GrabbedIn(disk, e, k, d)
    BY <2>2 DEF Granted
  <2>9. GrabbedFor(e, k, byKey[k].DownloadID)'
    BY <2>8, ReopenTables DEF GrabbedIn, GrabbedFor, d
  <2>10. byDLID'[byKey'[k].DownloadID] = k
    BY <2>7 DEF d
  <2>. QED  BY <2>9, <2>10 DEF IndexedTrace
<1>2. ASSUME NEW k \in Live', byKey'[k].DownloadID = None
      PROVE  IndexedTrace(k)'
  BY <1>2 DEF IndexedTrace
<1>. QED  BY <1>1, <1>2 DEF IndexInv

-----------------------------------------------------------------------------
(* What a handler writes fits the file it finds. *)

\* The transactions of a handler for the trace of the key k.
Fits(W, k) == PutsFirst(W) /\ W \in Seq(FitTx(Memory, k))

\* What a handler that deletes nothing is made of.
KeptTx(k) == {tx \in FitTx(Memory, k) : tx.op # "delete"}

LEMMA KeptFits ==
    ASSUME NEW k, NEW W \in Seq(KeptTx(k))
    PROVE  Fits(W, k)
<1> DEFINE Kept == {tx \in Tx : tx.op # "delete"}
           Fit == FitTx(Memory, k)
<1>1. KeptTx(k) \subseteq Kept /\ KeptTx(k) \subseteq Fit
  BY DEF KeptTx, FitTx
<1>2. W \in Seq(Kept) /\ W \in Seq(Fit)
  <2>. HIDE DEF Kept, Fit
  <2>. QED  BY <1>1, SeqMonotonic
<1>. QED  BY <1>2 DEF Fits, PutsFirst

\* Memory knows which grab gave a trace its download id, and so does a file
\* that is the same.
LEMMA MemoryGranted ==
    ASSUME IndexInv
    PROVE  GrantedFile(Memory)
<1>. SUFFICES ASSUME NEW k \in MediaKey, byKey[k] # None, byKey[k].DownloadID # None
              PROVE  Granted(Memory, k, byKey[k].DownloadID)
  BY DEF GrantedFile, Memory
<1>1. PICK e \in Event : GrabbedFor(e, k, byKey[k].DownloadID)
  BY DEF IndexInv, IndexedTrace, Live
<1>2. e.Key \in MediaKey
  BY <1>1 DEF GrabbedFor
<1>3. GrabbedIn(Memory, e, k, byKey[k].DownloadID)
  BY <1>1, <1>2 DEF GrabbedFor, GrabbedIn, Memory, Live
<1>. QED  BY <1>3 DEF Granted

\* A grab is of the trace it goes to.
LEMMA GrabGranted ==
    ASSUME NEW ev \in Event, ev.Phase = "arr.grab", ev.Key \in MediaKey
    PROVE  Granted(Memory, GrabTarget(ev.Key), ev.DownloadID)
<1>1. GrabbedIn(Memory, ev, GrabTarget(ev.Key), ev.DownloadID)
  BY DEF GrabbedIn, GrabTarget, ResolveTrace, Memory, Live
<1>. QED  BY <1>1 DEF Granted

\* A put of a trace in flight with the download id it has.
LEMMA UpdateFits ==
    ASSUME GrantedFile(Memory), NEW k \in Live, NEW s \in TraceState,
           s.DownloadID = byKey[k].DownloadID
    PROVE  PutTx(k, s) \in KeptTx(k)
<1>1. k \in MediaKey /\ byKey[k] # None
  BY DEF Live
<1>2. PutFits(Memory, k, s)
  BY <1>1 DEF PutFits, GrantedFile, Memory
<1>. QED  BY <1>1, <1>2 DEF KeptTx, FitTx, Tx, PutTx

\* A put of a trace for a key that resolves to none.
LEMMA NewFits ==
    ASSUME NEW k \in MediaKey, ResolveTrace(k) = None, NEW s \in TraceState,
           s.DownloadID # None => Granted(Memory, k, s.DownloadID)
    PROVE  PutTx(k, s) \in KeptTx(k)
<1>1. MayAppear(Memory, k)
  <2>1. k.Type = "tv" => SeriesKey(k) \notin Live
    BY UnresolvedIsNotLive DEF ResolveTrace
  <2>. QED  BY <2>1 DEF MayAppear, Memory, Live
<1>2. PutFits(Memory, k, s)
  BY <1>1 DEF PutFits
<1>. QED  BY <1>2 DEF KeptTx, FitTx, Tx, PutTx

\* A handler that updates a trace and no more.
LEMMA SamePutFits ==
    ASSUME TypeOK, GrantedFile(Memory), NEW k \in Live, NEW s \in TraceState, Put(k, s),
           s.DownloadID = byKey[k].DownloadID
    PROVE  Fits(<<PutTx(k, byKey'[k])>>, k)
<1>1. byKey'[k] = s
  BY PutEffect DEF Live
<1>2. PutTx(k, s) \in KeptTx(k)
  BY UpdateFits
<1>3. <<PutTx(k, s)>> \in Seq(KeptTx(k))
  BY <1>2
<1>. QED  BY <1>1, <1>3, KeptFits

LEMMA TouchFits ==
    ASSUME TypeOK, GrantedFile(Memory), NEW k \in Live, NEW s \in TraceState, NEW t \in Int,
           NEW S, Touch(k, s, t, S), s.DownloadID = byKey[k].DownloadID
    PROVE  Fits(<<PutTx(k, byKey'[k])>>, k)
<1> DEFINE u == [s EXCEPT !.UpdatedAt = t]
<1>1. u \in TraceState /\ u.DownloadID = s.DownloadID
  BY DEF TraceState
<1>2. Put(k, u)
  BY DEF Touch
<1>. HIDE DEF u
<1>. QED  BY <1>1, <1>2, SamePutFits

\* A handler that ends one.
LEMMA CloseFits ==
    ASSUME TypeOK, NEW k \in Live, NEW outcome \in Outcome, NEW t \in Int,
           CloseTraces({k}, outcome, t)
    PROVE  /\ Fits(CloseTxs(k), k)
           /\ CloseTxs(k) \in Seq(FitTx(Memory, k))
           /\ CloseTxs(k) \in Seq({tx \in Tx : tx.op # "put"})
<1> DEFINE d == DeleteTx(k, byKey[k].DownloadID)
           r == RememberTx(k, closed'[k])
           Ends == {tx \in Tx : tx.op # "put"}
           Fit == FitTx(Memory, k)
<1>1. k \in MediaKey /\ byKey[k].DownloadID \in DownloadID \cup {None}
  BY LiveTraceType DEF Live, TraceState
<1>2. d \in Ends /\ r \in Ends
  <2>1. byKey[k] \in TraceState
    BY LiveTraceType
  <2>2. closed'[k] = [TraceID |-> byKey[k].TraceID, Attempt |-> byKey[k].Attempt,
                      Outcome |-> outcome, ClosedAt |-> t]
    BY <1>1 DEF CloseTraces, RememberClosed
  <2>3. closed'[k] \in ClosedTrace
    BY <2>1, <2>2 DEF ClosedTrace, TraceState
  <2>. QED  BY <1>1, <2>3 DEF DeleteTx, RememberTx, Tx
<1>3. Ends \subseteq Fit
  BY DEF FitTx
<1>4. CloseTxs(k) = <<d, r>>
  BY DEF CloseTxs
<1>. HIDE DEF d, r, Ends, Fit
<1>5. <<d, r>> \in Seq(Ends) /\ <<d, r>> # <<>> /\ Tail(<<d, r>>) \in Seq(Ends)
  BY <1>2
<1>6. <<d, r>> \in Seq(Fit)
  BY <1>2, <1>3
<1>. QED  BY <1>4, <1>5, <1>6 DEF Fits, PutsFirst, Ends, Fit

\* openRoot.
LEMMA OpenFits ==
    ASSUME NEW ev, ev.Key \in MediaKey, ResolveTrace(ev.Key) = None, NEW t, NEW new,
           NewTrace(ev, t, new) \in TraceState
    PROVE  OpenTxs(ev, t, new) \in Seq(KeptTx(ev.Key))
<1>1. ForgetTx(ev.Key) \in KeptTx(ev.Key)
  BY DEF ForgetTx, KeptTx, FitTx, Tx
<1>2. NewTrace(ev, t, new).DownloadID = None
  BY DEF NewTrace
<1>3. PutTx(ev.Key, NewTrace(ev, t, new)) \in KeptTx(ev.Key)
  BY <1>2, NewFits
<1>. QED  BY <1>1, <1>3, OpenStarts

\* The download id that a grab leaves its trace with.
LEMMA GrabGives ==
    ASSUME TypeOK, NEW k \in MediaKey, NEW s \in TraceState, NEW root, NEW spans, NEW ev,
           NEW t, NEW new, GrabOnto(k, s, root, spans, ev, t, new)
    PROVE  byKey'[k].DownloadID = IF ev.DownloadID # None THEN ev.DownloadID ELSE s.DownloadID
<1> DEFINE replay == Replays(ev.DownloadID, s)
           u == [s EXCEPT
              !.Grab = new.grab,
              !.DownloadID = IF ev.DownloadID # None THEN ev.DownloadID ELSE @,
              !.Download = IF replay THEN new.download ELSE @,
              !.UpdatedAt = IF replay THEN pendingDL[ev.DownloadID] ELSE t]
<1>1. u.DownloadID = IF ev.DownloadID # None THEN ev.DownloadID ELSE s.DownloadID
  BY DEF TraceState
<1>2. Put(k, u)
  BY DEF GrabOnto
<1>. HIDE DEF u
<1>3. byKey'[k] = u
  BY <1>2 DEF Put, TypeOK, StoreTypeOK
<1>. QED  BY <1>1, <1>3

\* onGrabbed.  Whatever of it a crash leaves in the file has been grabbed.
LEMMA GrabFits ==
    ASSUME IInv, GrantedFile(Memory), NEW ev \in Event, ev.Phase = "arr.grab",
           ev.Key \in MediaKey, NEW t \in Int, NEW new \in NewIds,
           NEW k, k = GrabTarget(ev.Key), NEW before \in TraceState,
           before = IF ResolveTrace(ev.Key) = None THEN NewTrace(ev, t, new) ELSE byKey[k],
           NEW root, NEW spans, GrabOnto(k, before, root, spans, ev, t, new)
    PROVE  Fits(GrabTxs(ev, t, new), k)
<1> DEFINE r == ResolveTrace(ev.Key)
           s1 == Grabbed(byKey'[k], before, t)
           s2 == byKey'[k]
           p1 == PutTx(k, s1)
           p2 == PutTx(k, s2)
           U == IF r = None THEN OpenTxs(ev, t, new) ELSE <<>>
           W == IF s2.Download # before.Download THEN <<p2>> ELSE <<>>
           S == KeptTx(k)
<1>1. TypeOK /\ k \in MediaKey /\ (k \in Live <=> r # None)
  BY GrabTargetType DEF IInv
<1>2. s1 \in TraceState /\ s2 \in TraceState /\ s2.DownloadID = s1.DownloadID
  <2>1. s1 = Grabbed(s2, before, t) /\ s2 = byKey'[k]
    OBVIOUS
  <2>2. TypeOK /\ k \in MediaKey /\ GrabOnto(k, before, root, spans, ev, t, new)
    BY <1>1
  <2>. HIDE DEF s1, s2, p1, p2, U, W, S, r
  <2>. QED  BY ONLY <2>1, <2>2, GrabPuts, before \in TraceState, ev \in Event, t \in Int,
                    new \in NewIds
<1>3. s2.DownloadID = IF ev.DownloadID # None THEN ev.DownloadID ELSE before.DownloadID
  BY <1>1, GrabGives
<1>4. k = IF r = None THEN ev.Key ELSE r
  BY DEF GrabTarget
<1>5. GrabTxs(ev, t, new) = (U \o <<p1>>) \o W
  BY <1>4 DEF GrabTxs, Grabbed
<1>6. Granted(Memory, k, ev.DownloadID)
  BY GrabGranted
<1>. HIDE DEF s1, s2, r
<1>7. ASSUME NEW s \in TraceState, s.DownloadID = s2.DownloadID
      PROVE  PutTx(k, s) \in S
  <2>1. CASE r = None
    <3>1. before.DownloadID = None
      BY <2>1 DEF NewTrace, r
    <3>2. s.DownloadID # None => Granted(Memory, k, s.DownloadID)
      BY <1>3, <1>6, <1>7, <3>1
    <3>3. ResolveTrace(k) = None
      BY <1>4, <2>1 DEF r
    <3>. QED  BY <1>1, <3>2, <3>3, NewFits
  <2>2. CASE r # None
    <3>1. k \in Live /\ before = byKey[k] /\ byKey[k] # None
      BY <1>1, <2>2 DEF r, Live
    <3>2. s.DownloadID # None => Granted(Memory, k, s.DownloadID)
      BY <1>1, <1>3, <1>6, <1>7, <3>1 DEF GrantedFile, Memory
    <3>3. PutFits(Memory, k, s)
      BY <3>1, <3>2 DEF PutFits, Memory
    <3>. QED  BY <1>1, <3>3 DEF KeptTx, FitTx, Tx, PutTx
  <2>. QED  BY <2>1, <2>2
<1>8. p1 \in S /\ p2 \in S
  BY <1>2, <1>7
<1>9. U \in Seq(S)
  <2>1. CASE r = None
    BY <1>4, <2>1, OpenFits DEF r
  <2>2. CASE r # None
    BY <2>2
  <2>. QED  BY <2>1, <2>2
<1>. HIDE DEF p1, p2, U, S
<1>10. <<p1>> \in Seq(S) /\ W \in Seq(S)
  BY <1>8
<1>. HIDE DEF W
<1>11. (U \o <<p1>>) \o W \in Seq(S)
  BY <1>9, <1>10, ConcatProperties
<1>. QED  BY <1>5, <1>11, KeptFits DEF S

\* onImported: a put, and the end of an orphan.
LEMMA ImportFits ==
    ASSUME TypeOK, GrantedFile(Memory), NEW k \in Live, NEW t \in Int,
           IsOrphan(byKey[k]) => CloseTraces({k}, "available", t)
    PROVE  Fits(ImportTxs(k, t), k)
<1> DEFINE u == [byKey[k] EXCEPT !.Grab = None, !.Download = None, !.UpdatedAt = t]
           p == PutTx(k, u)
           V == CloseTxs(k)
           Ends == {tx \in Tx : tx.op # "put"}
           Fit == FitTx(Memory, k)
<1>1. byKey[k] \in TraceState
  BY LiveTraceType
<1>2. u \in TraceState /\ u.DownloadID = byKey[k].DownloadID
  BY <1>1 DEF TraceState
<1>. HIDE DEF u
<1>3. p \in KeptTx(k)
  BY <1>2, UpdateFits
<1>4. CASE ~IsOrphan(byKey[k])
  <2>1. ImportTxs(k, t) = <<p>> \o <<>>
    BY <1>4 DEF ImportTxs, u
  <2>. HIDE DEF p
  <2>2. <<p>> \o <<>> \in Seq(KeptTx(k))
    BY <1>3
  <2>. QED  BY <2>1, <2>2, KeptFits
<1>5. CASE IsOrphan(byKey[k])
  <2>1. ImportTxs(k, t) = <<p>> \o V
    BY <1>5 DEF ImportTxs, u
  <2>2. V \in Seq(Fit) /\ V \in Seq(Ends)
    <3>1. "available" \in Outcome
      BY DEF Outcome
    <3>. QED  BY <1>5, <3>1, CloseFits
  <2>3. p \in Fit
    BY <1>3 DEF KeptTx
  <2>. HIDE DEF p, V, Ends, Fit
  <2>4. <<p>> \o V \in Seq(Fit)
    <3>1. <<p>> \in Seq(Fit)
      BY <2>3
    <3>. QED  BY <2>2, <3>1, ConcatProperties
  <2>5. <<p>> \o V # <<>> /\ Tail(<<p>> \o V) = V
    BY <2>2
  <2>6. PutsFirst(<<p>> \o V)
    <3> DEFINE W == <<p>> \o V
    <3>1. W # <<>> /\ Tail(W) \in Seq(Ends)
      BY <2>2, <2>5
    <3>. HIDE DEF W
    <3>2. PutsFirst(W)
      BY <3>1 DEF PutsFirst, Ends
    <3>. QED  BY <3>2 DEF W
  <2>. QED  BY <2>1, <2>4, <2>6 DEF Fits, Fit
<1>. QED  BY <1>4, <1>5

\* Nothing to write.
LEMMA NothingFits == WritesFit(Memory, <<>>)
<1>1. <<>> \in Seq(KeptTx(None))
  BY EmptySeq
<1>. QED  BY <1>1, KeptFits DEF Fits, WritesFit

\* Engine.Process, handler by handler.
LEMMA EventFits ==
    ASSUME IInv, GrantedFile(Memory), NEW ev \in Event, NEW t \in Int, NEW new \in NewIds,
           Process(ev, t, new)
    PROVE  WritesFit(Memory, IF AlreadySeen(DedupKeyOf(ev), t) THEN <<>>
                             ELSE EventTxs(ev, t, new))
<1> DEFINE W == EventTxs(ev, t, new)
           seen == AlreadySeen(DedupKeyOf(ev), t)
           k == ResolveTrace(ev.Key)
           j == GetByDownloadID(ev.DownloadID)
<1>. SUFFICES ASSUME ~seen PROVE WritesFit(Memory, W)
  BY NothingFits
<1>1. TypeOK
  BY DEF IInv
<1>2. ASSUME NEW i \in MediaKey, Fits(W, i) PROVE WritesFit(Memory, W)
  BY <1>2 DEF Fits, WritesFit
<1>3. CASE W = <<>>
  BY <1>3, NothingFits
<1>4. ~DropDuplicate(ev, t)
  BY DEF DropDuplicate, RejectEvent
<1>5. CASE OnRequestOpened(ev, t, new) /\ k = None
  <2>1. ev.Phase = "request.opened" /\ ev.Key \in MediaKey /\ OpenRoot(ev, t, new)
    BY <1>5 DEF OnRequestOpened, Accept
  <2>2. W = OpenTxs(ev, t, new)
    BY <1>5, <2>1 DEF EventTxs, TraceTxs
  <2>3. NewTrace(ev, t, new) \in TraceState
    BY <1>1, <2>1, OpenRootType
  <2>4. W \in Seq(KeptTx(ev.Key))
    BY <1>5, <2>1, <2>2, <2>3, OpenFits
  <2>. HIDE DEF W
  <2>. QED  BY <1>2, <2>1, <2>4, KeptFits
<1>6. CASE (OnRequestApproved(ev, t) \/ OnManualNeeded(ev, t)) /\ k # None
  <2>1. /\ ev.Phase \in {"request.approved", "arr.manual"} /\ ev.Key \in MediaKey
        /\ Touch(k, byKey[k], t, {})
    BY <1>6 DEF OnRequestApproved, OnManualNeeded, Accept
  <2>2. W = <<PutTx(k, byKey'[k])>>
    BY <1>6, <2>1 DEF EventTxs, TraceTxs
  <2>3. k \in Live /\ k \in MediaKey /\ byKey[k] \in TraceState
    BY <1>1, <1>6, <2>1, ResolvedIsLive, LiveTraceType DEF Live
  <2>4. Fits(<<PutTx(k, byKey'[k])>>, k)
    BY <1>1, <2>1, <2>3, TouchFits
  <2>. QED  BY <1>2, <2>2, <2>3, <2>4
<1>7. CASE OnRequestClosed(ev, t) /\ k # None
  <2>1. /\ ev.Phase = "request.closed" /\ ev.Key \in MediaKey /\ ev.Outcome \in Outcome
        /\ CloseTraces({k}, ev.Outcome, t)
    BY <1>7 DEF OnRequestClosed, Accept
  <2>2. W = CloseTxs(k)
    BY <1>7, <2>1 DEF EventTxs, TraceTxs
  <2>3. k \in Live /\ k \in MediaKey
    BY <1>7, <2>1, ResolvedIsLive DEF Live
  <2>4. Fits(CloseTxs(k), k)
    BY <1>1, <2>1, <2>3, CloseFits
  <2>. QED  BY <1>2, <2>2, <2>3, <2>4
<1>8. CASE OnGrabbed(ev, t, new)
  <2> DEFINE g == GrabTarget(ev.Key)
             before == IF k = None THEN NewTrace(ev, t, new) ELSE byKey[g]
  <2>1. ev.Phase = "arr.grab" /\ ev.Key \in MediaKey
    BY <1>8 DEF OnGrabbed, Accept
  <2>2. W = GrabTxs(ev, t, new)
    BY <2>1 DEF EventTxs, TraceTxs
  <2>3. g \in MediaKey
    BY <2>1, GrabTargetType
  <2>4. /\ before \in TraceState
        /\ \E root, spans : GrabOnto(g, before, root, spans, ev, t, new)
    <3>1. CASE k # None
      <4>1. g = k /\ k \in Live /\ byKey[k] \in TraceState
        BY <1>1, <2>1, <3>1, ResolvedIsLive, LiveTraceType DEF GrabTarget
      <4>2. GrabOnto(k, byKey[k], ctxByKey[k].Root, open, ev, t, new)
        BY <1>8, <3>1 DEF OnGrabbed
      <4>. QED  BY <3>1, <4>1, <4>2
    <3>2. CASE k = None
      <4>1. /\ g = ev.Key /\ OpenRoot(ev, t, new)
            /\ GrabOnto(ev.Key, NewTrace(ev, t, new), new.root, SpansWithRoot(new), ev, t, new)
        BY <1>8, <3>2 DEF OnGrabbed, GrabTarget
      <4>2. NewTrace(ev, t, new) \in TraceState
        BY <1>1, <2>1, <4>1, OpenRootType
      <4>. QED  BY <3>2, <4>1, <4>2
    <3>. QED  BY <3>1, <3>2
  <2>5. before = IF ResolveTrace(ev.Key) = None THEN NewTrace(ev, t, new) ELSE byKey[g]
    OBVIOUS
  <2>. HIDE DEF g, before
  <2>6. Fits(GrabTxs(ev, t, new), g)
    BY <2>1, <2>4, <2>5, GrabFits DEF g
  <2>. QED  BY <1>2, <2>2, <2>3, <2>6
<1>9. CASE OnDownloadStart(ev, t, new) /\ j # None /\ byKey[j].Download = None
  <2> DEFINE s == [byKey[j] EXCEPT !.Download = new.download, !.UpdatedAt = t]
  <2>1. ev.Phase = "download.start" /\ StartDownload(j, t, new)
    BY <1>9 DEF OnDownloadStart, Accept
  <2>2. W = <<PutTx(j, byKey'[j])>>
    BY <1>9, <2>1 DEF EventTxs, TraceTxs
  <2>3. j \in Live /\ j \in MediaKey /\ byKey[j] \in TraceState /\ new.download \in SpanId
    BY <1>1, <1>9, DownloadIsLive, LiveTraceType, NewIdsAreFresh DEF Live
  <2>4. s \in TraceState /\ s.DownloadID = byKey[j].DownloadID
    BY <2>3 DEF TraceState
  <2>5. Put(j, s)
    BY <2>1 DEF StartDownload
  <2>. HIDE DEF s, j
  <2>6. Fits(<<PutTx(j, byKey'[j])>>, j)
    BY <1>1, <2>3, <2>4, <2>5, SamePutFits
  <2>. QED  BY <1>2, <2>2, <2>3, <2>6
<1>10. CASE OnDownloadDone(ev, t) /\ j # None
  <2> DEFINE s == [byKey[j] EXCEPT !.Download = None]
  <2>1. ev.Phase = "download.done" /\ Touch(j, s, t, {byKey[j].Download})
    BY <1>10 DEF OnDownloadDone, Accept
  <2>2. W = <<PutTx(j, byKey'[j])>>
    BY <1>10, <2>1 DEF EventTxs, TraceTxs
  <2>3. j \in Live /\ j \in MediaKey /\ byKey[j] \in TraceState
    BY <1>1, <1>10, DownloadIsLive, LiveTraceType DEF Live
  <2>4. s \in TraceState /\ s.DownloadID = byKey[j].DownloadID
    BY <2>3 DEF TraceState
  <2>. HIDE DEF s, j
  <2>5. Fits(<<PutTx(j, byKey'[j])>>, j)
    BY <1>1, <2>1, <2>3, <2>4, TouchFits
  <2>. QED  BY <1>2, <2>2, <2>3, <2>5
<1>11. CASE OnImported(ev, t) /\ k # None
  <2>1. /\ ev.Phase = "arr.import" /\ ev.Key \in MediaKey
        /\ IsOrphan(byKey[k]) => CloseTraces({k}, "available", t)
    BY <1>11 DEF OnImported, Accept
  <2>2. W = ImportTxs(k, t)
    BY <1>11, <2>1 DEF EventTxs, TraceTxs
  <2>3. k \in Live /\ k \in MediaKey
    BY <1>11, <2>1, ResolvedIsLive DEF Live
  <2>4. Fits(ImportTxs(k, t), k)
    BY <1>1, <2>1, <2>3, ImportFits
  <2>. QED  BY <1>2, <2>2, <2>3, <2>4
<1>12. CASE k = None /\ \/ OnRequestApproved(ev, t) \/ OnManualNeeded(ev, t)
                        \/ OnRequestClosed(ev, t) \/ OnImported(ev, t)
  <2>1. ev.Phase \in {"request.approved", "arr.manual", "request.closed", "arr.import"}
    BY <1>12 DEF OnRequestApproved, OnManualNeeded, OnRequestClosed, OnImported, Accept
  <2>. QED  BY <1>3, <1>12, <2>1 DEF EventTxs, TraceTxs
<1>13. CASE OnRequestOpened(ev, t, new) /\ k # None
  BY <1>3, <1>13 DEF OnRequestOpened, Accept, EventTxs, TraceTxs
<1>14. CASE OnDownloadStart(ev, t, new) /\ (j = None \/ byKey[j].Download # None)
  BY <1>3, <1>14 DEF OnDownloadStart, Accept, EventTxs, TraceTxs
<1>15. CASE OnDownloadDone(ev, t) /\ j = None
  BY <1>3, <1>15 DEF OnDownloadDone, Accept, EventTxs, TraceTxs
<1>. HIDE DEF W, j, k
<1>. QED  BY <1>4, <1>5, <1>6, <1>7, <1>8, <1>9, <1>10, <1>11, <1>12, <1>13, <1>14, <1>15
          DEF Process

-----------------------------------------------------------------------------
(* The file stays one that memory can be rebuilt from, through all that is  *)
(* still to be written and whatever half of it a crash leaves.              *)

FileGranted == GrantedFile(disk) /\ WritesFit(disk, writes)

\* A handler starts on the file that the last one left.
LEMMA HandlerGranted ==
    ASSUME FileGranted, disk = Memory, disk' = disk, WritesFit(Memory, writes')
    PROVE  FileGranted'
BY DEF FileGranted

\* Engine.Process, from a webhook or a script.
LEMMA ReceiveGranted ==
    ASSUME DurableInv, FileGranted, Receive
    PROVE  FileGranted' /\ IndexEffect
<1>1. IInv /\ TypeOK /\ clock \in Int
  BY DEF DurableInv, IInv, TypeOK
<1>2. disk = Memory /\ disk' = disk
  BY IdleFile DEF Receive
<1>3. PICK new \in NewIds, ev \in Event : \E t \in Stamps(ev) :
         /\ Process(ev, t, new)
         /\ writes' = IF AlreadySeen(DedupKeyOf(ev), t) THEN <<>> ELSE EventTxs(ev, t, new)
  BY DEF Receive
<1>4. PICK t \in Stamps(ev) :
         /\ Process(ev, t, new)
         /\ writes' = IF AlreadySeen(DedupKeyOf(ev), t) THEN <<>> ELSE EventTxs(ev, t, new)
  BY <1>3
<1>5. t \in Int
  BY <1>1 DEF Stamps
<1>6. IndexEffect
  BY <1>1, <1>4, <1>5, ProcessEffect
<1>7. GrantedFile(Memory)
  BY <1>2 DEF FileGranted
<1>8. WritesFit(Memory, writes')
  BY <1>1, <1>4, <1>5, <1>7, EventFits
<1>. QED  BY <1>2, <1>6, <1>8, HandlerGranted

\* Engine.NoteQueueIssue, from a poller.
LEMMA ReportStallGranted ==
    ASSUME DurableInv, FileGranted, ReportStall
    PROVE  FileGranted' /\ IndexEffect
<1>1. TypeOK /\ clock \in Int
  BY DEF DurableInv, IInv, TypeOK
<1>2. disk = Memory /\ disk' = disk
  BY IdleFile DEF ReportStall
<1>3. PICK d \in DownloadID, t \in (clock - Lag) .. clock :
         /\ NoteIssue(d, t)
         /\ writes' = <<PutTx(GetByDownloadID(d), byKey'[GetByDownloadID(d)])>>
  BY DEF ReportStall
<1> DEFINE k == GetByDownloadID(d)
<1>4. Touch(k, byKey[k], t, {}) /\ writes' = <<PutTx(k, byKey'[k])>>
  BY <1>3 DEF NoteIssue
<1>5. k \in Live /\ k \in MediaKey /\ byKey[k] \in TraceState /\ t \in Int
  BY <1>1, <1>3, DownloadIsLive, LiveTraceType DEF NoteIssue, Live
<1>. HIDE DEF k
<1>6. IndexEffect
  BY <1>1, <1>4, <1>5, TouchEffect
<1>7. GrantedFile(Memory)
  BY <1>2 DEF FileGranted
<1>8. Fits(writes', k)
  BY <1>1, <1>4, <1>5, <1>7, TouchFits
<1>9. WritesFit(Memory, writes')
  BY <1>5, <1>8 DEF Fits, WritesFit
<1>. QED  BY <1>2, <1>6, <1>9, HandlerGranted

\* One round of Sweep.
LEMMA SweepOneGranted ==
    ASSUME DurableInv, FileGranted, SweepOne
    PROVE  FileGranted' /\ IndexEffect
<1>1. TypeOK /\ clock \in Int /\ "timeout" \in Outcome
  BY DEF DurableInv, IInv, TypeOK, Outcome
<1>2. disk = Memory /\ disk' = disk
  BY LeadsEnd DEF DurableInv, SweepOne
<1>3. PICK k \in sweeping : CloseTraces({k}, "timeout", clock) /\ writes' = CloseTxs(k)
  BY DEF SweepOne
<1>4. k \in Live /\ k \in MediaKey
  BY DEF DurableInv, Live
<1>5. IndexEffect
  BY <1>3, <1>4, CloseEffect
<1>6. Fits(writes', k)
  BY <1>1, <1>3, <1>4, CloseFits
<1>7. WritesFit(Memory, writes')
  BY <1>4, <1>6 DEF Fits, WritesFit
<1>. QED  BY <1>2, <1>5, <1>7, HandlerGranted

\* A transaction is done.
LEMMA CommitGranted ==
    ASSUME DurableInv, FileGranted, Commit
    PROVE  FileGranted' /\ IndexEffect
<1>1. disk \in File /\ writes # <<>>
  BY LeadsGood DEF DurableInv, GoodFile, Commit
<1>2. /\ disk' = Committed(disk, Head(writes)) /\ writes' = Tail(writes)
      /\ UNCHANGED <<byKey, byDLID>>
  BY DEF Commit, vars
<1>3. FileGranted'
  BY <1>1, <1>2, CommitFits DEF FileGranted
<1>. QED  BY <1>2, <1>3 DEF IndexEffect, LeavesIndex

\* The end of the process, at any moment, and the next one.
LEMMA ReopenGranted ==
    ASSUME DurableInv, FileGranted, Reopen
    PROVE  FileGranted' /\ disk \in GoodFile /\ GrantedFile(disk) /\ disk' = disk
<1>1. disk \in GoodFile /\ disk' = disk
  BY LeadsGood DEF DurableInv, Reopen
<1>. QED  BY <1>1, ReopenFits DEF FileGranted

\* Every step leaves such a file, and treats traces and index as the engine
\* does or as a new process.
LEMMA GrantedStep ==
    ASSUME DurableInv, FileGranted, [DurableNext]_durableVars
    PROVE  FileGranted' /\ (IndexEffect \/ Reopen)
<1>1. CASE BeginSweep \/ Pass \/ UNCHANGED durableVars
  <2>1. UNCHANGED <<byKey, byDLID>> /\ disk' = disk /\ writes' = writes
    BY <1>1 DEF BeginSweep, Pass, Tick, durableVars, vars
  <2>. QED  BY <2>1 DEF FileGranted, IndexEffect, LeavesIndex
<1>. QED  BY <1>1, ReceiveGranted, ReportStallGranted, SweepOneGranted, CommitGranted,
             ReopenGranted DEF DurableNext, Crash, Stop

\* The empty file.
LEMMA GrantedInit == DurableInit => FileGranted
<1>. SUFFICES ASSUME DurableInit PROVE FileGranted
  OBVIOUS
<1>1. IndexInv /\ disk = Memory /\ writes = <<>>
  BY DEF DurableInit, Init, StoreInit, IndexInv, Live, Memory
<1>. QED  BY <1>1, MemoryGranted, NothingFits DEF FileGranted

\* A process that died between any two transactions, and the one that starts
\* from what it left, find the trace of every download that is in flight, as
\* long as no two media keys are grabbed under one download id.
THEOREM IndexedAcrossCrashes == DurableSpec => []LiveDownloadIndexed
<1> DEFINE Inv == OneGrabPerDownload => IndexInv
<1>1. DurableInit => Inv
  BY DEF DurableInit, Init, StoreInit, IndexInv, Live
<1>2. DurableInv /\ FileGranted /\ Inv /\ [DurableNext]_durableVars => Inv' /\ FileGranted'
  <2>. SUFFICES ASSUME DurableInv, FileGranted, Inv, [DurableNext]_durableVars
                PROVE  Inv' /\ FileGranted'
    OBVIOUS
  <2>1. TypeOK
    BY DEF DurableInv, IInv
  <2>2. FileGranted' /\ (IndexEffect \/ Reopen)
    BY GrantedStep
  <2>3. ASSUME OneGrabPerDownload PROVE IndexInv'
    <3>1. CASE IndexEffect
      BY <2>1, <2>3, <3>1, EffectIndexInv
    <3>2. CASE Reopen
      BY <2>3, <3>2, ReopenGranted, ReopenIndexed
    <3>. QED  BY <2>2, <3>1, <3>2
  <2>. QED  BY <2>2, <2>3
<1>3. Inv => LiveDownloadIndexed
  BY DEF IndexInv, IndexedTrace, LiveDownloadIndexed
<1>. QED  BY <1>1, <1>2, <1>3, GrantedInit, DurableInvariance, PTL DEF DurableSpec

-----------------------------------------------------------------------------
(* Downloads keep to their media.  The index of the file may have entries   *)
(* of traces that are gone, and a crash may leave more of them.             *)

FileKeepsMedia == \A d \in DownloadID : disk.byDLID[d] # None => GrabOf(d, disk.byDLID[d])

\* What was granted was grabbed.
LEMMA GrantedIsGrabbed ==
    ASSUME NEW file, NEW k, NEW d, Granted(file, k, d)
    PROVE  GrabOf(d, k)
BY DEF Granted, GrabbedIn, GrabOf

\* A put writes the entry of a grab; a deletion clears one.
LEMMA CommitKeepsMedia ==
    ASSUME DurableInv, FileGranted, FileKeepsMedia, Commit
    PROVE  FileKeepsMedia'
<1> DEFINE tx == Head(writes)
<1>1. disk \in File /\ writes # <<>> /\ disk' = Committed(disk, tx)
  BY LeadsGood DEF DurableInv, GoodFile, Commit
<1>2. PICK k \in MediaKey \cup {None} : writes \in Seq(FitTx(disk, k))
  BY DEF FileGranted, WritesFit
<1>3. tx \in FitTx(disk, k)
  BY <1>1, <1>2, HeadTailProperties
<1>. HIDE DEF tx
<1>4. tx \in Tx
  BY <1>3 DEF FitTx
<1>5. CASE tx.op = "put"
  <2>1. tx.key \in MediaKey /\ tx.trace \in TraceState /\ tx = PutTx(tx.key, tx.trace)
    BY <1>4, <1>5, TxCases DEF DeleteTx, RememberTx, ForgetTx
  <2>2. disk'.byDLID = Indexed(disk.byDLID, tx.trace.DownloadID, tx.key)
    <3>1. \A j \in MediaKey, s \in TraceState :
             Committed(disk, PutTx(j, s)).byDLID = Indexed(disk.byDLID, s.DownloadID, j)
      BY <1>1, PutCommitted
    <3>. QED  BY <1>1, <2>1, <3>1
  <2>3. tx.trace.DownloadID # None => GrabOf(tx.trace.DownloadID, tx.key)
    BY <1>3, <1>5, GrantedIsGrabbed DEF FitTx, PutFits
  <2>. QED  BY <2>2, <2>3 DEF FileKeepsMedia, Indexed, GrabOf
<1>6. CASE tx.op = "delete"
  <2>1. disk'.byDLID = Indexed(disk.byDLID, tx.id, None)
    BY <1>1, <1>6 DEF Committed, File
  <2>. QED  BY <2>1 DEF FileKeepsMedia, Indexed, GrabOf
<1>7. CASE tx.op \in {"remember", "forget"}
  <2>1. disk'.byDLID = disk.byDLID
    BY <1>1, <1>7 DEF Committed, File
  <2>. QED  BY <2>1 DEF FileKeepsMedia, GrabOf
<1>. QED  BY <1>4, <1>5, <1>6, <1>7 DEF Tx

\* The traces and the entries of a new process are those of the file.
LEMMA ReopenKeepsMedia ==
    ASSUME DurableInv, FileGranted, FileKeepsMedia, Reopen
    PROVE  DownloadsKeepToTheirMedia'
<1>1. disk \in GoodFile /\ GrantedFile(disk)
  BY ReopenGranted
<1>2. ASSUME NEW k \in Live', disk.byKey[k].DownloadID # None
      PROVE  GrabOf(disk.byKey[k].DownloadID, k)
  <2>1. k \in MediaKey /\ disk.byKey[k] # None
    BY <1>1, ReopenTables
  <2>2. Granted(disk, k, disk.byKey[k].DownloadID)
    BY <1>1, <1>2, <2>1 DEF GrantedFile
  <2>. QED  BY <2>2, GrantedIsGrabbed
<1>3. ASSUME NEW k \in Live', byKey'[k].DownloadID # None
      PROVE  GrabOf(byKey'[k].DownloadID, k)
  BY <1>1, <1>2, <1>3, ReopenTables
<1>4. ASSUME NEW d \in DownloadID, byDLID'[d] # None
      PROVE  GrabOf(d, byDLID'[d])
  <2> DEFINE claims == {k \in Live' : disk.byKey[k].DownloadID = d}
  <2>1. CASE claims = {}
    <3>1. byDLID'[d] = disk.byDLID[d]
      BY <1>1, <2>1, ReopenTables
    <3>. QED  BY <1>4, <3>1 DEF FileKeepsMedia
  <2>2. CASE claims # {}
    <3>1. byDLID'[d] \in claims
      BY <1>1, <2>2, ReopenTables
    <3>. QED  BY <1>2, <3>1
  <2>. QED  BY <2>1, <2>2
<1>. QED  BY <1>3, <1>4 DEF DownloadsKeepToTheirMedia, GrabOf

\* No crash makes what happens to a download be told of other media.
THEOREM MediaAcrossCrashes == DurableSpec => []DownloadsKeepToTheirMedia
<1> DEFINE Inv == DownloadsKeepToTheirMedia /\ FileKeepsMedia
<1>1. DurableInit => Inv
  BY DEF DurableInit, Init, StoreInit, DownloadsKeepToTheirMedia, FileKeepsMedia, Live
<1>2. DurableInv /\ FileGranted /\ Inv /\ [DurableNext]_durableVars => Inv' /\ FileGranted'
  <2>. SUFFICES ASSUME DurableInv, FileGranted, Inv, [DurableNext]_durableVars
                PROVE  Inv' /\ FileGranted'
    OBVIOUS
  <2>1. TypeOK
    BY DEF DurableInv, IInv
  <2>2. FileGranted' /\ (IndexEffect \/ Reopen)
    BY GrantedStep
  <2>3. DownloadsKeepToTheirMedia'
    BY <2>1, <2>2, EffectKeepsMedia, ReopenKeepsMedia
  <2>4. CASE Commit
    BY <2>2, <2>3, <2>4, CommitKeepsMedia
  <2>5. CASE ~Commit
    <3>1. disk' = disk
      BY <2>5 DEF DurableNext, Receive, ReportStall, BeginSweep, SweepOne, Pass, Crash, Stop,
                  Reopen, durableVars
    <3>. QED  BY <2>2, <2>3, <3>1 DEF FileKeepsMedia, GrabOf
  <2>. QED  BY <2>4, <2>5
<1>. QED  BY <1>1, <1>2, GrantedInit, DurableInvariance, PTL DEF DurableSpec

=============================================================================
