---------------------------- MODULE DurableProofs ----------------------------
(***************************************************************************)
(* Proofs about the engine on the bolt store, for every set of keys,       *)
(* events and ids, and any crash between any two transactions: whatever    *)
(* half of a handler is in the file, the transactions still to come lead   *)
(* it to what memory holds, through files from which a new process can     *)
(* start.                                                                  *)
(***************************************************************************)
EXTENDS DurableEngine, EngineProofs, FiniteSetTheorems, SequenceTheorems

USE BackendAssumption, NoneAssumption, KeyAssumption, EventAssumption, TimeAssumption,
    BoltAssumption

-----------------------------------------------------------------------------
(* Files. *)

File ==
    [byKey : [MediaKey -> TraceState \cup {None}],
     byDLID : [DownloadID -> MediaKey \cup {None}],
     closed : [MediaKey -> ClosedTrace \cup {None}]]

\* The tables that the engine has in memory, as a file.
Memory == [byKey |-> byKey, byDLID |-> byDLID, closed |-> closed]

\* What a process that starts from the file relies on.
Consistent(file) ==
    \A k \in MediaKey : file.byKey[k] # None =>
        /\ file.closed[k] # None => file.closed[k].Attempt < file.byKey[k].Attempt
        /\ \A j \in MediaKey :
              /\ file.closed[j] # None => file.closed[j].TraceID # file.byKey[k].TraceID
              /\ file.byKey[j] # None /\ file.byKey[j].TraceID = file.byKey[k].TraceID
                    => j = k

GoodFile == {file \in File : Consistent(file)}

-----------------------------------------------------------------------------
(* Transactions. *)

Tx ==
    [op : {"put"}, key : MediaKey, trace : TraceState]
        \cup [op : {"delete"}, key : MediaKey, id : DownloadID \cup {None}]
        \cup [op : {"remember"}, key : MediaKey, record : ClosedTrace]
        \cup [op : {"forget"}, key : MediaKey]

\* A put keeps the identity of the trace it replaces, or brings one that no
\* other trace and no record has.
SoundPut(file, k, s) ==
    IF file.byKey[k] # None
    THEN s.TraceID = file.byKey[k].TraceID /\ s.Attempt = file.byKey[k].Attempt
    ELSE /\ file.closed[k] # None => file.closed[k].Attempt < s.Attempt
         /\ \A j \in MediaKey :
               /\ file.byKey[j] # None => file.byKey[j].TraceID # s.TraceID
               /\ file.closed[j] # None => file.closed[j].TraceID # s.TraceID

\* A record is written of a trace that is gone.
SoundRecord(file, k, c) ==
    /\ file.byKey[k] = None
    /\ \A j \in MediaKey : file.byKey[j] # None => file.byKey[j].TraceID # c.TraceID

Sound(file, tx) ==
    CASE tx.op = "put" -> SoundPut(file, tx.key, tx.trace)
      [] tx.op = "delete" -> file.byKey[tx.key] # None
      [] tx.op = "remember" -> SoundRecord(file, tx.key, tx.record)
      [] tx.op = "forget" -> TRUE

\* A put writes the trace and its entry in the index.
LEMMA PutCommitted ==
    ASSUME NEW file \in File, NEW k \in MediaKey, NEW s \in TraceState
    PROVE  /\ PutTx(k, s) \in Tx
           /\ Committed(file, PutTx(k, s)) \in File
           /\ Committed(file, PutTx(k, s)).byKey = [file.byKey EXCEPT ![k] = s]
           /\ Committed(file, PutTx(k, s)).byDLID = Indexed(file.byDLID, s.DownloadID, k)
           /\ Committed(file, PutTx(k, s)).closed = file.closed
<1>1. PutTx(k, s) \in Tx
  BY DEF PutTx, Tx
<1>2. Committed(file, PutTx(k, s)) =
         [byKey |-> [file.byKey EXCEPT ![k] = s],
          byDLID |-> Indexed(file.byDLID, s.DownloadID, k),
          closed |-> file.closed]
  BY DEF Committed, PutTx, File
<1>3. Indexed(file.byDLID, s.DownloadID, k) \in [DownloadID -> MediaKey \cup {None}]
  BY DEF Indexed, File
<1>. QED  BY <1>1, <1>2, <1>3 DEF File

\* A deletion takes the trace and the entry of its download id.
LEMMA DeleteCommitted ==
    ASSUME NEW file \in File, NEW k \in MediaKey, NEW d \in DownloadID \cup {None}
    PROVE  /\ DeleteTx(k, d) \in Tx
           /\ Committed(file, DeleteTx(k, d)) \in File
           /\ Committed(file, DeleteTx(k, d)).byKey = [file.byKey EXCEPT ![k] = None]
           /\ Committed(file, DeleteTx(k, d)).byDLID = Indexed(file.byDLID, d, None)
           /\ Committed(file, DeleteTx(k, d)).closed = file.closed
<1>1. DeleteTx(k, d) \in Tx
  BY DEF DeleteTx, Tx
<1>2. Committed(file, DeleteTx(k, d)) =
         [byKey |-> [file.byKey EXCEPT ![k] = None],
          byDLID |-> Indexed(file.byDLID, d, None),
          closed |-> file.closed]
  BY DEF Committed, DeleteTx, File
<1>3. Indexed(file.byDLID, d, None) \in [DownloadID -> MediaKey \cup {None}]
  BY DEF Indexed, File
<1>. QED  BY <1>1, <1>2, <1>3 DEF File

\* A record of a closed trace is written, and nothing else.
LEMMA RememberCommitted ==
    ASSUME NEW file \in File, NEW k \in MediaKey, NEW c \in ClosedTrace
    PROVE  /\ RememberTx(k, c) \in Tx
           /\ Committed(file, RememberTx(k, c)) \in File
           /\ Committed(file, RememberTx(k, c)).byKey = file.byKey
           /\ Committed(file, RememberTx(k, c)).byDLID = file.byDLID
           /\ Committed(file, RememberTx(k, c)).closed = [file.closed EXCEPT ![k] = c]
<1>1. RememberTx(k, c) \in Tx
  BY DEF RememberTx, Tx
<1>2. Committed(file, RememberTx(k, c)) =
         [byKey |-> file.byKey, byDLID |-> file.byDLID,
          closed |-> [file.closed EXCEPT ![k] = c]]
  BY DEF Committed, RememberTx, File
<1>. QED  BY <1>1, <1>2 DEF File

\* A record goes, and nothing else.
LEMMA ForgetCommitted ==
    ASSUME NEW file \in File, NEW k \in MediaKey
    PROVE  /\ ForgetTx(k) \in Tx
           /\ Committed(file, ForgetTx(k)) \in File
           /\ Committed(file, ForgetTx(k)).byKey = file.byKey
           /\ Committed(file, ForgetTx(k)).byDLID = file.byDLID
           /\ Committed(file, ForgetTx(k)).closed = [file.closed EXCEPT ![k] = None]
<1>1. ForgetTx(k) \in Tx
  BY DEF ForgetTx, Tx
<1>2. Committed(file, ForgetTx(k)) =
         [byKey |-> file.byKey, byDLID |-> file.byDLID,
          closed |-> [file.closed EXCEPT ![k] = None]]
  BY DEF Committed, ForgetTx, File
<1>. QED  BY <1>1, <1>2 DEF File

\* Sound transactions keep a file good.
LEMMA GoodPut ==
    ASSUME NEW file \in GoodFile, NEW k \in MediaKey, NEW s \in TraceState,
           SoundPut(file, k, s)
    PROVE  Committed(file, PutTx(k, s)) \in GoodFile
<1> DEFINE new == Committed(file, PutTx(k, s))
<1>1. file \in File /\ Consistent(file)
  BY DEF GoodFile
<1>2. new \in File /\ new.byKey = [file.byKey EXCEPT ![k] = s] /\ new.closed = file.closed
  BY <1>1, PutCommitted
<1>. HIDE DEF new
<1>3. new.byKey[k] = s /\ \A j \in MediaKey \ {k} : new.byKey[j] = file.byKey[j]
  BY <1>1, <1>2 DEF File
<1>4. Consistent(new)
  BY <1>1, <1>2, <1>3 DEF Consistent, SoundPut
<1>. QED  BY <1>2, <1>4 DEF GoodFile, new

\* ... a deletion whatever it deletes ...
LEMMA GoodDelete ==
    ASSUME NEW file \in GoodFile, NEW k \in MediaKey, NEW d \in DownloadID \cup {None}
    PROVE  Committed(file, DeleteTx(k, d)) \in GoodFile
<1> DEFINE new == Committed(file, DeleteTx(k, d))
<1>1. file \in File /\ Consistent(file)
  BY DEF GoodFile
<1>2. new \in File /\ new.byKey = [file.byKey EXCEPT ![k] = None] /\ new.closed = file.closed
  BY <1>1, DeleteCommitted
<1>. HIDE DEF new
<1>3. new.byKey[k] = None /\ \A j \in MediaKey \ {k} : new.byKey[j] = file.byKey[j]
  BY <1>1, <1>2 DEF File
<1>4. Consistent(new)
  BY <1>1, <1>2, <1>3 DEF Consistent
<1>. QED  BY <1>2, <1>4 DEF GoodFile, new

\* ... a record of a trace that is gone ...
LEMMA GoodRemember ==
    ASSUME NEW file \in GoodFile, NEW k \in MediaKey, NEW c \in ClosedTrace,
           SoundRecord(file, k, c)
    PROVE  Committed(file, RememberTx(k, c)) \in GoodFile
<1> DEFINE new == Committed(file, RememberTx(k, c))
<1>1. file \in File /\ Consistent(file)
  BY DEF GoodFile
<1>2. new \in File /\ new.byKey = file.byKey /\ new.closed = [file.closed EXCEPT ![k] = c]
  BY <1>1, RememberCommitted
<1>. HIDE DEF new
<1>3. new.closed[k] = c /\ \A j \in MediaKey \ {k} : new.closed[j] = file.closed[j]
  BY <1>1, <1>2 DEF File
<1>4. Consistent(new)
  BY <1>1, <1>2, <1>3 DEF Consistent, SoundRecord
<1>. QED  BY <1>2, <1>4 DEF GoodFile, new

\* ... and the removal of any record.
LEMMA GoodForget ==
    ASSUME NEW file \in GoodFile, NEW k \in MediaKey
    PROVE  Committed(file, ForgetTx(k)) \in GoodFile
<1> DEFINE new == Committed(file, ForgetTx(k))
<1>1. file \in File /\ Consistent(file)
  BY DEF GoodFile
<1>2. new \in File /\ new.byKey = file.byKey /\ new.closed = [file.closed EXCEPT ![k] = None]
  BY <1>1, ForgetCommitted
<1>. HIDE DEF new
<1>3. new.closed[k] = None /\ \A j \in MediaKey \ {k} : new.closed[j] = file.closed[j]
  BY <1>1, <1>2 DEF File
<1>4. Consistent(new)
  BY <1>1, <1>2, <1>3 DEF Consistent
<1>. QED  BY <1>2, <1>4 DEF GoodFile, new

-----------------------------------------------------------------------------
(* Sequences of transactions. *)

\* The i-th transaction of W is sound in the file, and a trace is deleted in
\* the transaction before the one that remembers it, and in no other.
Legal(file, W, i) ==
    /\ Sound(file, W[i])
    /\ i < Len(W) => (W[i + 1].op = "remember" <=> W[i].op = "delete")
    /\ W[i].op = "delete" =>
          /\ i < Len(W)
          /\ W[i + 1].key = W[i].key
          /\ W[i + 1].record.TraceID = file.byKey[W[i].key].TraceID
          /\ W[i + 1].record.Attempt = file.byKey[W[i].key].Attempt

\* The files f that W leads through.
Passes(f, W) ==
    \A i \in 1 .. Len(W) :
        Legal(f[i - 1], W, i) /\ f[i] = Committed(f[i - 1], W[i])

\* From the file to the file "end", by the transactions W.
Leads(file, W, end) ==
    /\ W \in Seq(Tx)
    /\ \E f \in [0 .. Len(W) -> GoodFile] :
          f[0] = file /\ f[Len(W)] = end /\ Passes(f, W)

\* No transactions.
LEMMA LeadsNowhere ==
    ASSUME NEW file \in GoodFile
    PROVE  Leads(file, <<>>, file)
<1> DEFINE f == [i \in 0 .. 0 |-> file]
<1>1. f \in [0 .. Len(<<>>) -> GoodFile] /\ f[0] = file /\ Len(<<>>) = 0
  OBVIOUS
<1>2. Passes(f, <<>>)
  BY DEF Passes
<1>. HIDE DEF f
<1>. QED  BY <1>1, <1>2 DEF Leads

\* Nothing more to write: the file is at its end.
LEMMA LeadsEnd ==
    ASSUME NEW file, NEW end, Leads(file, <<>>, end)
    PROVE  file = end /\ file \in GoodFile
BY DEF Leads

\* The transactions lead from a file to another from which a process can start.
LEMMA LeadsGood ==
    ASSUME NEW file, NEW W, NEW end, Leads(file, W, end)
    PROVE  file \in GoodFile /\ end \in GoodFile
<1>1. Len(W) \in Nat
  BY LenProperties DEF Leads
<1>. QED  BY <1>1 DEF Leads

\* One transaction.
LEMMA LeadsOne ==
    ASSUME NEW file \in GoodFile, NEW tx \in Tx, Sound(file, tx), tx.op # "delete",
           Committed(file, tx) \in GoodFile
    PROVE  Leads(file, <<tx>>, Committed(file, tx))
<1> DEFINE f == [i \in 0 .. 1 |-> IF i = 0 THEN file ELSE Committed(file, tx)]
<1>1. <<tx>> \in Seq(Tx) /\ Len(<<tx>>) = 1 /\ <<tx>>[1] = tx
  OBVIOUS
<1>2. f \in [0 .. 1 -> GoodFile] /\ f[0] = file /\ f[1] = Committed(file, tx)
  OBVIOUS
<1>. HIDE DEF f
<1>3. Passes(f, <<tx>>)
  BY <1>1, <1>2 DEF Passes, Legal
<1>. QED  BY <1>1, <1>2, <1>3 DEF Leads

\* The end of a trace: its deletion and the record of it.
LEMMA LeadsClose ==
    ASSUME NEW file \in GoodFile, NEW k \in MediaKey, file.byKey[k] # None,
           NEW d \in DownloadID \cup {None}, NEW c \in ClosedTrace,
           c.TraceID = file.byKey[k].TraceID, c.Attempt = file.byKey[k].Attempt
    PROVE  Leads(file, <<DeleteTx(k, d), RememberTx(k, c)>>,
                 Committed(Committed(file, DeleteTx(k, d)), RememberTx(k, c)))
<1> DEFINE mid == Committed(file, DeleteTx(k, d))
           end == Committed(mid, RememberTx(k, c))
           W == <<DeleteTx(k, d), RememberTx(k, c)>>
           f == [i \in 0 .. 2 |-> IF i = 0 THEN file ELSE IF i = 1 THEN mid ELSE end]
<1>1. file \in File /\ Consistent(file)
  BY DEF GoodFile
<1>2. /\ mid \in GoodFile /\ mid \in File /\ mid.byKey = [file.byKey EXCEPT ![k] = None]
      /\ DeleteTx(k, d) \in Tx
  BY <1>1, DeleteCommitted, GoodDelete
<1>3. SoundRecord(mid, k, c)
  <2>. HIDE DEF mid
  <2>. QED  BY <1>1, <1>2 DEF SoundRecord, Consistent, File
<1>4. end \in GoodFile /\ RememberTx(k, c) \in Tx
  BY <1>2, <1>3, RememberCommitted, GoodRemember
<1>5. W \in Seq(Tx) /\ Len(W) = 2 /\ W[1] = DeleteTx(k, d) /\ W[2] = RememberTx(k, c)
  BY <1>2, <1>4
<1>6. Sound(file, W[1]) /\ Sound(mid, W[2])
  BY <1>3, <1>5 DEF Sound, DeleteTx, RememberTx
<1>7. f \in [0 .. 2 -> GoodFile] /\ f[0] = file /\ f[1] = mid /\ f[2] = end
  BY <1>2, <1>4
<1>8. Committed(file, W[1]) = mid /\ Committed(mid, W[2]) = end
  BY <1>5
<1>. HIDE DEF f, mid, end, W
<1>9. Legal(file, W, 1) /\ Legal(mid, W, 2)
  BY <1>5, <1>6 DEF Legal, DeleteTx, RememberTx
<1>10. Passes(f, W)
  BY <1>5, <1>7, <1>8, <1>9 DEF Passes
<1>11. Leads(file, W, end)
  BY <1>5, <1>7, <1>10 DEF Leads
<1>. QED  BY <1>11 DEF W, end, mid

\* One part of a handler after another.
LEMMA LeadsOn ==
    ASSUME NEW file, NEW mid, NEW end, NEW V, NEW W,
           Leads(file, V, mid), Leads(mid, W, end),
           W # <<>> => W[1].op # "remember"
    PROVE  Leads(file, V \o W, end)
<1> DEFINE n == Len(V)
           m == Len(W)
           X == V \o W
<1>1. PICK f \in [0 .. n -> GoodFile] : f[0] = file /\ f[n] = mid /\ Passes(f, V)
  BY DEF Leads
<1>2. PICK g \in [0 .. m -> GoodFile] : g[0] = mid /\ g[m] = end /\ Passes(g, W)
  BY DEF Leads
<1>3. V \in Seq(Tx) /\ W \in Seq(Tx) /\ n \in Nat /\ m \in Nat
  BY LenProperties DEF Leads
<1>4. /\ X \in Seq(Tx) /\ Len(X) = n + m
      /\ \A i \in 1 .. n + m : X[i] = IF i <= n THEN V[i] ELSE W[i - n]
  BY <1>3, ConcatProperties
<1> DEFINE h == [i \in 0 .. n + m |-> IF i <= n THEN f[i] ELSE g[i - n]]
<1>5. h \in [0 .. n + m -> GoodFile] /\ h[0] = file
  BY <1>1, <1>2, <1>3
<1>6. \A i \in 0 .. n : h[i] = f[i]
  BY <1>3
<1>7. \A i \in 0 .. m : h[n + i] = g[i]
  <2>. SUFFICES ASSUME NEW i \in 0 .. m PROVE h[n + i] = g[i]
    OBVIOUS
  <2>1. CASE i = 0
    BY <1>1, <1>2, <1>3, <2>1
  <2>2. CASE i # 0
    <3>1. n + i \in 0 .. n + m /\ ~(n + i <= n) /\ (n + i) - n = i
      BY <1>3, <2>2
    <3>. QED  BY <3>1
  <2>. QED  BY <2>1, <2>2
<1>8. h[n + m] = end
  BY <1>2, <1>3, <1>7
<1>9. m > 0 => W # <<>>
  BY EmptySeq
<1>. HIDE DEF h, X, n, m
<1>10. ASSUME NEW i \in 1 .. n + m
       PROVE  Legal(h[i - 1], X, i) /\ h[i] = Committed(h[i - 1], X[i])
  <2>1. CASE i < n
    <3>1. /\ i \in 1 .. Len(V) /\ i < Len(V) /\ X[i] = V[i] /\ X[i + 1] = V[i + 1]
          /\ h[i] = f[i] /\ h[i - 1] = f[i - 1] /\ i < Len(X)
      <4>1. /\ i \in 1 .. n /\ i + 1 \in 1 .. n + m /\ i <= n /\ i + 1 <= n
            /\ i \in 0 .. n /\ i - 1 \in 0 .. n /\ i < n + m
        BY <1>3, <2>1
      <4>2. X[i] = V[i] /\ X[i + 1] = V[i + 1]
        BY <1>4, <4>1
      <4>. QED  BY <1>4, <1>6, <2>1, <4>1, <4>2 DEF n
    <3>2. Legal(f[i - 1], V, i) /\ f[i] = Committed(f[i - 1], V[i])
      BY <1>1, <3>1 DEF Passes
    <3>. QED  BY <3>1, <3>2 DEF Legal
  <2>2. CASE i = n
    <3>1. /\ i \in 1 .. Len(V) /\ ~(i < Len(V)) /\ X[i] = V[i]
          /\ h[i] = f[i] /\ h[i - 1] = f[i - 1]
      <4>1. i <= n /\ i \in 0 .. n /\ i - 1 \in 0 .. n /\ i \in 1 .. n /\ ~(i < n)
        BY <1>3, <2>2
      <4>2. X[i] = V[i]
        BY <1>4, <4>1
      <4>3. h[i] = f[i] /\ h[i - 1] = f[i - 1]
        BY <1>6, <4>1
      <4>. QED  BY <4>1, <4>2, <4>3 DEF n
    <3>2. Legal(f[i - 1], V, i) /\ f[i] = Committed(f[i - 1], V[i])
      BY <1>1, <3>1 DEF Passes
    <3>3. i < Len(X) => X[i + 1] = W[1] /\ W[1].op # "remember"
      <4>. SUFFICES ASSUME i < Len(X) PROVE X[i + 1] = W[1] /\ W[1].op # "remember"
        OBVIOUS
      <4>1. m > 0 /\ i + 1 \in 1 .. n + m /\ ~(i + 1 <= n) /\ (i + 1) - n = 1
        BY <1>3, <1>4, <2>2
      <4>. QED  BY <1>4, <1>9, <4>1
    <3>. QED  BY <3>1, <3>2, <3>3 DEF Legal
  <2>3. CASE i > n
    <3>1. PICK j \in 1 .. m : i = n + j
      <4>1. i - n \in 1 .. m /\ i = n + (i - n)
        BY <1>3, <2>3
      <4>. QED  BY <4>1
    <3>2. /\ j \in 1 .. Len(W) /\ X[i] = W[j] /\ h[i] = g[j] /\ h[i - 1] = g[j - 1]
      <4>1. ~(i <= n) /\ i - n = j /\ i - 1 = n + (j - 1) /\ j - 1 \in 0 .. m /\ j \in 0 .. m
        BY <1>3, <3>1
      <4>. QED  BY <1>4, <1>7, <3>1, <4>1 DEF m
    <3>3. i < Len(X) <=> j < Len(W)
      BY <1>3, <1>4, <3>1 DEF m
    <3>4. j < Len(W) => X[i + 1] = W[j + 1]
      <4>. SUFFICES ASSUME j < Len(W) PROVE X[i + 1] = W[j + 1]
        OBVIOUS
      <4>1. i + 1 \in 1 .. n + m /\ ~(i + 1 <= n) /\ (i + 1) - n = j + 1
        BY <1>3, <3>1 DEF m
      <4>. QED  BY <1>4, <4>1
    <3>5. Legal(g[j - 1], W, j) /\ g[j] = Committed(g[j - 1], W[j])
      BY <1>2, <3>2 DEF Passes
    <3>. QED  BY <3>2, <3>3, <3>4, <3>5 DEF Legal
  <2>. QED  BY <1>3, <2>1, <2>2, <2>3
<1>11. Passes(h, X)
  BY <1>4, <1>10 DEF Passes
<1>. QED  BY <1>4, <1>5, <1>8, <1>11 DEF Leads, X

\* After the first transaction the rest still leads to the end.
LEMMA LeadsRest ==
    ASSUME NEW file, NEW end, NEW W, Leads(file, W, end), W # <<>>
    PROVE  /\ file \in GoodFile /\ Head(W) \in Tx /\ Head(W) = W[1]
           /\ Legal(file, W, 1)
           /\ Leads(Committed(file, Head(W)), Tail(W), end)
<1> DEFINE n == Len(W)
           X == Tail(W)
<1>1. PICK f \in [0 .. n -> GoodFile] : f[0] = file /\ f[n] = end /\ Passes(f, W)
  BY DEF Leads
<1>2. W \in Seq(Tx) /\ n \in Nat /\ n > 0
  BY EmptySeq, LenProperties DEF Leads
<1>3. /\ Head(W) \in Tx /\ Head(W) = W[1] /\ X \in Seq(Tx) /\ Len(X) = n - 1
      /\ \A i \in 1 .. n - 1 : X[i] = W[i + 1]
  BY <1>2, HeadTailProperties
<1>4. Legal(f[0], W, 1) /\ f[1] = Committed(f[0], W[1])
  BY <1>1, <1>2 DEF Passes
<1> DEFINE g == [i \in 0 .. n - 1 |-> f[i + 1]]
<1>5. /\ g \in [0 .. n - 1 -> GoodFile] /\ g[0] = f[1] /\ g[n - 1] = end
      /\ \A i \in 0 .. n - 1 : g[i] = f[i + 1]
  BY <1>1, <1>2
<1>. HIDE DEF g, X, n
<1>6. ASSUME NEW i \in 1 .. n - 1
      PROVE  Legal(g[i - 1], X, i) /\ g[i] = Committed(g[i - 1], X[i])
  <2>1. /\ i + 1 \in 1 .. Len(W) /\ g[i - 1] = f[i] /\ g[i] = f[i + 1] /\ X[i] = W[i + 1]
        /\ (i + 1) - 1 = i /\ (i < Len(X) <=> i + 1 < Len(W))
        /\ i < Len(X) => X[i + 1] = W[i + 2] /\ (i + 1) + 1 = i + 2
    BY <1>2, <1>3, <1>5 DEF n
  <2>2. Legal(f[i], W, i + 1) /\ f[i + 1] = Committed(f[i], W[i + 1])
    BY <1>1, <2>1 DEF Passes
  <2>. QED  BY <2>1, <2>2 DEF Legal
<1>7. Passes(g, X)
  BY <1>3, <1>6 DEF Passes
<1>8. Leads(f[1], X, end)
  BY <1>3, <1>5, <1>7 DEF Leads
<1>9. file \in GoodFile
  BY <1>1, <1>2
<1>. QED  BY <1>1, <1>3, <1>4, <1>8, <1>9 DEF X

-----------------------------------------------------------------------------
(* The tables in memory. *)

\* Put in memory writes the entry of the index that its transaction writes.
LEMMA PutIndexes ==
    ASSUME TypeOK, NEW k \in MediaKey, NEW s \in TraceState, Put(k, s)
    PROVE  byDLID' = Indexed(byDLID, s.DownloadID, k)
<1> DEFINE d == s.DownloadID
<1>1. d \in DownloadID \cup {None} /\ byDLID \in [DownloadID -> MediaKey \cup {None}]
  BY DEF TraceState, TypeOK, StoreTypeOK
<1>2. byDLID' = IF d = None THEN byDLID ELSE [byDLID EXCEPT ![d] = k]
  BY DEF Put
<1>. HIDE DEF d
<1>3. byDLID' = Indexed(byDLID, d, k)
  BY <1>1, <1>2 DEF Indexed
<1>. QED  BY <1>3 DEF d

\* Put in memory is the transaction of the same name.
LEMMA PutMirrors ==
    ASSUME TypeOK, NEW k \in MediaKey, NEW s \in TraceState, Put(k, s), closed' = closed
    PROVE  Memory' = Committed(Memory, PutTx(k, s)) /\ byKey'[k] = s
<1>1. byDLID' = Indexed(byDLID, s.DownloadID, k)
  BY PutIndexes
<1>2. byKey' = [byKey EXCEPT ![k] = s] /\ byKey'[k] = s
  BY DEF Put, TypeOK, StoreTypeOK
<1>. QED  BY <1>1, <1>2 DEF Memory, Committed, PutTx

\* What the engine's invariant says of the tables is what a file must be.
LEMMA MemoryIsGood == IInv => Memory \in GoodFile
<1>. SUFFICES ASSUME IInv PROVE Memory \in GoodFile
  OBVIOUS
<1>1. Memory \in File
  BY DEF IInv, TypeOK, StoreTypeOK, Memory, File
<1>2. Consistent(Memory)
  BY DEF IInv, TraceIdsUnique, AttemptsAscend, Consistent, Memory, Live, ClosedIds
<1>. QED  BY <1>1, <1>2 DEF GoodFile

\* A handler that only puts a trace of which it keeps the identity.
LEMMA UpdateLeads ==
    ASSUME IInv, NEW k \in Live, NEW s \in TraceState, Put(k, s), closed' = closed,
           s.TraceID = byKey[k].TraceID, s.Attempt = byKey[k].Attempt
    PROVE  Leads(Memory, <<PutTx(k, byKey'[k])>>, Memory')
<1>1. TypeOK /\ k \in MediaKey /\ byKey[k] # None /\ Memory \in GoodFile /\ Memory \in File
  BY MemoryIsGood DEF IInv, Live, GoodFile
<1>2. Memory' = Committed(Memory, PutTx(k, s)) /\ byKey'[k] = s
  BY <1>1, PutMirrors
<1>3. SoundPut(Memory, k, s)
  BY <1>1 DEF SoundPut, Memory
<1>4. PutTx(k, s) \in Tx /\ Committed(Memory, PutTx(k, s)) \in GoodFile
  BY <1>1, <1>3, PutCommitted, GoodPut
<1>5. Sound(Memory, PutTx(k, s)) /\ PutTx(k, s).op # "delete"
  BY <1>3 DEF Sound, PutTx
<1>. QED  BY <1>1, <1>2, <1>4, <1>5, LeadsOne

\* The end of a trace, from a file that differs from memory in the trace
\* itself at most, as after the put of an import.
LEMMA CloseLeads ==
    ASSUME IInv, NEW k \in Live, NEW outcome \in Outcome, NEW t \in Int,
           CloseTraces({k}, outcome, t), NEW file \in GoodFile,
           file.closed = closed, file.byKey[k] # None,
           file.byKey[k].TraceID = byKey[k].TraceID,
           file.byKey[k].Attempt = byKey[k].Attempt,
           \A j \in MediaKey \ {k} : file.byKey[j] = byKey[j],
           \A d \in DownloadID \ {byKey[k].DownloadID} : file.byDLID[d] = byDLID[d]
    PROVE  Leads(file, CloseTxs(k), Memory')
<1> DEFINE d == byKey[k].DownloadID
           c == closed'[k]
           mid == Committed(file, DeleteTx(k, d))
           end == Committed(mid, RememberTx(k, c))
<1>1. TypeOK /\ k \in MediaKey /\ byKey[k] \in TraceState /\ file \in File
  BY LiveTraceType DEF IInv, GoodFile
<1>2. /\ c \in ClosedTrace /\ c.TraceID = byKey[k].TraceID /\ c.Attempt = byKey[k].Attempt
      /\ closed' = [closed EXCEPT ![k] = c]
  BY <1>1 DEF TypeOK, StoreTypeOK, CloseTraces, RememberClosed, ClosedTrace, TraceState
<1>3. d \in DownloadID \cup {None}
  BY <1>1 DEF TraceState
<1>. HIDE DEF c, d
<1>4. Leads(file, <<DeleteTx(k, d), RememberTx(k, c)>>, end)
  BY <1>1, <1>2, <1>3, LeadsClose
<1>5. mid \in File /\ mid.byKey = [file.byKey EXCEPT ![k] = None]
      /\ mid.byDLID = Indexed(file.byDLID, d, None) /\ mid.closed = file.closed
  BY <1>1, <1>3, DeleteCommitted
<1>. HIDE DEF mid
<1>6. end \in File /\ end.byKey = mid.byKey /\ end.byDLID = mid.byDLID
      /\ end.closed = [mid.closed EXCEPT ![k] = c]
  <2>1. k \in MediaKey /\ c \in ClosedTrace /\ mid \in File
    BY <1>1, <1>2, <1>5
  <2>. QED  BY <2>1, RememberCommitted
<1>. HIDE DEF end
<1>7. byKey' = end.byKey
  BY <1>1, <1>5, <1>6 DEF CloseTraces, Delete, File, TypeOK, StoreTypeOK
<1>8. byDLID' = end.byDLID
  BY <1>1, <1>5, <1>6 DEF CloseTraces, Delete, Indexed, File, d
<1>9. closed' = end.closed
  BY <1>2, <1>5, <1>6
<1>10. Memory' = end
  BY <1>6, <1>7, <1>8, <1>9 DEF Memory, File
<1>. QED  BY <1>4, <1>10 DEF CloseTxs, c, d

-----------------------------------------------------------------------------
(* The transactions of each handler. *)

\* RecallClosed deletes an expired record in a transaction of its own.
LEMMA RecallLeads ==
    ASSUME IInv, NEW k \in MediaKey, NEW t \in Int, ForgetExpired(k, t)
    PROVE  Leads(Memory, RecallTxs(k, t), [Memory EXCEPT !.closed = closed'])
<1>1. Memory \in GoodFile /\ Memory \in File
  BY MemoryIsGood DEF GoodFile
<1> DEFINE c == closed[RecallKey(k)]
<1>2. CASE c # None /\ Expired(c, t)
  <2>1. closed' = [closed EXCEPT ![k] = None] /\ RecallTxs(k, t) = <<ForgetTx(k)>>
    BY <1>2 DEF ForgetExpired, RecallTxs
  <2>2. Committed(Memory, ForgetTx(k)) = [Memory EXCEPT !.closed = closed']
    BY <2>1 DEF Committed, ForgetTx, Memory
  <2>3. ForgetTx(k) \in Tx /\ Committed(Memory, ForgetTx(k)) \in GoodFile
    BY <1>1, ForgetCommitted, GoodForget
  <2>4. Sound(Memory, ForgetTx(k)) /\ ForgetTx(k).op # "delete"
    BY DEF Sound, ForgetTx
  <2>5. Leads(Memory, <<ForgetTx(k)>>, Committed(Memory, ForgetTx(k)))
    BY <1>1, <2>3, <2>4, LeadsOne
  <2>. QED  BY <2>1, <2>2, <2>5
<1>3. CASE ~(c # None /\ Expired(c, t))
  <2>1. closed' = closed /\ RecallTxs(k, t) = <<>>
    BY <1>3 DEF ForgetExpired, RecallTxs
  <2>2. [Memory EXCEPT !.closed = closed'] = Memory
    BY <2>1 DEF Memory
  <2>. QED  BY <1>1, <2>1, <2>2, LeadsNowhere
<1>. QED  BY <1>2, <1>3

\* The file after openRoot and the first put of the trace it opens.
Opened(ev, t, new) ==
    [byKey |-> [byKey EXCEPT ![ev.Key] = NewTrace(ev, t, new)],
     byDLID |-> byDLID, closed |-> closed']

\* The transactions of openRoot: an expired record goes, the trace is put.
LEMMA OpenLeads ==
    ASSUME IInv, NEW ev \in Event, ev.Key \in MediaKey, ev.Key \notin Live, NEW t \in Int,
           NEW new \in NewIds, OpenRoot(ev, t, new)
    PROVE  Leads(Memory, OpenTxs(ev, t, new), Opened(ev, t, new))
<1> DEFINE k == ev.Key
           s == NewTrace(ev, t, new)
           mid == [Memory EXCEPT !.closed = closed']
<1>1. TypeOK /\ s \in TraceState /\ k \in MediaKey
  BY OpenRootType DEF IInv
<1>2. ForgetExpired(k, t)
  BY DEF OpenRoot
<1>3. Leads(Memory, RecallTxs(k, t), mid)
  BY <1>1, <1>2, RecallLeads
<1>4. mid \in GoodFile
  BY <1>3, LeadsGood
<1>5. /\ mid.byKey = byKey /\ mid.byDLID = byDLID /\ mid.closed = closed'
      /\ mid = [byKey |-> byKey, byDLID |-> byDLID, closed |-> closed']
  BY DEF Memory
<1>6. s.TraceID = new.root /\ s.Attempt = NextAttempt(k, t) /\ s.DownloadID = None
  BY DEF NewTrace
<1>. HIDE DEF s, mid
<1>7. SoundPut(mid, k, s)
  <2>1. byKey[k] = None
    BY <1>1 DEF Live, k
  <2>2. closed'[k] # None => closed'[k].Attempt < s.Attempt
    BY <1>1, <1>2, <1>6, RecallNumbers
  <2>3. \A j \in MediaKey : byKey[j] # None => byKey[j].TraceID # s.TraceID
    BY <1>6, NewIdsAreFresh DEF Live
  <2>4. \A j \in MediaKey : closed'[j] # None => closed'[j].TraceID # s.TraceID
    <3>1. \A j \in MediaKey : closed'[j] \in {closed[j], None}
      BY <1>1, <1>2, RecallNumbers
    <3>. QED  BY <1>6, <3>1, NewIdsAreFresh DEF ClosedIds
  <2>. QED  BY <1>5, <2>1, <2>2, <2>3, <2>4 DEF SoundPut
<1>8. Committed(mid, PutTx(k, s)) = Opened(ev, t, new)
  <2>1. Indexed(byDLID, None, k) = byDLID
    BY <1>1 DEF Indexed, TypeOK, StoreTypeOK
  <2>. QED  BY <1>5, <1>6, <2>1 DEF Committed, PutTx, Opened, k, s
<1>9. PutTx(k, s) \in Tx /\ Committed(mid, PutTx(k, s)) \in GoodFile
  <2>1. mid \in File
    BY <1>4 DEF GoodFile
  <2>. QED  BY <1>1, <1>4, <1>7, <2>1, PutCommitted, GoodPut
<1>10. Sound(mid, PutTx(k, s)) /\ PutTx(k, s).op = "put"
  BY <1>7 DEF Sound, PutTx
<1>11. Leads(mid, <<PutTx(k, s)>>, Opened(ev, t, new))
  BY <1>4, <1>8, <1>9, <1>10, LeadsOne
<1>12. <<PutTx(k, s)>>[1].op # "remember"
  BY <1>10
<1>13. Leads(Memory, RecallTxs(k, t) \o <<PutTx(k, s)>>, Opened(ev, t, new))
  BY <1>3, <1>11, <1>12, LeadsOn
<1>. QED  BY <1>13 DEF OpenTxs, k, s

\* Two puts of one trace, of which the first gets a part of its changes: the
\* grab and the start it replays.
LEMMA PutTwiceLeads ==
    ASSUME NEW file \in GoodFile, NEW k \in MediaKey,
           NEW s1 \in TraceState, NEW s2 \in TraceState,
           file.byKey[k] # None,
           s1.TraceID = file.byKey[k].TraceID, s1.Attempt = file.byKey[k].Attempt,
           s2.TraceID = file.byKey[k].TraceID, s2.Attempt = file.byKey[k].Attempt,
           s2.DownloadID = s1.DownloadID, NEW twice \in BOOLEAN, ~twice => s1 = s2
    PROVE  Leads(file,
                 <<PutTx(k, s1)>> \o (IF twice THEN <<PutTx(k, s2)>> ELSE <<>>),
                 [byKey |-> [file.byKey EXCEPT ![k] = s2],
                  byDLID |-> Indexed(file.byDLID, s2.DownloadID, k),
                  closed |-> file.closed])
<1> DEFINE mid == Committed(file, PutTx(k, s1))
           end == [byKey |-> [file.byKey EXCEPT ![k] = s2],
                   byDLID |-> Indexed(file.byDLID, s2.DownloadID, k),
                   closed |-> file.closed]
<1>1. file \in File
  BY DEF GoodFile
<1>2. SoundPut(file, k, s1)
  BY DEF SoundPut
<1>3. /\ PutTx(k, s1) \in Tx /\ mid \in GoodFile /\ mid \in File
      /\ mid.byKey = [file.byKey EXCEPT ![k] = s1] /\ mid.closed = file.closed
      /\ mid.byDLID = Indexed(file.byDLID, s1.DownloadID, k)
  BY <1>1, <1>2, PutCommitted, GoodPut
<1>4. Sound(file, PutTx(k, s1)) /\ PutTx(k, s1).op # "delete"
  BY <1>2 DEF Sound, PutTx
<1>5. Leads(file, <<PutTx(k, s1)>>, mid)
  BY <1>3, <1>4, LeadsOne
<1>. HIDE DEF mid
<1>6. mid.byKey[k] = s1
  BY <1>1, <1>3 DEF File
<1>7. CASE twice
  <2>1. SoundPut(mid, k, s2)
    BY <1>6 DEF SoundPut
  <2>2. PutTx(k, s2) \in Tx /\ Committed(mid, PutTx(k, s2)) \in GoodFile
    BY <1>3, <2>1, PutCommitted, GoodPut
  <2>3. Sound(mid, PutTx(k, s2)) /\ PutTx(k, s2).op = "put"
    BY <2>1 DEF Sound, PutTx
  <2>4. Leads(mid, <<PutTx(k, s2)>>, Committed(mid, PutTx(k, s2)))
    BY <1>3, <2>2, <2>3, LeadsOne
  <2>5. Committed(mid, PutTx(k, s2)) = end
    <3>1. Indexed(mid.byDLID, s2.DownloadID, k) = Indexed(file.byDLID, s2.DownloadID, k)
      BY <1>3 DEF Indexed
    <3>2. [mid.byKey EXCEPT ![k] = s2] = [file.byKey EXCEPT ![k] = s2]
      BY <1>1, <1>3 DEF File
    <3>3. mid = [byKey |-> mid.byKey, byDLID |-> mid.byDLID, closed |-> mid.closed]
      BY <1>3 DEF File
    <3>4. Committed(mid, PutTx(k, s2)) =
             [byKey |-> [mid.byKey EXCEPT ![k] = s2],
              byDLID |-> Indexed(mid.byDLID, s2.DownloadID, k), closed |-> mid.closed]
      BY <3>3 DEF Committed, PutTx
    <3>. QED  BY <1>3, <3>1, <3>2, <3>4
  <2>6. <<PutTx(k, s2)>>[1].op # "remember"
    BY <2>3
  <2>. HIDE DEF end
  <2>7. Leads(file, <<PutTx(k, s1)>> \o <<PutTx(k, s2)>>, end)
    BY <1>5, <2>4, <2>5, <2>6, LeadsOn
  <2>. QED  BY <1>7, <2>7 DEF end
<1>8. CASE ~twice
  <2>1. mid = end
    <3>1. mid = [byKey |-> mid.byKey, byDLID |-> mid.byDLID, closed |-> mid.closed]
      BY <1>3 DEF File
    <3>. QED  BY <1>3, <1>8, <3>1
  <2>2. <<PutTx(k, s1)>> \o <<>> = <<PutTx(k, s1)>>
    OBVIOUS
  <2>. HIDE DEF end
  <2>. QED  BY <1>5, <1>8, <2>1, <2>2 DEF end
<1>. QED  BY <1>7, <1>8

\* What the first put of a grab has of the trace: not yet the replayed start.
Grabbed(s, before, t) == [s EXCEPT !.Download = before.Download, !.UpdatedAt = t]

\* onGrabbed puts the trace with its grab, and again if it replays a start.
LEMMA GrabPuts ==
    ASSUME TypeOK, NEW k \in MediaKey, NEW before \in TraceState, NEW root, NEW spans,
           NEW ev \in Event, NEW t \in Int, NEW new \in NewIds,
           GrabOnto(k, before, root, spans, ev, t, new), NEW s1, NEW s2,
           s1 = Grabbed(s2, before, t), s2 = byKey'[k]
    PROVE  /\ s1 \in TraceState /\ s2 \in TraceState
           /\ s1.TraceID = before.TraceID /\ s1.Attempt = before.Attempt
           /\ s2.TraceID = before.TraceID /\ s2.Attempt = before.Attempt
           /\ s2.DownloadID = s1.DownloadID
           /\ s2.Download = before.Download => s1 = s2
           /\ byKey' = [byKey EXCEPT ![k] = s2]
           /\ byDLID' = Indexed(byDLID, s2.DownloadID, k)
<1> DEFINE replay == Replays(ev.DownloadID, before)
           after  == [before EXCEPT
              !.Grab = new.grab,
              !.DownloadID = IF ev.DownloadID # None THEN ev.DownloadID ELSE @,
              !.Download = IF replay THEN new.download ELSE @,
              !.UpdatedAt = IF replay THEN pendingDL[ev.DownloadID] ELSE t]
<1>1. new.grab \in SpanId /\ new.download \in SpanId /\ new.download # None
  BY NewIdsAreFresh
<1>2. replay => pendingDL[ev.DownloadID] \in Int
  BY DEF TypeOK, Parked, Replays
<1>3. /\ after \in TraceState
      /\ after.TraceID = before.TraceID /\ after.Attempt = before.Attempt
      /\ after.Download = IF replay THEN new.download ELSE before.Download
      /\ after.UpdatedAt = IF replay THEN pendingDL[ev.DownloadID] ELSE t
  BY <1>1, <1>2 DEF TraceState
<1>4. Put(k, after)
  BY DEF GrabOnto
<1>5. replay => before.Download = None
  BY DEF Replays
<1>. HIDE DEF after, replay
<1>6. byKey' = [byKey EXCEPT ![k] = after] /\ s2 = after
  BY <1>4 DEF Put, TypeOK, StoreTypeOK
<1>7. byDLID' = Indexed(byDLID, after.DownloadID, k)
  BY <1>3, <1>4, PutIndexes
<1>8. /\ s1 \in TraceState /\ s1.TraceID = after.TraceID /\ s1.Attempt = after.Attempt
      /\ s1.DownloadID = after.DownloadID
  BY <1>3, <1>6 DEF TraceState, Grabbed
<1>9. ASSUME s2.Download = before.Download PROVE s1 = s2
  <2>1. ~replay
    BY <1>1, <1>3, <1>5, <1>6, <1>9
  <2>2. after.UpdatedAt = t /\ after.Download = before.Download
    BY <1>3, <2>1
  <2>. QED  BY <1>3, <1>6, <2>2 DEF TraceState, Grabbed
<1>. QED  BY <1>3, <1>6, <1>7, <1>8, <1>9

\* onGrabbed on a trace in flight.
LEMMA GrabLeads ==
    ASSUME IInv, NEW ev \in Event, ev.Key \in MediaKey, NEW t \in Int, NEW new \in NewIds,
           NEW k, k = ResolveTrace(ev.Key), k # None, NEW root, NEW spans,
           GrabOnto(k, byKey[k], root, spans, ev, t, new), closed' = closed
    PROVE  Leads(Memory, GrabTxs(ev, t, new), Memory')
<1> DEFINE s1 == Grabbed(byKey'[k], byKey[k], t)
           s2 == byKey'[k]
           twice == s2.Download # byKey[k].Download
<1>1. /\ TypeOK /\ k \in Live /\ k \in MediaKey /\ byKey[k] \in TraceState /\ byKey[k] # None
      /\ Memory \in GoodFile
  BY ResolvedIsLive, LiveTraceType, MemoryIsGood DEF IInv, Live
<1>2. /\ s1 \in TraceState /\ s2 \in TraceState
      /\ s1.TraceID = byKey[k].TraceID /\ s1.Attempt = byKey[k].Attempt
      /\ s2.TraceID = byKey[k].TraceID /\ s2.Attempt = byKey[k].Attempt
      /\ s2.DownloadID = s1.DownloadID
      /\ ~twice => s1 = s2
      /\ byKey' = [byKey EXCEPT ![k] = s2]
      /\ byDLID' = Indexed(byDLID, s2.DownloadID, k)
  <2>1. /\ s1 = Grabbed(s2, byKey[k], t)
        /\ s2 = byKey'[k] /\ (~twice <=> s2.Download = byKey[k].Download)
    OBVIOUS
  <2>. HIDE DEF s1, s2, twice
  <2>2. /\ s1 \in TraceState /\ s2 \in TraceState
        /\ s1.TraceID = byKey[k].TraceID /\ s1.Attempt = byKey[k].Attempt
        /\ s2.TraceID = byKey[k].TraceID /\ s2.Attempt = byKey[k].Attempt
        /\ s2.DownloadID = s1.DownloadID
        /\ s2.Download = byKey[k].Download => s1 = s2
        /\ byKey' = [byKey EXCEPT ![k] = s2]
        /\ byDLID' = Indexed(byDLID, s2.DownloadID, k)
    BY <1>1, <2>1, GrabPuts
  <2>. QED  BY <2>1, <2>2
<1>3. GrabTxs(ev, t, new) =
         <<>> \o <<PutTx(k, s1)>> \o (IF twice THEN <<PutTx(k, s2)>> ELSE <<>>)
  BY DEF GrabTxs, Grabbed
<1>4. <<>> \o <<PutTx(k, s1)>> = <<PutTx(k, s1)>>
  OBVIOUS
<1>5. Memory.byKey = byKey /\ Memory.byDLID = byDLID /\ Memory.closed = closed
  BY DEF Memory
<1>6. twice \in BOOLEAN
  OBVIOUS
<1>. HIDE DEF s1, s2, twice
<1>7. Leads(Memory, <<PutTx(k, s1)>> \o (IF twice THEN <<PutTx(k, s2)>> ELSE <<>>),
            [byKey |-> [Memory.byKey EXCEPT ![k] = s2],
             byDLID |-> Indexed(Memory.byDLID, s2.DownloadID, k), closed |-> Memory.closed])
  BY <1>1, <1>2, <1>5, <1>6, PutTwiceLeads
<1>8. Memory' = [byKey |-> [Memory.byKey EXCEPT ![k] = s2],
                 byDLID |-> Indexed(Memory.byDLID, s2.DownloadID, k),
                 closed |-> Memory.closed]
  BY <1>2, <1>5 DEF Memory
<1>. QED  BY <1>3, <1>4, <1>7, <1>8

\* onGrabbed without a trace: the orphan is put as soon as it is open.
LEMMA GrabOrphanLeads ==
    ASSUME IInv, NEW ev \in Event, ev.Key \in MediaKey, NEW t \in Int, NEW new \in NewIds,
           ResolveTrace(ev.Key) = None, OpenRoot(ev, t, new), NEW root, NEW spans,
           GrabOnto(ev.Key, NewTrace(ev, t, new), root, spans, ev, t, new)
    PROVE  Leads(Memory, GrabTxs(ev, t, new), Memory')
<1> DEFINE k == ev.Key
           s == NewTrace(ev, t, new)
           s1 == Grabbed(byKey'[k], s, t)
           s2 == byKey'[k]
           twice == s2.Download # s.Download
           file == Opened(ev, t, new)
           V == OpenTxs(ev, t, new)
           W == <<PutTx(k, s1)>> \o (IF twice THEN <<PutTx(k, s2)>> ELSE <<>>)
           end == [byKey |-> [file.byKey EXCEPT ![k] = s2],
                   byDLID |-> Indexed(file.byDLID, s2.DownloadID, k), closed |-> file.closed]
<1>1. TypeOK /\ k \in MediaKey /\ k \notin Live /\ s \in TraceState
  BY UnresolvedIsNotLive, OpenRootType DEF IInv
<1>2. Leads(Memory, V, file)
  BY <1>1, OpenLeads
<1>3. /\ file.byKey = [byKey EXCEPT ![k] = s] /\ file.byKey[k] = s
      /\ file.byDLID = byDLID /\ file.closed = closed'
  BY <1>1 DEF Opened, TypeOK, StoreTypeOK
<1>4. file \in GoodFile
  BY <1>2, LeadsGood
<1>5. GrabTxs(ev, t, new) =
         V \o <<PutTx(k, s1)>> \o (IF twice THEN <<PutTx(k, s2)>> ELSE <<>>)
  <2>1. k # None
    BY <1>1
  <2>. QED  BY <2>1 DEF GrabTxs, Grabbed
<1>6. twice \in BOOLEAN
  OBVIOUS
<1>. HIDE DEF s, file
<1>7. /\ s1 \in TraceState /\ s2 \in TraceState
      /\ s1.TraceID = s.TraceID /\ s1.Attempt = s.Attempt
      /\ s2.TraceID = s.TraceID /\ s2.Attempt = s.Attempt
      /\ s2.DownloadID = s1.DownloadID
      /\ ~twice => s1 = s2
      /\ byKey' = [byKey EXCEPT ![k] = s2]
      /\ byDLID' = Indexed(byDLID, s2.DownloadID, k)
  <2>1. /\ s1 = Grabbed(s2, s, t)
        /\ s2 = byKey'[k] /\ (~twice <=> s2.Download = s.Download)
        /\ GrabOnto(k, s, root, spans, ev, t, new)
    BY DEF s
  <2>. HIDE DEF s1, s2, twice
  <2>2. /\ s1 \in TraceState /\ s2 \in TraceState
        /\ s1.TraceID = s.TraceID /\ s1.Attempt = s.Attempt
        /\ s2.TraceID = s.TraceID /\ s2.Attempt = s.Attempt
        /\ s2.DownloadID = s1.DownloadID
        /\ s2.Download = s.Download => s1 = s2
        /\ byKey' = [byKey EXCEPT ![k] = s2]
        /\ byDLID' = Indexed(byDLID, s2.DownloadID, k)
    BY <1>1, <2>1, GrabPuts
  <2>. QED  BY <2>1, <2>2
<1>. HIDE DEF s1, s2, twice, V, k
<1>8. Leads(file, W, end)
  <2>1. file.byKey[k] # None
    BY <1>1, <1>3
  <2>. QED  BY <1>1, <1>3, <1>4, <1>6, <1>7, <2>1, PutTwiceLeads
<1>9. PutTx(k, s1) \in Tx /\ PutTx(k, s2) \in Tx /\ PutTx(k, s1).op = "put"
  BY <1>1, <1>7 DEF PutTx, Tx
<1>10. W[1].op # "remember"
  <2>1. CASE twice
    BY <1>9, <2>1
  <2>2. CASE ~twice
    BY <1>9, <2>2
  <2>. QED  BY <2>1, <2>2
<1>11. V \o <<PutTx(k, s1)>> \o (IF twice THEN <<PutTx(k, s2)>> ELSE <<>>) = V \o W
  <2>1. V \in Seq(Tx)
    BY <1>2 DEF Leads
  <2>2. <<PutTx(k, s1)>> \in Seq(Tx) /\ (IF twice THEN <<PutTx(k, s2)>> ELSE <<>>) \in Seq(Tx)
    BY <1>9
  <2>. QED  BY <2>1, <2>2, ConcatAssociative
<1>12. Memory' = end
  <2>1. [file.byKey EXCEPT ![k] = s2] = [byKey EXCEPT ![k] = s2]
    BY <1>1, <1>3 DEF TypeOK, StoreTypeOK
  <2>. QED  BY <1>3, <1>7, <2>1 DEF Memory
<1>. HIDE DEF W, end
<1>13. Leads(Memory, V \o W, end)
  BY <1>2, <1>8, <1>10, LeadsOn
<1>. QED  BY <1>5, <1>11, <1>12, <1>13

\* A handler that updates the trace of its event and no more.
LEMMA TouchLeads ==
    ASSUME IInv, NEW k \in Live, NEW s \in TraceState, NEW t \in Int, NEW S,
           Touch(k, s, t, S), s.TraceID = byKey[k].TraceID, s.Attempt = byKey[k].Attempt
    PROVE  Leads(Memory, <<PutTx(k, byKey'[k])>>, Memory')
<1> DEFINE u == [s EXCEPT !.UpdatedAt = t]
<1>1. u \in TraceState /\ u.TraceID = s.TraceID /\ u.Attempt = s.Attempt
  BY DEF TraceState
<1>2. Put(k, u) /\ closed' = closed
  BY DEF Touch
<1>. HIDE DEF u
<1>. QED  BY <1>1, <1>2, UpdateLeads

\* onImported puts the trace without its handles, and then ends an orphan.
LEMMA ImportLeads ==
    ASSUME IInv, NEW k \in Live, NEW t \in Int,
           \/ /\ ~IsOrphan(byKey[k])
              /\ Touch(k, [byKey[k] EXCEPT !.Grab = None, !.Download = None], t,
                       Handles(byKey[k]))
           \/ /\ IsOrphan(byKey[k])
              /\ CloseTraces({k}, "available", t)
    PROVE  Leads(Memory, ImportTxs(k, t), Memory')
<1> DEFINE s == [byKey[k] EXCEPT !.Grab = None, !.Download = None]
           u == [byKey[k] EXCEPT !.Grab = None, !.Download = None, !.UpdatedAt = t]
<1>1. /\ TypeOK /\ k \in MediaKey /\ byKey[k] \in TraceState /\ byKey[k] # None
      /\ Memory \in GoodFile /\ Memory \in File
  BY LiveTraceType, MemoryIsGood DEF IInv, Live, GoodFile
<1>2. /\ s \in TraceState /\ s.TraceID = byKey[k].TraceID /\ s.Attempt = byKey[k].Attempt
      /\ u \in TraceState /\ u.TraceID = byKey[k].TraceID /\ u.Attempt = byKey[k].Attempt
      /\ u.DownloadID = byKey[k].DownloadID
      /\ [s EXCEPT !.UpdatedAt = t] = u
  BY <1>1 DEF TraceState
<1>3. CASE ~IsOrphan(byKey[k])
  <2>1. Touch(k, s, t, Handles(byKey[k]))
    BY <1>3
  <2>2. ImportTxs(k, t) = <<PutTx(k, u)>> \o <<>>
    BY <1>3 DEF ImportTxs
  <2>3. <<PutTx(k, u)>> \o <<>> = <<PutTx(k, u)>>
    OBVIOUS
  <2>4. Put(k, [s EXCEPT !.UpdatedAt = t])
    BY <2>1 DEF Touch
  <2>. HIDE DEF s, u
  <2>5. byKey'[k] = u
    BY <1>1, <1>2, <2>4, PutEffect
  <2>6. Leads(Memory, <<PutTx(k, byKey'[k])>>, Memory')
    BY <1>2, <2>1, TouchLeads
  <2>. QED  BY <2>2, <2>3, <2>5, <2>6
<1>4. CASE IsOrphan(byKey[k])
  <2> DEFINE mid == Committed(Memory, PutTx(k, u))
  <2>1. CloseTraces({k}, "available", t) /\ "available" \in Outcome
    BY <1>4 DEF Outcome
  <2>2. ImportTxs(k, t) = <<PutTx(k, u)>> \o CloseTxs(k)
    BY <1>4 DEF ImportTxs
  <2>. HIDE DEF s, u
  <2>3. SoundPut(Memory, k, u)
    BY <1>1, <1>2 DEF SoundPut, Memory
  <2>4. /\ PutTx(k, u) \in Tx /\ mid \in GoodFile /\ mid \in File
        /\ mid.byKey = [byKey EXCEPT ![k] = u]
        /\ mid.byDLID = Indexed(byDLID, u.DownloadID, k) /\ mid.closed = closed
    BY <1>1, <1>2, <2>3, PutCommitted, GoodPut DEF Memory
  <2>5. Sound(Memory, PutTx(k, u)) /\ PutTx(k, u).op # "delete"
    BY <2>3 DEF Sound, PutTx
  <2>6. Leads(Memory, <<PutTx(k, u)>>, mid)
    BY <1>1, <2>4, <2>5, LeadsOne
  <2>. HIDE DEF mid
  <2>7. mid.byKey[k] = u /\ \A j \in MediaKey \ {k} : mid.byKey[j] = byKey[j]
    BY <1>1, <2>4 DEF TypeOK, StoreTypeOK
  <2>8. \A d \in DownloadID \ {byKey[k].DownloadID} : mid.byDLID[d] = byDLID[d]
    BY <1>2, <2>4 DEF Indexed
  <2>9. u # None
    BY <1>2
  <2>10. Leads(mid, CloseTxs(k), Memory')
    BY <1>2, <2>1, <2>4, <2>7, <2>8, <2>9, CloseLeads
  <2>11. CloseTxs(k)[1].op # "remember"
    BY DEF CloseTxs, DeleteTx
  <2>12. Leads(Memory, <<PutTx(k, u)>> \o CloseTxs(k), Memory')
    BY <2>6, <2>10, <2>11, LeadsOn
  <2>. QED  BY <2>2, <2>12
<1>. QED  BY <1>3, <1>4

\* A handler that ends a trace and no more.
LEMMA EndLeads ==
    ASSUME IInv, NEW k \in Live, NEW outcome \in Outcome, NEW t \in Int,
           CloseTraces({k}, outcome, t)
    PROVE  Leads(Memory, CloseTxs(k), Memory')
<1>1. Memory \in GoodFile /\ byKey[k] # None
  BY MemoryIsGood DEF Live
<1>2. Memory.byKey = byKey /\ Memory.byDLID = byDLID /\ Memory.closed = closed
  BY DEF Memory
<1>. QED  BY <1>1, <1>2, CloseLeads

\* Engine.Process, handler by handler: what is still to be written leads from
\* the tables before it to those after it.
LEMMA EventLeads ==
    ASSUME IInv, NEW ev \in Event, NEW t \in Int, NEW new \in NewIds, Process(ev, t, new)
    PROVE  Leads(Memory, IF AlreadySeen(DedupKeyOf(ev), t) THEN <<>>
                         ELSE EventTxs(ev, t, new), Memory')
<1> DEFINE W == EventTxs(ev, t, new)
           seen == AlreadySeen(DedupKeyOf(ev), t)
           Goal == Leads(Memory, IF seen THEN <<>> ELSE W, Memory')
<1>1. TypeOK /\ Memory \in GoodFile
  BY MemoryIsGood DEF IInv
<1>2. Return => Leads(Memory, <<>>, Memory')
  <2>. SUFFICES ASSUME Return PROVE Leads(Memory, <<>>, Memory')
    OBVIOUS
  <2>1. Memory' = Memory
    BY DEF Return, Memory
  <2>. QED  BY <1>1, <2>1, LeadsNowhere
<1>3. ASSUME NEW phase, Accept(ev, t, phase)
      PROVE  ~seen /\ ev.Phase = phase
  BY <1>3 DEF Accept, RecordEvent
<1>4. CASE DropDuplicate(ev, t)
  <2>1. seen /\ Return
    BY <1>4 DEF DropDuplicate, RejectEvent
  <2>. QED  BY <1>2, <2>1
<1>5. CASE OnRequestOpened(ev, t, new)
  <2>1. ~seen /\ ev.Phase = "request.opened" /\ ev.Key \in MediaKey
    BY <1>3, <1>5 DEF OnRequestOpened, Accept
  <2>2. W = IF ResolveTrace(ev.Key) = None THEN OpenTxs(ev, t, new) ELSE <<>>
    BY <2>1 DEF EventTxs, TraceTxs
  <2>3. CASE ResolveTrace(ev.Key) # None /\ Return
    BY <1>2, <2>1, <2>2, <2>3
  <2>4. CASE /\ ResolveTrace(ev.Key) = None
             /\ OpenRoot(ev, t, new)
             /\ Put(ev.Key, NewTrace(ev, t, new))
    <3>1. Leads(Memory, OpenTxs(ev, t, new), Opened(ev, t, new))
      BY <2>1, <2>4, UnresolvedIsNotLive, OpenLeads
    <3>2. Memory' = Opened(ev, t, new)
      <4>1. NewTrace(ev, t, new).DownloadID = None
        BY DEF NewTrace
      <4>. QED  BY <2>4, <4>1 DEF Put, Memory, Opened
    <3>. QED  BY <2>1, <2>2, <2>4, <3>1, <3>2
  <2>. QED  BY <1>5, <2>3, <2>4 DEF OnRequestOpened
<1>6. ASSUME NEW k, k = ResolveTrace(ev.Key), ev.Key \in MediaKey,
             ~seen, ev.Phase \in {"request.approved", "arr.manual"},
             \/ k = None /\ Return
             \/ k # None /\ Touch(k, byKey[k], t, {})
      PROVE  Goal
  <2>1. W = IF k = None THEN <<>> ELSE <<PutTx(k, byKey'[k])>>
    BY <1>6 DEF EventTxs, TraceTxs
  <2>2. CASE k = None /\ Return
    BY <1>2, <1>6, <2>1, <2>2
  <2>3. CASE k # None /\ Touch(k, byKey[k], t, {})
    <3>1. k \in Live /\ byKey[k] \in TraceState
      BY <1>1, <1>6, <2>3, ResolvedIsLive, LiveTraceType
    <3>. QED  BY <1>6, <2>1, <2>3, <3>1, TouchLeads
  <2>. QED  BY <1>6, <2>2, <2>3
<1>7. CASE OnRequestApproved(ev, t)
  BY <1>3, <1>6, <1>7 DEF OnRequestApproved, Accept
<1>8. CASE OnManualNeeded(ev, t)
  BY <1>3, <1>6, <1>8 DEF OnManualNeeded, Accept
<1>9. CASE OnRequestClosed(ev, t)
  <2> DEFINE k == ResolveTrace(ev.Key)
  <2>1. ~seen /\ ev.Phase = "request.closed" /\ ev.Key \in MediaKey /\ ev.Outcome \in Outcome
    BY <1>3, <1>9 DEF OnRequestClosed, Accept
  <2>2. W = IF k = None THEN <<>> ELSE CloseTxs(k)
    BY <2>1 DEF EventTxs, TraceTxs
  <2>3. CASE k = None /\ Return
    BY <1>2, <2>1, <2>2, <2>3
  <2>4. CASE k # None /\ CloseTraces({k}, ev.Outcome, t)
    BY <2>1, <2>2, <2>4, ResolvedIsLive, EndLeads
  <2>. QED  BY <1>9, <2>3, <2>4 DEF OnRequestClosed
<1>10. CASE OnGrabbed(ev, t, new)
  <2> DEFINE k == ResolveTrace(ev.Key)
  <2>1. ~seen /\ ev.Phase = "arr.grab" /\ ev.Key \in MediaKey
    BY <1>3, <1>10 DEF OnGrabbed, Accept
  <2>2. W = GrabTxs(ev, t, new)
    BY <2>1 DEF EventTxs, TraceTxs
  <2>3. CASE /\ k # None
             /\ GrabOnto(k, byKey[k], ctxByKey[k].Root, open, ev, t, new)
             /\ UNCHANGED <<closed, ctxByKey, rooted>>
    BY <2>1, <2>2, <2>3, GrabLeads
  <2>4. CASE /\ k = None
             /\ OpenRoot(ev, t, new)
             /\ GrabOnto(ev.Key, NewTrace(ev, t, new), new.root,
                         SpansWithRoot(new), ev, t, new)
    BY <2>1, <2>2, <2>4, GrabOrphanLeads
  <2>. QED  BY <1>10, <2>3, <2>4 DEF OnGrabbed
<1>11. CASE OnDownloadStart(ev, t, new)
  <2> DEFINE k == GetByDownloadID(ev.DownloadID)
  <2>1. ~seen /\ ev.Phase = "download.start"
    BY <1>3, <1>11 DEF OnDownloadStart
  <2>2. W = IF k = None \/ byKey[k].Download # None THEN <<>>
            ELSE <<PutTx(k, byKey'[k])>>
    BY <2>1 DEF EventTxs, TraceTxs
  <2>3. CASE k = None /\ ParkDownload(ev, t)
    <3>1. Memory' = Memory
      BY <2>3 DEF ParkDownload, Memory
    <3>. QED  BY <1>1, <2>1, <2>2, <2>3, <3>1, LeadsNowhere
  <2>4. CASE k # None /\ byKey[k].Download # None /\ Return
    BY <1>2, <2>1, <2>2, <2>4
  <2>5. CASE k # None /\ byKey[k].Download = None /\ StartDownload(k, t, new)
    <3> DEFINE s == [byKey[k] EXCEPT !.Download = new.download, !.UpdatedAt = t]
    <3>1. k \in Live /\ byKey[k] \in TraceState /\ new.download \in SpanId
      BY <1>1, <2>5, DownloadIsLive, LiveTraceType, NewIdsAreFresh
    <3>2. s \in TraceState /\ s.TraceID = byKey[k].TraceID /\ s.Attempt = byKey[k].Attempt
      BY <3>1 DEF TraceState
    <3>3. Put(k, s) /\ closed' = closed
      BY <2>5 DEF StartDownload
    <3>. HIDE DEF s, k
    <3>4. Leads(Memory, <<PutTx(k, byKey'[k])>>, Memory')
      BY <3>1, <3>2, <3>3, UpdateLeads
    <3>. QED  BY <2>1, <2>2, <2>5, <3>4
  <2>. QED  BY <1>11, <2>3, <2>4, <2>5 DEF OnDownloadStart
<1>12. CASE OnDownloadDone(ev, t)
  <2> DEFINE k == GetByDownloadID(ev.DownloadID)
             s == [byKey[k] EXCEPT !.Download = None]
  <2>1. ~seen /\ ev.Phase = "download.done"
    BY <1>3, <1>12 DEF OnDownloadDone
  <2>2. W = IF k = None THEN <<>> ELSE <<PutTx(k, byKey'[k])>>
    BY <2>1 DEF EventTxs, TraceTxs
  <2>3. CASE k = None /\ Return
    BY <1>2, <2>1, <2>2, <2>3
  <2>4. CASE k # None /\ Touch(k, s, t, {byKey[k].Download})
    <3>1. k \in Live /\ byKey[k] \in TraceState
      BY <1>1, <2>4, DownloadIsLive, LiveTraceType
    <3>2. s \in TraceState /\ s.TraceID = byKey[k].TraceID /\ s.Attempt = byKey[k].Attempt
      BY <3>1 DEF TraceState
    <3>. HIDE DEF s
    <3>3. Leads(Memory, <<PutTx(k, byKey'[k])>>, Memory')
      BY <2>4, <3>1, <3>2, TouchLeads
    <3>. QED  BY <2>1, <2>2, <2>4, <3>3
  <2>. QED  BY <1>12, <2>3, <2>4 DEF OnDownloadDone
<1>13. CASE OnImported(ev, t)
  <2> DEFINE k == ResolveTrace(ev.Key)
             s == [byKey[k] EXCEPT !.Grab = None, !.Download = None]
  <2>1. ~seen /\ ev.Phase = "arr.import" /\ ev.Key \in MediaKey
    BY <1>3, <1>13 DEF OnImported, Accept
  <2>2. W = IF k = None THEN <<>> ELSE ImportTxs(k, t)
    BY <2>1 DEF EventTxs, TraceTxs
  <2>3. CASE k = None /\ Return
    BY <1>2, <2>1, <2>2, <2>3
  <2>4. CASE k # None /\ \/ /\ ~IsOrphan(byKey[k])
                            /\ Touch(k, s, t, Handles(byKey[k]))
                         \/ /\ IsOrphan(byKey[k])
                            /\ CloseTraces({k}, "available", t)
    <3>1. Leads(Memory, ImportTxs(k, t), Memory')
      BY <2>1, <2>4, ResolvedIsLive, ImportLeads
    <3>. QED  BY <2>1, <2>2, <2>4, <3>1
  <2>. QED  BY <1>13, <2>3, <2>4 DEF OnImported
<1>. QED  BY <1>4, <1>5, <1>7, <1>8, <1>9, <1>10, <1>11, <1>12, <1>13 DEF Process

-----------------------------------------------------------------------------
(* The next process. *)

\* What is stored, with the handles cleared, is the trace it was.
LEMMA StoredTrace ==
    ASSUME disk \in GoodFile, NEW k \in MediaKey, disk.byKey[k] # None
    PROVE  /\ Stored(k) \in TraceState /\ Stored(k) # None
           /\ Stored(k).TraceID = disk.byKey[k].TraceID
           /\ Stored(k).Attempt = disk.byKey[k].Attempt
           /\ Stored(k).DownloadID = disk.byKey[k].DownloadID
           /\ Stored(k).Grab = None /\ Stored(k).Download = None
           /\ Stored(k).Resumed = TRUE
<1>1. disk.byKey[k] \in TraceState
  BY DEF GoodFile, File
<1>2. Stored(k) \in TraceState /\ Stored(k).DownloadID = disk.byKey[k].DownloadID
  BY <1>1 DEF Stored, ResumedTrace, TraceState
<1>. QED  BY <1>1, <1>2, ResumedTraceType DEF Stored

\* Of the traces that claim an entry of the index there is a last one.
LEMMA LastClaim ==
    ASSUME NEW n \in Nat, NEW C \in SUBSET (1 .. n), C # {}
    PROVE  (CHOOSE i \in C : \A j \in C : j <= i) \in C
<1> DEFINE S == 1 .. n
           T == {(i + 1) .. n : i \in C}
<1>1. IsWellFoundedOn(StrictSubsetOrdering(S), FiniteSubsetsOf(S))
  BY FS_StrictSubsetOrderingWellFounded
<1>2. T \subseteq FiniteSubsetsOf(S) /\ T # {}
  <2>1. \A i \in C : (i + 1) .. n \in SUBSET S
    OBVIOUS
  <2>2. \A i \in C : IsFiniteSet((i + 1) .. n)
    BY FS_Interval
  <2>. QED  BY <2>1, <2>2 DEF FiniteSubsetsOf
<1>3. \E x \in T : \A y \in T : ~ (<<y, x>> \in StrictSubsetOrdering(S))
  <2>. HIDE DEF S, T
  <2>. QED  BY <1>1, <1>2, WFMin
<1>4. PICK i \in C :
         \A j \in C : ~ (<<(j + 1) .. n, (i + 1) .. n>> \in StrictSubsetOrdering(S))
  BY <1>3
<1>5. \A j \in C : j <= i
  <2>. SUFFICES ASSUME NEW j \in C, j > i PROVE FALSE
    OBVIOUS
  <2>1. /\ (j + 1) .. n \in SUBSET S /\ (i + 1) .. n \in SUBSET S
        /\ (j + 1) .. n \subseteq (i + 1) .. n /\ (j + 1) .. n # (i + 1) .. n
    <3>1. j \in (i + 1) .. n /\ j \notin (j + 1) .. n
      OBVIOUS
    <3>. QED  BY <3>1
  <2>. QED  BY <1>4, <2>1 DEF StrictSubsetOrdering
<1>. QED  BY <1>5

\* The traces of the file are finitely many; an order has each of them.
LEMMA OrderType ==
    ASSUME NEW K \in SUBSET MediaKey, NEW o \in Orders(K)
    PROVE  /\ Cardinality(K) \in Nat /\ o \in [1 .. Cardinality(K) -> K]
           /\ \A k \in K : \E i \in 1 .. Cardinality(K) : o[i] = k
<1>1. Cardinality(K) \in Nat
  BY FiniteKeysAssumption, FS_Subset, FS_CardinalityType
<1>. QED  BY <1>1 DEF Orders

\* The index keeps its type, whatever claims it.
LEMMA IndexAfterType ==
    ASSUME disk \in File, NEW m \in Nat, NEW n \in 0 .. m, NEW o \in [1 .. m -> MediaKey]
    PROVE  IndexAfter(o, n) \in [DownloadID -> MediaKey \cup {None}]
<1>. SUFFICES ASSUME NEW d \in DownloadID
              PROVE  IndexAfter(o, n)[d] \in MediaKey \cup {None}
  BY DEF IndexAfter
<1> DEFINE C == {i \in 1 .. n : disk.byKey[o[i]].DownloadID = d}
           last == CHOOSE i \in C : \A j \in C : j <= i
<1>1. C \in SUBSET (1 .. n) /\ n \in Nat /\ 1 .. n \subseteq 1 .. m
  OBVIOUS
<1>2. IndexAfter(o, n)[d] = IF C = {} THEN disk.byDLID[d] ELSE o[last]
  BY DEF IndexAfter
<1>. HIDE DEF C
<1>3. C # {} => last \in C
  BY <1>1, LastClaim
<1>. HIDE DEF last
<1>4. C # {} => last \in 1 .. m
  BY <1>1, <1>3
<1>5. disk.byDLID[d] \in MediaKey \cup {None}
  BY DEF File
<1>. QED  BY <1>2, <1>4, <1>5

\* load, LoadAll and Restore leave everything typed.
LEMMA ReopenType ==
    ASSUME TypeOK, disk \in GoodFile, Reopen
    PROVE  TypeOK'
<1>1. disk \in File
  BY DEF GoodFile
<1>2. byKey' \in [MediaKey -> TraceState \cup {None}]
  BY StoredTrace DEF Reopen
<1>3. byDLID' \in [DownloadID -> MediaKey \cup {None}]
  <2> DEFINE K == {k \in MediaKey : disk.byKey[k] # None}
  <2>1. PICK o \in Orders(K) : byDLID' = IndexAfter(o, Cardinality(K))
    BY DEF Reopen
  <2>. HIDE DEF K
  <2>2. K \in SUBSET MediaKey
    BY DEF K
  <2>3. /\ Cardinality(K) \in Nat /\ Cardinality(K) \in 0 .. Cardinality(K)
        /\ o \in [1 .. Cardinality(K) -> MediaKey]
    BY <2>2, OrderType
  <2>. QED  BY <1>1, <2>1, <2>3, IndexAfterType
<1>4. closed' \in [MediaKey -> ClosedTrace \cup {None}]
  BY <1>1 DEF Reopen, File
<1>5. dedup' \in [DedupKey -> Int \cup {None}]
  BY DEF Reopen, TypeOK, StoreTypeOK
<1>6. ctxByKey' \in [MediaKey -> RootContext \cup {None}]
  BY <1>2 DEF Reopen, Resume, RootContext, TraceState
<1>7. rooted' \in SUBSET SpanId
  <2>1. \A x \in ClosedIds' : x \in SpanId
    BY <1>4 DEF ClosedIds, ClosedTrace
  <2>. QED  BY <2>1 DEF Reopen, Resume, ExportRoots, TypeOK
<1>. QED  BY <1>2, <1>3, <1>4, <1>5, <1>6, <1>7 DEF Reopen, Resume, TypeOK, StoreTypeOK

\* A process that starts from a good file has the engine's invariant.
LEMMA ReopenInv ==
    ASSUME TypeOK, disk \in GoodFile, Reopen
    PROVE  IInv'
<1>1. TypeOK'
  BY ReopenType
<1>2. disk \in File /\ Consistent(disk)
  BY DEF GoodFile
<1>3. /\ \A k \in MediaKey :
            byKey'[k] = IF disk.byKey[k] = None THEN None ELSE Stored(k)
      /\ closed' = disk.closed
  BY DEF Reopen
<1>4. Live' = {k \in MediaKey : disk.byKey[k] # None}
  <2>1. ASSUME NEW k \in MediaKey
        PROVE  byKey'[k] # None <=> disk.byKey[k] # None
    <3>1. CASE disk.byKey[k] = None
      BY <1>3, <3>1
    <3>2. CASE disk.byKey[k] # None
      <4>1. byKey'[k] = Stored(k)
        BY <1>3, <3>2
      <4>2. Stored(k) # None
        BY <3>2, StoredTrace
      <4>. QED  BY <3>2, <4>1, <4>2
    <3>. QED  BY <3>1, <3>2
  <2>. QED  BY <2>1 DEF Live
<1>5. \A k \in Live' :
         /\ k \in MediaKey /\ disk.byKey[k] # None
         /\ byKey'[k].TraceID = disk.byKey[k].TraceID
         /\ byKey'[k].Attempt = disk.byKey[k].Attempt
         /\ byKey'[k].Grab = None /\ byKey'[k].Download = None
         /\ byKey'[k].Resumed = TRUE /\ byKey'[k].TraceID \in SpanId
  <2>. TAKE k \in Live'
  <2>1. k \in MediaKey /\ disk.byKey[k] # None
    BY <1>4
  <2>2. byKey'[k] = Stored(k)
    BY <1>3, <2>1
  <2>3. /\ Stored(k) \in TraceState
        /\ Stored(k).TraceID = disk.byKey[k].TraceID
        /\ Stored(k).Attempt = disk.byKey[k].Attempt
        /\ Stored(k).Grab = None /\ Stored(k).Download = None
        /\ Stored(k).Resumed = TRUE
    BY <2>1, StoredTrace
  <2>4. Stored(k).TraceID \in SpanId
    BY <2>3 DEF TraceState
  <2>. QED  BY <2>1, <2>2, <2>3, <2>4
<1>6. \A x \in SpanId : open'[x] = None
  BY DEF Reopen, Resume
<1>7. NoLeakedSpan'
  BY <1>6 DEF NoLeakedSpan
<1>8. ContextsMatchTraces'
  <2>1. \A k \in MediaKey :
           ctxByKey'[k] = IF byKey'[k] = None THEN None
                          ELSE [Root |-> byKey'[k].TraceID, Remote |-> TRUE]
    BY DEF Reopen, Resume
  <2>2. \A k \in MediaKey : k \in Live' <=> byKey'[k] # None
    BY DEF Live
  <2>. QED  BY <1>5, <2>1, <2>2 DEF ContextsMatchTraces
<1>9. TraceIdsUnique'
  BY <1>2, <1>3, <1>4, <1>5 DEF Consistent, TraceIdsUnique, ClosedIds
<1>10. HandlesAreOpen'
  BY <1>5, <1>6 DEF HandlesAreOpen
<1>11. AttemptsAscend'
  BY <1>2, <1>3, <1>4, <1>5 DEF Consistent, AttemptsAscend
<1>. QED  BY <1>1, <1>7, <1>8, <1>9, <1>10, <1>11 DEF IInv

\* One more put of Restore.
LEMMA IndexGrows ==
    ASSUME disk \in File, NEW m \in Nat, NEW o \in [1 .. m -> MediaKey], NEW n \in 1 .. m
    PROVE  IndexAfter(o, n) =
              Indexed(IndexAfter(o, n - 1), disk.byKey[o[n]].DownloadID, o[n])
<1>. SUFFICES ASSUME NEW d \in DownloadID
              PROVE  IndexAfter(o, n)[d] =
                        IF d = disk.byKey[o[n]].DownloadID THEN o[n]
                        ELSE IndexAfter(o, n - 1)[d]
  <2>1. n \in 0 .. m
    OBVIOUS
  <2>2. IndexAfter(o, n) \in [DownloadID -> MediaKey \cup {None}]
    BY <2>1, IndexAfterType
  <2>. QED  BY <2>2 DEF Indexed
<1> DEFINE C(i) == {j \in 1 .. i : disk.byKey[o[j]].DownloadID = d}
<1>1. \A i : IndexAfter(o, i)[d] =
                IF C(i) = {} THEN disk.byDLID[d]
                ELSE o[CHOOSE j \in C(i) : \A l \in C(i) : l <= j]
  BY DEF IndexAfter
<1>2. CASE d = disk.byKey[o[n]].DownloadID
  <2>1. n \in C(n) /\ \A j \in C(n) : j <= n
    BY <1>2
  <2>2. \A i \in C(n) : (\A j \in C(n) : j <= i) => i = n
    BY <2>1
  <2>. HIDE DEF C
  <2>3. (CHOOSE i \in C(n) : \A j \in C(n) : j <= i) = n
    BY <2>1, <2>2
  <2>. QED  BY <1>1, <1>2, <2>1, <2>3
<1>3. CASE d # disk.byKey[o[n]].DownloadID
  <2>1. C(n) = C(n - 1)
    BY <1>3
  <2>. HIDE DEF C
  <2>. QED  BY <1>1, <1>3, <2>1
<1>. QED  BY <1>2, <1>3

\* Restore's puts lead from the file to what the new process has in memory.
LEMMA ReopenLeads ==
    ASSUME disk \in GoodFile, Reopen
    PROVE  Leads(disk, writes', Memory')
<1> DEFINE K == {k \in MediaKey : disk.byKey[k] # None}
           n == Cardinality(K)
<1>1. PICK o \in Orders(K) :
         /\ writes' = [i \in 1 .. n |-> PutTx(o[i], Stored(o[i]))]
         /\ byDLID' = IndexAfter(o, n)
  BY DEF Reopen
<1>2. /\ \A k \in MediaKey :
            byKey'[k] = IF disk.byKey[k] = None THEN None ELSE Stored(k)
      /\ byKey' \in [MediaKey -> TraceState \cup {None}]
      /\ closed' = disk.closed
  BY StoredTrace DEF Reopen
<1>3. K \in SUBSET MediaKey /\ \A k \in MediaKey : k \in K <=> disk.byKey[k] # None
  OBVIOUS
<1>4. disk \in File /\ Consistent(disk)
  BY DEF GoodFile
<1>. HIDE DEF K
<1>5. n \in Nat /\ o \in [1 .. n -> K] /\ \A k \in K : \E i \in 1 .. n : o[i] = k
  BY <1>3, OrderType
<1>. HIDE DEF n
<1>6. o \in [1 .. n -> MediaKey] /\ \A i \in 1 .. n : o[i] \in MediaKey /\ disk.byKey[o[i]] # None
  BY <1>3, <1>5
<1> DEFINE put(i, k) == \E j \in 1 .. i : o[j] = k
           traces(i) == [k \in MediaKey |-> IF put(i, k) THEN Stored(k) ELSE disk.byKey[k]]
           f == [i \in 0 .. n |-> [byKey |-> traces(i), byDLID |-> IndexAfter(o, i),
                                   closed |-> disk.closed]]
           W == writes'
<1>7. ASSUME NEW i \in 0 .. n, NEW k \in MediaKey, put(i, k)
      PROVE  disk.byKey[k] # None
  <2>1. PICK j \in 1 .. i : o[j] = k
    BY <1>7
  <2>2. j \in 1 .. n
    BY <1>5
  <2>. QED  BY <1>6, <2>1, <2>2
<1>8. ASSUME NEW i \in 0 .. n
      PROVE  /\ traces(i) \in [MediaKey -> TraceState \cup {None}]
             /\ \A k \in MediaKey :
                   /\ traces(i)[k] # None <=> disk.byKey[k] # None
                   /\ disk.byKey[k] # None =>
                         /\ traces(i)[k].TraceID = disk.byKey[k].TraceID
                         /\ traces(i)[k].Attempt = disk.byKey[k].Attempt
  <2>. HIDE DEF put
  <2>1. ASSUME NEW k \in MediaKey
        PROVE  /\ traces(i)[k] \in TraceState \cup {None}
               /\ traces(i)[k] # None <=> disk.byKey[k] # None
               /\ disk.byKey[k] # None =>
                     /\ traces(i)[k].TraceID = disk.byKey[k].TraceID
                     /\ traces(i)[k].Attempt = disk.byKey[k].Attempt
    <3>1. CASE put(i, k)
      <4>1. traces(i)[k] = Stored(k) /\ disk.byKey[k] # None
        BY <1>7, <3>1
      <4>. HIDE DEF traces
      <4>. QED  BY <4>1, StoredTrace
    <3>2. CASE ~put(i, k)
      <4>1. traces(i)[k] = disk.byKey[k]
        BY <3>2
      <4>. HIDE DEF traces
      <4>. QED  BY <1>4, <4>1 DEF File
    <3>. QED  BY <3>1, <3>2
  <2>. QED  BY <2>1
<1>9. ASSUME NEW i \in 0 .. n
      PROVE  /\ f[i] \in GoodFile
             /\ f[i].byKey = traces(i) /\ f[i].byDLID = IndexAfter(o, i)
             /\ f[i].closed = disk.closed
  <2>1. /\ f[i] = [byKey |-> traces(i), byDLID |-> IndexAfter(o, i), closed |-> disk.closed]
        /\ f[i].byKey = traces(i) /\ f[i].byDLID = IndexAfter(o, i)
        /\ f[i].closed = disk.closed
    OBVIOUS
  <2>. HIDE DEF f, traces
  <2>2. f[i] \in File
    <3>1. IndexAfter(o, i) \in [DownloadID -> MediaKey \cup {None}]
      BY <1>4, <1>5, <1>6, IndexAfterType
    <3>. QED  BY <1>4, <1>8, <2>1, <3>1 DEF File
  <2>3. Consistent(f[i])
    BY <1>4, <1>8, <2>1 DEF Consistent
  <2>. QED  BY <2>1, <2>2, <2>3 DEF GoodFile
<1>10. /\ W \in Seq(Tx) /\ Len(W) = n
       /\ \A i \in 1 .. n : W[i] = PutTx(o[i], Stored(o[i])) /\ W[i].op = "put"
  <2>1. \A i \in 1 .. n : PutTx(o[i], Stored(o[i])) \in Tx /\ PutTx(o[i], Stored(o[i])).op = "put"
    BY <1>6, StoredTrace DEF PutTx, Tx
  <2>. QED  BY <1>1, <1>5, <2>1
<1>11. ASSUME NEW i \in 1 .. n
       PROVE  /\ Sound(f[i - 1], W[i])
              /\ f[i] = Committed(f[i - 1], W[i])
  <2> DEFINE k == o[i]
  <2>1. i \in 0 .. n /\ i - 1 \in 0 .. n /\ k \in MediaKey /\ disk.byKey[k] # None
    BY <1>5, <1>6
  <2>2. W[i] = PutTx(k, Stored(k))
    BY <1>10
  <2>3. /\ f[i - 1] = [byKey |-> traces(i - 1), byDLID |-> IndexAfter(o, i - 1),
                       closed |-> disk.closed]
        /\ f[i] = [byKey |-> traces(i), byDLID |-> IndexAfter(o, i), closed |-> disk.closed]
        /\ f[i - 1].byKey = traces(i - 1)
    BY <2>1
  <2>4. traces(i) = [traces(i - 1) EXCEPT ![k] = Stored(k)]
    <3>1. \A j \in MediaKey : put(i, j) <=> put(i - 1, j) \/ j = k
      BY <1>5
    <3>. HIDE DEF put
    <3>. QED  BY <2>1, <3>1
  <2>5. IndexAfter(o, i) = Indexed(IndexAfter(o, i - 1), Stored(k).DownloadID, k)
    <3>1. Stored(k).DownloadID = disk.byKey[k].DownloadID
      BY <2>1, StoredTrace
    <3>2. IndexAfter(o, i) = Indexed(IndexAfter(o, i - 1), disk.byKey[o[i]].DownloadID, o[i])
      <4>1. disk \in File /\ n \in Nat /\ o \in [1 .. n -> MediaKey] /\ i \in 1 .. n
        BY <1>4, <1>5, <1>6
      <4>. QED  BY <4>1, IndexGrows
    <3>. QED  BY <3>1, <3>2
  <2>6. SoundPut(f[i - 1], k, Stored(k))
    <3>1. /\ traces(i - 1)[k] # None /\ traces(i - 1)[k].TraceID = disk.byKey[k].TraceID
          /\ traces(i - 1)[k].Attempt = disk.byKey[k].Attempt
      BY <1>8, <2>1
    <3>. HIDE DEF traces, f
    <3>. QED  BY <2>1, <2>3, <3>1, StoredTrace DEF SoundPut
  <2>. HIDE DEF traces, f, k, W
  <2>7. Sound(f[i - 1], W[i])
    BY <2>2, <2>6 DEF Sound, PutTx
  <2>8. f[i] = Committed(f[i - 1], W[i])
    <3> DEFINE file == f[i - 1]
               next == Committed(file, PutTx(k, Stored(k)))
    <3>1. file \in File /\ file.byDLID = IndexAfter(o, i - 1) /\ file.closed = disk.closed
      BY <1>9, <2>1 DEF GoodFile
    <3>2. Stored(k) \in TraceState
      BY <2>1, StoredTrace
    <3>. HIDE DEF file
    <3>3. /\ next \in File /\ next.byKey = [file.byKey EXCEPT ![k] = Stored(k)]
          /\ next.byDLID = Indexed(file.byDLID, Stored(k).DownloadID, k)
          /\ next.closed = file.closed
      BY <2>1, <3>1, <3>2, PutCommitted
    <3>4. file.byKey = traces(i - 1)
      BY <2>3 DEF file
    <3>. HIDE DEF next
    <3>5. next = [byKey |-> next.byKey, byDLID |-> next.byDLID, closed |-> next.closed]
      BY <3>3 DEF File
    <3>6. next = f[i]
      BY <2>3, <2>4, <2>5, <3>1, <3>3, <3>4, <3>5
    <3>. QED  BY <2>2, <3>6 DEF next, file
  <2>. QED  BY <2>7, <2>8
<1>12. f \in [0 .. n -> GoodFile]
  <2>1. \A i \in 0 .. n : f[i] \in GoodFile
    BY <1>9
  <2>. QED  BY <2>1
<1>13. f[0] = disk
  <2>1. traces(0) = disk.byKey
    BY <1>4 DEF File
  <2>2. IndexAfter(o, 0) = disk.byDLID
    <3>1. \A d \in DownloadID : {i \in 1 .. 0 : disk.byKey[o[i]].DownloadID = d} = {}
      OBVIOUS
    <3>. QED  BY <1>4, <3>1 DEF IndexAfter, File
  <2>3. 0 \in 0 .. n
    BY <1>5
  <2>. QED  BY <1>4, <2>1, <2>2, <2>3 DEF File
<1>14. f[n] = Memory'
  <2>1. traces(n) = byKey'
    <3>1. \A k \in MediaKey : put(n, k) <=> disk.byKey[k] # None
      BY <1>3, <1>5, <1>6
    <3>. HIDE DEF put
    <3>. QED  BY <1>2, <3>1
  <2>2. n \in 0 .. n
    BY <1>5
  <2>. QED  BY <1>1, <1>2, <2>1, <2>2 DEF Memory
<1>. HIDE DEF f, W
<1>15. Passes(f, W)
  BY <1>5, <1>10, <1>11 DEF Passes, Legal
<1>16. Leads(disk, W, Memory')
  BY <1>10, <1>12, <1>13, <1>14, <1>15 DEF Leads
<1>. QED  BY <1>16 DEF W

-----------------------------------------------------------------------------
(* The inductive invariant.  What the file holds in the middle of a        *)
(* handler says little by itself; what is inductive is that the            *)
(* transactions still to come lead from it to the tables in memory,        *)
(* through good files only.  A crash may come before each of them.         *)

\* A poller has the time of one trace to write, and nothing else.
PollerWritesTime ==
    caller = "poller" /\ writes # <<>> =>
        /\ Len(writes) = 1 /\ sweeping = {} /\ disk.closed = closed
        /\ \A k \in MediaKey : byKey[k] = None <=> disk.byKey[k] = None
        /\ \A k \in MediaKey :
              byKey[k] = IF disk.byKey[k] = None THEN None
                         ELSE [disk.byKey[k] EXCEPT !.UpdatedAt = byKey[k].UpdatedAt]

DurableInv ==
    /\ IInv
    /\ Leads(disk, writes, Memory)
    /\ sweeping \subseteq Live
    /\ sweeping # {} => caller = "janitor"
    /\ PollerWritesTime

\* Both start empty.
LEMMA DurableInitInv == DurableInit => DurableInv
<1>. SUFFICES ASSUME DurableInit PROVE DurableInv
  OBVIOUS
<1>1. IInv
  BY InitInv DEF DurableInit
<1>2. disk = Memory /\ writes = <<>> /\ sweeping = {}
  BY DEF DurableInit, Memory
<1>3. Leads(disk, writes, Memory)
  BY <1>1, <1>2, MemoryIsGood, LeadsNowhere
<1>. QED  BY <1>1, <1>2, <1>3 DEF DurableInv, PollerWritesTime

\* A handler finds the file as the last one left it.
LEMMA IdleFile ==
    ASSUME DurableInv, Idle
    PROVE  disk = Memory /\ writes = <<>> /\ sweeping = {} /\ Memory \in GoodFile
BY LeadsEnd DEF DurableInv, Idle

\* What a caller other than a poller and the janitor leaves.
LEMMA RunByOther ==
    ASSUME NEW c, c \notin {"poller", "janitor"}, RunBy(c), sweeping' = {}
    PROVE  (sweeping # {} => caller = "janitor")' /\ PollerWritesTime'
BY DEF RunBy, PollerWritesTime

\* Engine.Process, from a webhook or a script.
LEMMA ReceiveInv ==
    ASSUME DurableInv, Receive
    PROVE  DurableInv'
<1>1. IInv /\ clock \in Nat /\ clock \in Int
  BY DEF DurableInv, IInv, TypeOK
<1>2. disk = Memory /\ writes = <<>> /\ sweeping = {}
  BY IdleFile DEF Receive
<1>3. PICK new \in NewIds, ev \in Event : \E t \in Stamps(ev) :
         /\ Process(ev, t, new)
         /\ writes' = IF AlreadySeen(DedupKeyOf(ev), t) THEN <<>> ELSE EventTxs(ev, t, new)
  BY DEF Receive
<1>4. PICK t \in Stamps(ev) :
         /\ Process(ev, t, new)
         /\ writes' = IF AlreadySeen(DedupKeyOf(ev), t) THEN <<>> ELSE EventTxs(ev, t, new)
  BY <1>3
<1>5. t \in Int
  BY <1>1 DEF Stamps
<1>6. clock' \in Nat /\ disk' = disk /\ sweeping' = {} /\ RunBy("server")
  BY <1>1, <1>2 DEF Receive
<1>7. IInv'
  BY <1>1, <1>4, <1>5, <1>6, ProcessInv
<1>8. Leads(disk', writes', Memory')
  BY <1>1, <1>2, <1>4, <1>5, <1>6, EventLeads
<1>9. (sweeping # {} => caller = "janitor")' /\ PollerWritesTime'
  BY <1>6, RunByOther
<1>. QED  BY <1>6, <1>7, <1>8, <1>9 DEF DurableInv

\* Engine.NoteQueueIssue, from a poller.
LEMMA ReportStallInv ==
    ASSUME DurableInv, ReportStall
    PROVE  DurableInv'
<1>1. IInv /\ TypeOK /\ clock \in Nat /\ clock \in Int
  BY DEF DurableInv, IInv, TypeOK
<1>2. disk = Memory /\ writes = <<>> /\ sweeping = {}
  BY IdleFile DEF ReportStall
<1>3. PICK d \in DownloadID, t \in (clock - Lag) .. clock :
         /\ NoteIssue(d, t)
         /\ writes' = <<PutTx(GetByDownloadID(d), byKey'[GetByDownloadID(d)])>>
  BY DEF ReportStall
<1> DEFINE k == GetByDownloadID(d)
<1>4. Touch(k, byKey[k], t, {}) /\ k # None /\ writes' = <<PutTx(k, byKey'[k])>>
  BY <1>3 DEF NoteIssue
<1>5. k \in Live /\ k \in MediaKey /\ byKey[k] \in TraceState /\ t \in Int
  BY <1>1, <1>4, DownloadIsLive, LiveTraceType
<1>. HIDE DEF k
<1>6. dedup' \in [DedupKey -> Int \cup {None}] /\ clock' \in Nat
  BY <1>1 DEF ReportStall, TypeOK, StoreTypeOK
<1>7. disk' = disk /\ sweeping' = {} /\ RunBy("poller")
  BY <1>2 DEF ReportStall
<1>8. TypeOK'
  BY <1>1, <1>4, <1>5, <1>6, TouchType
<1>9. IInv'
  <2>1. byKey[k].Grab \in {None, byKey[k].Grab} /\ byKey[k].Download \in {None, byKey[k].Download}
    OBVIOUS
  <2>. QED  BY <1>1, <1>4, <1>5, <1>8, <2>1, TouchInv
<1>10. Leads(disk', writes', Memory')
  BY <1>1, <1>2, <1>4, <1>5, <1>7, TouchLeads
<1>11. PollerWritesTime'
  <2>1. Len(writes') = 1
    BY <1>4
  <2>2. disk'.closed = closed'
    BY <1>2, <1>4, <1>7 DEF Touch, Memory
  <2>3. Put(k, [byKey[k] EXCEPT !.UpdatedAt = t])
    BY <1>4 DEF Touch
  <2>4. /\ byKey'[k] = [byKey[k] EXCEPT !.UpdatedAt = t]
        /\ \A j \in MediaKey \ {k} : byKey'[j] = byKey[j]
    BY <1>1, <1>5, <2>3 DEF Put, TypeOK, StoreTypeOK
  <2>5. ASSUME NEW j \in MediaKey
        PROVE  byKey'[j] = IF byKey[j] = None THEN None
                           ELSE [byKey[j] EXCEPT !.UpdatedAt = byKey'[j].UpdatedAt]
    <3>1. CASE j = k
      <4>1. byKey[k] # None
        BY <1>5
      <4>2. byKey'[k].UpdatedAt = t
        BY <1>5, <2>4 DEF TraceState
      <4>. QED  BY <2>4, <3>1, <4>1, <4>2
    <3>2. CASE j # k
      <4>1. byKey'[j] = byKey[j] /\ (byKey[j] # None => byKey[j] \in TraceState)
        BY <1>1, <2>4, <3>2 DEF TypeOK, StoreTypeOK
      <4>2. byKey[j] \in TraceState =>
               byKey[j] = [byKey[j] EXCEPT !.UpdatedAt = byKey[j].UpdatedAt]
        BY DEF TraceState
      <4>. QED  BY <4>1, <4>2
    <3>. QED  BY <3>1, <3>2
  <2>6. disk'.byKey = byKey
    BY <1>2, <1>7 DEF Memory
  <2>7. \A j \in MediaKey : byKey'[j] = None <=> byKey[j] = None
    <3>1. byKey[k] # None /\ byKey'[k] # None
      <4>1. [byKey[k] EXCEPT !.UpdatedAt = t] \in TraceState
        BY <1>5 DEF TraceState
      <4>. QED  BY <1>5, <2>4, <4>1
    <3>. QED  BY <2>4, <3>1
  <2>. QED  BY <1>7, <2>1, <2>2, <2>5, <2>6, <2>7 DEF PollerWritesTime
<1>. QED  BY <1>7, <1>9, <1>10, <1>11 DEF DurableInv

\* One round of Sweep: the engine lets go of one trace and the file follows.
LEMMA SweepOneInv ==
    ASSUME DurableInv, SweepOne
    PROVE  DurableInv'
<1>1. IInv /\ TypeOK /\ clock \in Nat /\ clock \in Int
  BY DEF DurableInv, IInv, TypeOK
<1>2. disk = Memory /\ writes = <<>>
  BY LeadsEnd DEF DurableInv, SweepOne
<1>3. PICK k \in sweeping :
         /\ CloseTraces({k}, "timeout", clock)
         /\ writes' = CloseTxs(k)
         /\ sweeping' = sweeping \ {k}
  BY DEF SweepOne
<1>4. k \in Live /\ sweeping \subseteq Live /\ caller = "janitor" /\ "timeout" \in Outcome
  BY DEF DurableInv, Outcome
<1>5. disk' = disk /\ caller' = caller
  BY DEF SweepOne
<1>6. TypeOK'
  <2>1. dedup' \in [DedupKey -> Int \cup {None}] /\ clock' \in Nat
    BY <1>1 DEF SweepOne, TypeOK, StoreTypeOK
  <2>. QED  BY <1>1, <1>3, <1>4, <2>1, CloseTracesType
<1>7. IInv'
  BY <1>1, <1>3, <1>4, <1>6, CloseTracesInv
<1>8. Leads(disk', writes', Memory')
  BY <1>1, <1>2, <1>3, <1>4, <1>5, EndLeads
<1>9. sweeping' \subseteq Live'
  BY <1>3, <1>4 DEF CloseTraces, Delete, Live
<1>. QED  BY <1>4, <1>5, <1>7, <1>8, <1>9 DEF DurableInv, PollerWritesTime

\* A transaction is done: the ones after it still lead to the same end.
LEMMA CommitInv ==
    ASSUME DurableInv, Commit
    PROVE  DurableInv'
<1>1. IInv /\ Leads(disk, writes, Memory) /\ writes # <<>>
  BY DEF DurableInv, Commit
<1>2. Leads(Committed(disk, Head(writes)), Tail(writes), Memory)
  BY <1>1, LeadsRest
<1>3. /\ disk' = Committed(disk, Head(writes)) /\ writes' = Tail(writes)
      /\ UNCHANGED vars /\ sweeping' = sweeping /\ RunBy(caller)
  BY DEF Commit
<1>4. Memory' = Memory /\ Live' = Live
  BY <1>3 DEF vars, Memory, Live
<1>5. Leads(disk', writes', Memory')
  BY <1>2, <1>3, <1>4
<1>6. IInv'
  <2>1. TypeOK'
    BY <1>1, <1>3 DEF IInv, vars, TypeOK, StoreTypeOK
  <2>. QED  BY <1>1, <1>3, <2>1, IdleInv DEF vars
<1>7. sweeping' # {} => caller' = "janitor"
  BY <1>3 DEF RunBy, DurableInv
<1>8. PollerWritesTime'
  <2>. SUFFICES ASSUME caller' = "poller", writes' # <<>> PROVE FALSE
    BY DEF PollerWritesTime
  <2>1. caller = "poller"
    BY <1>3 DEF RunBy
  <2>2. Len(writes) = 1
    BY <1>1, <2>1 DEF DurableInv, PollerWritesTime
  <2>3. Tail(writes) \in Seq(Tx) /\ Len(Tail(writes)) = 0
    BY <1>1, <2>2, HeadTailProperties DEF Leads
  <2>. QED  BY <1>3, <2>3, EmptySeq
<1>9. sweeping' \subseteq Live'
  BY <1>3, <1>4 DEF DurableInv
<1>. QED  BY <1>5, <1>6, <1>7, <1>8, <1>9 DEF DurableInv

\* The end of the process, at any moment, and the next one.
LEMMA ReopenDurable ==
    ASSUME DurableInv, Reopen
    PROVE  DurableInv'
<1>1. IInv /\ TypeOK /\ disk \in GoodFile
  BY LeadsGood DEF DurableInv, IInv
<1>2. IInv'
  BY <1>1, ReopenInv
<1>3. Leads(disk', writes', Memory')
  BY <1>1, ReopenLeads DEF Reopen
<1>4. sweeping' = {} /\ RunBy("main")
  BY DEF Reopen
<1>5. (sweeping # {} => caller = "janitor")' /\ PollerWritesTime'
  BY <1>4, RunByOther
<1>. QED  BY <1>2, <1>3, <1>4, <1>5 DEF DurableInv

\* A step that leaves the engine, the file and what is to be written alone.
LEMMA QuietInv ==
    ASSUME DurableInv, TypeOK', UNCHANGED <<byKey, byDLID, closed, ctxByKey, open>>,
           UNCHANGED <<disk, writes>>, sweeping' \subseteq Live,
           sweeping' # {} => caller' = "janitor", PollerWritesTime'
    PROVE  DurableInv'
<1>1. IInv'
  BY IdleInv DEF DurableInv
<1>2. Memory' = Memory /\ Live' = Live
  BY DEF Memory, Live
<1>. QED  BY <1>1, <1>2 DEF DurableInv

\* Every step of every caller, of the file and of the process.
LEMMA DurableNextInv == DurableInv /\ [DurableNext]_durableVars => DurableInv'
<1>. SUFFICES ASSUME DurableInv, [DurableNext]_durableVars PROVE DurableInv'
  OBVIOUS
<1>1. TypeOK
  BY DEF DurableInv, IInv
<1>2. CASE BeginSweep
  <2>1. /\ UNCHANGED vars /\ UNCHANGED <<disk, writes>> /\ writes = <<>>
        /\ sweeping' = Stale(maxTraceDuration, clock) /\ RunBy("janitor")
    BY <1>2 DEF BeginSweep, Idle
  <2>2. TypeOK' /\ UNCHANGED <<byKey, byDLID, closed, ctxByKey, open>>
    BY <1>1, <2>1 DEF vars, TypeOK, StoreTypeOK
  <2>3. sweeping' \subseteq Live
    BY <2>1 DEF Stale
  <2>4. (sweeping' # {} => caller' = "janitor") /\ PollerWritesTime'
    BY <2>1 DEF RunBy, PollerWritesTime
  <2>. QED  BY <2>1, <2>2, <2>3, <2>4, QuietInv
<1>3. CASE Pass
  <2>1. Tick /\ UNCHANGED <<disk, writes, caller, sweeping>> /\ writes = <<>>
    BY <1>3 DEF Pass, Idle
  <2>2. TypeOK' /\ UNCHANGED <<byKey, byDLID, closed, ctxByKey, open>>
    BY <1>1, <2>1 DEF Tick, TypeOK, StoreTypeOK
  <2>3. PollerWritesTime'
    BY <2>1 DEF PollerWritesTime
  <2>. QED  BY <2>1, <2>2, <2>3, QuietInv DEF DurableInv
<1>4. CASE UNCHANGED durableVars
  <2>1. UNCHANGED vars /\ UNCHANGED <<disk, writes, caller, sweeping>>
    BY <1>4 DEF durableVars
  <2>2. TypeOK' /\ UNCHANGED <<byKey, byDLID, closed, ctxByKey, open>>
    BY <1>1, <2>1 DEF vars, TypeOK, StoreTypeOK
  <2>3. PollerWritesTime'
    BY <2>1, <2>2 DEF DurableInv, PollerWritesTime
  <2>. QED  BY <2>1, <2>2, <2>3, QuietInv DEF DurableInv
<1>. QED  BY <1>2, <1>3, <1>4, ReceiveInv, ReportStallInv, SweepOneInv, CommitInv,
             ReopenDurable DEF DurableNext, Crash, Stop

\* Whatever half of a handler a crash leaves behind, the file can be opened
\* again, and the transactions left lead it to what the engine holds.
THEOREM DurableInvariance == DurableSpec => []DurableInv
<1>. QED  BY DurableInitInv, DurableNextInv, PTL DEF DurableSpec

-----------------------------------------------------------------------------
(* What the invariant gives. *)

\* boltStore's tables in memory and its buckets hold the same whenever a
\* handler is done, after any crash.
THEOREM MirrorHolds == DurableSpec => []MemoryMirrorsFile
<1>1. DurableInv => MemoryMirrorsFile
  <2>. SUFFICES ASSUME DurableInv, writes = <<>> PROVE disk = Memory
    BY DEF MemoryMirrorsFile, Memory
  <2>. QED  BY LeadsEnd DEF DurableInv
<1>. QED  BY <1>1, DurableInvariance, PTL

\* What the engine guarantees of its contexts, trace ids, handles, spans and
\* attempts it still guarantees when the process dies between any two
\* transactions, and not only between two handlers.
THEOREM SafeAcrossCrashes ==
    DurableSpec => [](/\ TypeOK /\ ContextsMatchTraces /\ TraceIdsUnique
                      /\ HandlesAreOpen /\ NoLeakedSpan /\ AttemptsAscend)
<1>1. DurableInv => /\ TypeOK /\ ContextsMatchTraces /\ TraceIdsUnique
                    /\ HandlesAreOpen /\ NoLeakedSpan /\ AttemptsAscend
  BY DEF DurableInv, IInv
<1>. QED  BY <1>1, DurableInvariance, PTL

\* What a new process has of the traces and the records: what the file has.
LEMMA ReopenKeeps ==
    ASSUME DurableInv, Reopen
    PROVE  /\ closed' = disk.closed
           /\ \A k \in MediaKey :
                 byKey'[k] = IF disk.byKey[k] = None THEN None
                             ELSE ResumedTrace(disk.byKey[k])
BY DEF Reopen, Stored

\* run waits for the server and the janitor before it closes the store
\* (main.go:173-176): a stop on a signal loses no trace and no record.
THEOREM StopSaves == DurableSpec => StopLosesNothing
<1>1. ASSUME DurableInv, Stop
      PROVE  /\ closed' = closed
             /\ \A k \in MediaKey :
                   byKey'[k] = IF byKey[k] = None THEN None
                               ELSE [ResumedTrace(byKey[k]) EXCEPT
                                        !.UpdatedAt = byKey'[k].UpdatedAt]
  <2>1. /\ closed' = disk.closed
        /\ \A k \in MediaKey :
              byKey'[k] = IF disk.byKey[k] = None THEN None
                          ELSE ResumedTrace(disk.byKey[k])
    BY <1>1, ReopenKeeps DEF Stop
  <2>2. disk \in GoodFile /\ disk.byKey \in [MediaKey -> TraceState \cup {None}]
    BY <1>1, LeadsGood DEF DurableInv, GoodFile, File
  <2>3. /\ disk.closed = closed
        /\ \A k \in MediaKey : byKey[k] = None <=> disk.byKey[k] = None
        /\ \A k \in MediaKey :
              byKey[k] = IF disk.byKey[k] = None THEN None
                         ELSE [disk.byKey[k] EXCEPT !.UpdatedAt = byKey[k].UpdatedAt]
    <3>1. CASE Idle
      <4>1. disk.byKey = byKey /\ disk.closed = closed
        BY <1>1, <3>1, IdleFile DEF Memory
      <4>2. ASSUME NEW k \in MediaKey, byKey[k] # None
            PROVE  byKey[k] = [byKey[k] EXCEPT !.UpdatedAt = byKey[k].UpdatedAt]
        <5>1. byKey[k] \in TraceState
          BY <2>2, <4>1, <4>2
        <5>. QED  BY <5>1 DEF TraceState
      <4>. QED  BY <4>1, <4>2
    <3>2. CASE ~Idle
      <4>1. caller = "poller"
        BY <1>1, <3>2 DEF Stop, Drained
      <4>2. sweeping = {} /\ writes # <<>>
        BY <1>1, <3>2, <4>1 DEF DurableInv, Idle
      <4>. QED  BY <1>1, <4>1, <4>2 DEF DurableInv, PollerWritesTime
    <3>. QED  BY <3>1, <3>2
  <2>4. ASSUME NEW k \in MediaKey
        PROVE  byKey'[k] = IF byKey[k] = None THEN None
                           ELSE [ResumedTrace(byKey[k]) EXCEPT
                                    !.UpdatedAt = byKey'[k].UpdatedAt]
    <3>1. CASE disk.byKey[k] = None
      BY <2>1, <2>3, <3>1
    <3>2. CASE disk.byKey[k] # None
      <4>1. disk.byKey[k] \in TraceState
        BY <2>2, <3>2
      <4>2. byKey[k] = [disk.byKey[k] EXCEPT !.UpdatedAt = byKey[k].UpdatedAt]
        BY <2>3, <3>2
      <4>3. byKey'[k] = ResumedTrace(disk.byKey[k])
        BY <2>1, <3>2
      <4>4. byKey[k] # None
        BY <2>3, <3>2
      <4>5. ResumedTrace(disk.byKey[k]) =
              [ResumedTrace(byKey[k]) EXCEPT !.UpdatedAt = ResumedTrace(disk.byKey[k]).UpdatedAt]
        BY <4>1, <4>2 DEF TraceState, ResumedTrace
      <4>. QED  BY <4>3, <4>4, <4>5
    <3>. QED  BY <3>1, <3>2
  <2>. QED  BY <2>1, <2>3, <2>4
<1>2. ASSUME DurableInv, Stop \/ UNCHANGED durableVars \/ ~Stop
      PROVE  [Stop =>
               /\ closed' = closed
               /\ \A k \in MediaKey :
                     byKey'[k] = IF byKey[k] = None THEN None
                                 ELSE [ResumedTrace(byKey[k]) EXCEPT
                                          !.UpdatedAt = byKey'[k].UpdatedAt]]_durableVars
  BY <1>1, <1>2
<1>. QED  BY <1>2, DurableInvariance, PTL DEF StopLosesNothing

\* SeenEvent's transaction comes before anything else of a handler
\* (engine.go:179): whenever the process dies, an event that was taken in is
\* not taken in again within the time to live.
THEOREM DedupOnce == DurableSpec => AcceptedOnce
<1>1. ASSUME DurableInv, [DurableNext]_durableVars
      PROVE  \A i \in DedupKey :
                dedup[i] # None /\ dedup'[i] # dedup[i] =>
                    dedup'[i] # None /\ dedup[i] <= clock + Skew - dedupTTL
  <2>1. TypeOK /\ clock \in Nat /\ dedup \in [DedupKey -> Int \cup {None}]
    BY <1>1 DEF DurableInv, IInv, TypeOK, StoreTypeOK
  <2>2. CASE Receive
    <3>1. PICK new \in NewIds, ev \in Event : \E t \in Stamps(ev) : Process(ev, t, new)
      BY <2>2 DEF Receive
    <3>2. PICK t \in Stamps(ev) : Process(ev, t, new)
      BY <3>1
    <3>3. t \in Int /\ t <= clock + Skew
      BY <2>1 DEF Stamps
    <3>4. \/ dedup' = dedup
          \/ /\ ~BoltSeen(DedupKeyOf(ev), t)
             /\ dedup' = [dedup EXCEPT ![DedupKeyOf(ev)] = t]
      BY <3>2 DEF Process, DropDuplicate, OnRequestOpened, OnRequestApproved, OnRequestClosed,
                  OnGrabbed, OnDownloadStart, OnDownloadDone, OnImported, OnManualNeeded,
                  Accept, RecordEvent, RejectEvent, AlreadySeen
    <3>5. ASSUME NEW i \in DedupKey, dedup[i] # None, dedup'[i] # dedup[i]
          PROVE  dedup'[i] # None /\ dedup[i] <= clock + Skew - dedupTTL
      <4>1. i = DedupKeyOf(ev) /\ dedup'[i] = t /\ ~BoltSeen(i, t)
        BY <2>1, <3>4, <3>5
      <4>2. dedup[i] \in Int /\ ~(dedup[i] > t - dedupTTL)
        BY <2>1, <3>5, <4>1 DEF BoltSeen
      <4>. QED  BY <2>1, <3>3, <4>1, <4>2
    <3>. QED  BY <3>5
  <2>3. CASE dedup' = dedup
    BY <2>3
  <2>4. ~Receive => dedup' = dedup
    BY <1>1 DEF DurableNext, ReportStall, BeginSweep, SweepOne, Pass, Tick, Commit, vars,
                Crash, Stop, Reopen, durableVars
  <2>. QED  BY <2>2, <2>3, <2>4
<1>. QED  BY <1>1, DurableInvariance, PTL DEF DurableSpec, AcceptedOnce

-----------------------------------------------------------------------------
(* The file implements DurableLifecycle. *)

\* What DurableLifecycle is shown: the traces and the records of the file, and
\* the trace that the transactions left begin by recording.
Seen(s) == IF s = None THEN None ELSE [Id |-> s.TraceID, Attempt |-> s.Attempt]
Traces == [k \in MediaKey |-> FileTrace(k)]
Records == [k \in MediaKey |-> FileRecord(k)]

EndingOf(W) ==
    IF W # <<>> /\ Head(W).op = "remember"
    THEN [Key |-> Head(W).key,
          Trace |-> [Id |-> Head(W).record.TraceID, Attempt |-> Head(W).record.Attempt]]
    ELSE None

\* A trace and a record are seen as present, with their own id and number.
LEMMA SeenIsPresent ==
    ASSUME NEW s \in TraceState \cup ClosedTrace
    PROVE  /\ Seen(s) # None /\ Seen(s) \in D!Trace
           /\ Seen(s) = [Id |-> s.TraceID, Attempt |-> s.Attempt]
           /\ Seen(s).Id = s.TraceID /\ Seen(s).Attempt = s.Attempt
<1>1. s # None /\ s.TraceID \in SpanId /\ s.Attempt \in Nat
  BY DEF TraceState, ClosedTrace
<1>2. Seen(s) = [Id |-> s.TraceID, Attempt |-> s.Attempt]
  BY <1>1 DEF Seen
<1>3. Seen(s) \in D!Trace /\ Seen(s) \in L!Trace
  BY <1>1, <1>2 DEF D!Trace, L!Trace
<1>4. Seen(s) # None
  BY <1>3, IdentityAssumption
<1>. QED  BY <1>2, <1>3, <1>4

\* The file is seen key by key, before a step and after it.
LEMMA FileSeen ==
    /\ Traces = [k \in MediaKey |-> Seen(disk.byKey[k])]
    /\ Records = [k \in MediaKey |-> Seen(disk.closed[k])]
    /\ FileEnding = EndingOf(writes)
    /\ Traces' = [k \in MediaKey |-> Seen(disk'.byKey[k])]
    /\ Records' = [k \in MediaKey |-> Seen(disk'.closed[k])]
    /\ FileEnding' = EndingOf(writes')
BY DEF Traces, Records, FileTrace, FileRecord, Seen, FileEnding, EndingOf

\* Of a sequence of transactions only the first two matter to a step.
LEMMA FirstTwo ==
    ASSUME NEW W \in Seq(Tx), W # <<>>
    PROVE  /\ Tail(W) # <<>> <=> 1 < Len(W)
           /\ 1 < Len(W) => Head(Tail(W)) = W[2]
<1>1. Len(W) \in Nat /\ Len(W) > 0
  BY EmptySeq, LenProperties
<1>2. /\ Tail(W) \in Seq(Tx) /\ Len(Tail(W)) = Len(W) - 1
      /\ \A i \in 1 .. Len(W) - 1 : Tail(W)[i] = W[i + 1]
  BY HeadTailProperties
<1>3. Tail(W) # <<>> <=> 1 < Len(W)
  BY <1>1, <1>2, EmptySeq
<1>4. ASSUME 1 < Len(W) PROVE Head(Tail(W)) = W[2]
  <2>1. Head(Tail(W)) = Tail(W)[1]
    BY <1>2, <1>3, <1>4, HeadTailProperties
  <2>2. Tail(W)[1] = W[2]
    BY <1>1, <1>2, <1>4
  <2>. QED  BY <2>1, <2>2
<1>. QED  BY <1>3, <1>4

\* After a transaction that deletes nothing no record is due.
LEMMA NothingDue ==
    ASSUME NEW file, NEW W \in Seq(Tx), W # <<>>, Legal(file, W, 1), W[1].op # "delete"
    PROVE  EndingOf(Tail(W)) = None
<1>1. 1 < Len(W) => W[2].op # "remember"
  BY DEF Legal
<1>. QED  BY <1>1, FirstTwo DEF EndingOf

\* A transaction in terms of its arguments.
LEMMA TxCases ==
    ASSUME NEW tx \in Tx
    PROVE  \/ tx.op = "put" /\ tx.key \in MediaKey /\ tx.trace \in TraceState
              /\ tx = PutTx(tx.key, tx.trace)
           \/ tx.op = "delete" /\ tx.key \in MediaKey /\ tx.id \in DownloadID \cup {None}
              /\ tx = DeleteTx(tx.key, tx.id)
           \/ tx.op = "remember" /\ tx.key \in MediaKey /\ tx.record \in ClosedTrace
              /\ tx = RememberTx(tx.key, tx.record)
           \/ tx.op = "forget" /\ tx.key \in MediaKey /\ tx = ForgetTx(tx.key)
<1>1. CASE tx \in [op : {"put"}, key : MediaKey, trace : TraceState]
  BY <1>1 DEF PutTx
<1>2. CASE tx \in [op : {"delete"}, key : MediaKey, id : DownloadID \cup {None}]
  BY <1>2 DEF DeleteTx
<1>3. CASE tx \in [op : {"remember"}, key : MediaKey, record : ClosedTrace]
  BY <1>3 DEF RememberTx
<1>4. CASE tx \in [op : {"forget"}, key : MediaKey]
  BY <1>4 DEF ForgetTx
<1>. QED  BY <1>1, <1>2, <1>3, <1>4 DEF Tx

\* A put begins a trace, or is not seen.
LEMMA PutSeen ==
    ASSUME disk \in GoodFile, NEW k \in MediaKey, NEW s \in TraceState, SoundPut(disk, k, s),
           disk' = Committed(disk, PutTx(k, s)), FileEnding = None, FileEnding' = None
    PROVE  D!Begin(k) \/ UNCHANGED <<Traces, Records, FileEnding>>
<1>1. disk \in File /\ disk.byKey \in [MediaKey -> TraceState \cup {None}]
  BY DEF GoodFile, File
<1>2. disk'.byKey = [disk.byKey EXCEPT ![k] = s] /\ disk'.closed = disk.closed
  BY <1>1, PutCommitted
<1>3. /\ Records' = Records
      /\ Traces' = [Traces EXCEPT ![k] = Seen(s)]
  BY <1>1, <1>2, FileSeen
<1>4. CASE disk.byKey[k] # None
  <2>1. disk.byKey[k] \in TraceState
    BY <1>1, <1>4
  <2>2. Seen(s) = Seen(disk.byKey[k])
    BY <1>4, <2>1, SeenIsPresent DEF SoundPut
  <2>3. Traces[k] = Seen(s)
    BY <2>2, FileSeen
  <2>4. Traces = [j \in MediaKey |-> Seen(disk.byKey[j])]
    BY FileSeen
  <2>5. Traces' = Traces
    BY <1>3, <2>3, <2>4
  <2>. QED  BY <1>3, <2>5
<1>5. CASE disk.byKey[k] = None
  <2>1. /\ Traces[k] = None /\ Traces'[k] = Seen(s) /\ Seen(s) \in D!Trace
        /\ Seen(s).Id = s.TraceID /\ Seen(s).Attempt = s.Attempt
    BY <1>3, <1>5, FileSeen, SeenIsPresent DEF Traces, Seen
  <2>2. ASSUME NEW j \in MediaKey
        PROVE  /\ Traces[j] # None => Traces[j].Id # s.TraceID
               /\ Records[j] # None => Records[j].Id # s.TraceID
    <3>1. /\ disk.byKey[j] \in TraceState \cup {None}
          /\ disk.closed[j] \in ClosedTrace \cup {None}
      BY <1>1 DEF File
    <3>2. Traces[j] = Seen(disk.byKey[j]) /\ Records[j] = Seen(disk.closed[j])
      BY FileSeen
    <3>3. CASE Traces[j] # None
      <4>1. disk.byKey[j] # None
        BY <3>2, <3>3 DEF Seen
      <4>. QED  BY <1>5, <3>1, <3>2, <4>1, SeenIsPresent DEF SoundPut, Seen
    <3>4. Records[j] # None => Records[j].Id # s.TraceID
      BY <1>5, <3>1, <3>2, SeenIsPresent DEF SoundPut, Seen
    <3>5. Traces[j] # None => Traces[j].Id # s.TraceID
      BY <1>5, <3>1, <3>2, SeenIsPresent DEF SoundPut, Seen
    <3>. QED  BY <3>4, <3>5
  <2>3. \A j \in MediaKey \ {k} : Traces'[j] = Traces[j] /\ Records'[j] = Records[j]
    BY <1>3 DEF Traces
  <2>4. Records'[k] # None => Records'[k].Attempt < s.Attempt
    <3>1. disk.closed[k] \in ClosedTrace \cup {None} /\ Records[k] = Seen(disk.closed[k])
      BY <1>1, FileSeen DEF File
    <3>. QED  BY <1>3, <1>5, <3>1, SeenIsPresent DEF SoundPut, Seen
  <2>5. D!Open(k)
    BY <1>3, <2>1, <2>2, <2>3, <2>4 DEF D!Open, D!InUse, D!Trace, Traces, Records
  <2>. QED  BY <2>5 DEF D!Begin
<1>. QED  BY <1>4, <1>5

\* A deletion is the end of a trace, whose record is the next transaction.
LEMMA DeleteSeen ==
    ASSUME disk \in GoodFile, NEW k \in MediaKey, NEW d \in DownloadID \cup {None},
           disk.byKey[k] # None, disk' = Committed(disk, DeleteTx(k, d)),
           FileEnding = None,
           FileEnding' = [Key |-> k, Trace |-> [Id |-> disk.byKey[k].TraceID,
                                                Attempt |-> disk.byKey[k].Attempt]]
    PROVE  D!End(k)
<1>1. disk \in File /\ disk.byKey[k] \in TraceState
  BY DEF GoodFile, File
<1>2. disk'.byKey = [disk.byKey EXCEPT ![k] = None] /\ disk'.closed = disk.closed
  BY <1>1, DeleteCommitted
<1>3. Records' = Records /\ Traces' = [Traces EXCEPT ![k] = None]
  <2>1. Seen(None) = None
    BY DEF Seen
  <2>2. disk.byKey \in [MediaKey -> TraceState \cup {None}]
    BY <1>1 DEF File
  <2>3. /\ Traces = [j \in MediaKey |-> Seen(disk.byKey[j])]
        /\ Traces' = [j \in MediaKey |-> Seen(disk'.byKey[j])]
        /\ Records' = Records
    BY <1>2, FileSeen
  <2>4. \A j \in MediaKey : disk'.byKey[j] = IF j = k THEN None ELSE disk.byKey[j]
    BY <1>2, <2>2
  <2>. QED  BY <2>1, <2>3, <2>4
<1>4. Traces[k] # None /\ FileEnding' = [Key |-> k, Trace |-> Traces[k]]
  BY <1>1, FileSeen, SeenIsPresent
<1>. QED  BY <1>3, <1>4 DEF D!End, Traces, Records

\* The record of the trace that has ended.
LEMMA RememberSeen ==
    ASSUME disk \in GoodFile, NEW k \in MediaKey, NEW c \in ClosedTrace,
           disk' = Committed(disk, RememberTx(k, c)),
           FileEnding = [Key |-> k, Trace |-> [Id |-> c.TraceID, Attempt |-> c.Attempt]],
           FileEnding' = None
    PROVE  D!Record
<1>1. disk \in File
  BY DEF GoodFile
<1>2. disk'.byKey = disk.byKey /\ disk'.closed = [disk.closed EXCEPT ![k] = c]
  BY <1>1, RememberCommitted
<1>3. FileEnding.Key = k /\ FileEnding.Trace = Seen(c)
  BY SeenIsPresent
<1>4. Traces' = Traces /\ Records' = [Records EXCEPT ![k] = Seen(c)]
  BY <1>1, <1>2, FileSeen DEF File
<1>5. FileEnding # None
  <2>1. FileEnding \in D!Ended
    BY SeenIsPresent DEF D!Ended
  <2>. QED  BY <2>1, EndingAssumption
<1>. QED  BY <1>3, <1>4, <1>5 DEF D!Record, Traces, Records

\* An expired record goes.
LEMMA ForgetSeen ==
    ASSUME disk \in GoodFile, NEW k \in MediaKey, disk' = Committed(disk, ForgetTx(k)),
           FileEnding = None, FileEnding' = None
    PROVE  D!Forget(k)
<1>1. disk \in File
  BY DEF GoodFile
<1>2. disk'.byKey = disk.byKey /\ disk'.closed = [disk.closed EXCEPT ![k] = None]
  BY <1>1, ForgetCommitted
<1>3. Traces' = Traces /\ Records' = [Records EXCEPT ![k] = None]
  <2>1. Seen(None) = None
    BY DEF Seen
  <2>. QED  BY <1>1, <1>2, <2>1, FileSeen DEF File
<1>. QED  BY <1>3 DEF D!Forget, Traces, Records

\* Every transaction is a step of DurableLifecycle, or is not seen.
LEMMA CommitSeen ==
    ASSUME DurableInv, Commit
    PROVE  [D!DurableNext]_<<Traces, Records, FileEnding>>
<1> DEFINE tx == Head(writes)
<1>1. /\ disk \in GoodFile /\ tx \in Tx /\ tx = writes[1] /\ Legal(disk, writes, 1)
      /\ writes \in Seq(Tx) /\ writes # <<>>
  BY LeadsRest DEF DurableInv, Commit, Leads
<1>2. disk' = Committed(disk, tx) /\ writes' = Tail(writes)
  BY DEF Commit
<1>3. D!Shape
  BY DEF D!Shape
<1>4. FileEnding = EndingOf(writes) /\ FileEnding' = EndingOf(Tail(writes))
  BY <1>2, FileSeen
<1>5. tx.op # "remember" => FileEnding = None
  BY <1>4 DEF EndingOf
<1>6. tx.op # "delete" => FileEnding' = None
  BY <1>1, <1>4, NothingDue
<1>7. Sound(disk, tx)
  BY <1>1 DEF Legal
<1>. HIDE DEF tx
<1>8. CASE /\ tx.op = "put" /\ tx.key \in MediaKey /\ tx.trace \in TraceState
           /\ tx = PutTx(tx.key, tx.trace)
  <2>1. SoundPut(disk, tx.key, tx.trace)
    BY <1>7, <1>8 DEF Sound
  <2>2. D!Begin(tx.key) \/ UNCHANGED <<Traces, Records, FileEnding>>
    BY <1>1, <1>2, <1>5, <1>6, <1>8, <2>1, PutSeen
  <2>. QED  BY <1>3, <1>8, <2>2 DEF D!DurableNext
<1>9. CASE /\ tx.op = "delete" /\ tx.key \in MediaKey /\ tx.id \in DownloadID \cup {None}
           /\ tx = DeleteTx(tx.key, tx.id)
  <2>1. disk.byKey[tx.key] # None
    BY <1>7, <1>9 DEF Sound
  <2>2. /\ 1 < Len(writes) /\ writes[2].op = "remember" /\ writes[2].key = tx.key
        /\ writes[2].record.TraceID = disk.byKey[tx.key].TraceID
        /\ writes[2].record.Attempt = disk.byKey[tx.key].Attempt
    BY <1>1, <1>9 DEF Legal
  <2>3. Tail(writes) # <<>> /\ Head(Tail(writes)) = writes[2]
    BY <1>1, <2>2, FirstTwo
  <2>4. FileEnding' = [Key |-> tx.key,
                       Trace |-> [Id |-> disk.byKey[tx.key].TraceID,
                                  Attempt |-> disk.byKey[tx.key].Attempt]]
    BY <1>4, <2>2, <2>3 DEF EndingOf
  <2>5. D!End(tx.key)
    BY <1>1, <1>2, <1>5, <1>9, <2>1, <2>4, DeleteSeen
  <2>. QED  BY <1>3, <1>9, <2>5 DEF D!DurableNext
<1>10. CASE /\ tx.op = "remember" /\ tx.key \in MediaKey /\ tx.record \in ClosedTrace
            /\ tx = RememberTx(tx.key, tx.record)
  <2>1. FileEnding = [Key |-> tx.key,
                      Trace |-> [Id |-> tx.record.TraceID, Attempt |-> tx.record.Attempt]]
    BY <1>1, <1>4, <1>10 DEF EndingOf, tx
  <2>2. D!Record
    BY <1>1, <1>2, <1>6, <1>10, <2>1, RememberSeen
  <2>. QED  BY <1>3, <2>2 DEF D!DurableNext
<1>11. CASE tx.op = "forget" /\ tx.key \in MediaKey /\ tx = ForgetTx(tx.key)
  <2>1. D!Forget(tx.key)
    BY <1>1, <1>2, <1>5, <1>6, <1>11, ForgetSeen
  <2>. QED  BY <1>3, <1>11, <2>1 DEF D!DurableNext
<1>. QED  BY <1>1, <1>8, <1>9, <1>10, <1>11, TxCases

\* The transactions of a handler do not begin with a record.
Starts(W) == W # <<>> => Head(W).op # "remember"

\* One part of a handler after another.
LEMMA StartsOn ==
    ASSUME NEW S, NEW V \in Seq(S), NEW W \in Seq(S), Starts(V), Starts(W)
    PROVE  V \o W \in Seq(S) /\ Starts(V \o W)
<1>1. V \o W \in Seq(S)
  BY ConcatProperties
<1>2. CASE V = <<>>
  <2>1. V \o W = W
    BY <1>2
  <2>. QED  BY <1>1, <2>1
<1>3. CASE V # <<>>
  <2>1. Len(V) \in Nat /\ Len(W) \in Nat /\ Len(V) > 0
    BY <1>3, EmptySeq, LenProperties
  <2>2. Len(V \o W) = Len(V) + Len(W) /\ (V \o W)[1] = V[1]
    BY <2>1, ConcatProperties
  <2>3. V \o W # <<>>
    BY <1>1, <2>1, <2>2, EmptySeq
  <2>4. Head(V \o W) = (V \o W)[1] /\ Head(V) = V[1]
    BY <1>1, <1>3, <2>3, HeadTailProperties
  <2>. QED  BY <1>1, <1>3, <2>2, <2>4 DEF Starts
<1>. QED  BY <1>2, <1>3

\* One put, and the end of a trace.
LEMMA SimpleStarts ==
    ASSUME NEW k, NEW s
    PROVE  Starts(<<>>) /\ Starts(<<PutTx(k, s)>>) /\ Starts(<<ForgetTx(k)>>) /\ Starts(CloseTxs(k))
BY DEF Starts, PutTx, ForgetTx, CloseTxs, DeleteTx

\* openRoot.
LEMMA OpenStarts ==
    ASSUME NEW ev, NEW t, NEW new, NEW S,
           ForgetTx(ev.Key) \in S, PutTx(ev.Key, NewTrace(ev, t, new)) \in S
    PROVE  OpenTxs(ev, t, new) \in Seq(S) /\ Starts(OpenTxs(ev, t, new))
<1> DEFINE V == RecallTxs(ev.Key, t)
           f == ForgetTx(ev.Key)
           p == PutTx(ev.Key, NewTrace(ev, t, new))
<1>1. V \in {<<>>, <<f>>}
  BY DEF RecallTxs
<1>2. Starts(<<>>) /\ Starts(<<p>>) /\ Starts(<<f>>)
  BY SimpleStarts
<1>3. OpenTxs(ev, t, new) = V \o <<p>>
  BY DEF OpenTxs
<1>4. f \in S /\ p \in S
  OBVIOUS
<1>. HIDE DEF V, f, p
<1>5. <<f>> \in Seq(S) /\ <<p>> \in Seq(S) /\ <<>> \in Seq(S)
  BY <1>4
<1>6. V \in Seq(S) /\ Starts(V)
  BY <1>1, <1>2, <1>5
<1>7. V \o <<p>> \in Seq(S) /\ Starts(V \o <<p>>)
  BY <1>2, <1>5, <1>6, StartsOn
<1>. QED  BY <1>3, <1>7

\* onGrabbed.
LEMMA GrabStarts ==
    ASSUME NEW ev, NEW t, NEW new
    PROVE  Starts(GrabTxs(ev, t, new))
<1> DEFINE k == ResolveTrace(ev.Key)
           j == IF k = None THEN ev.Key ELSE k
           before == IF k = None THEN NewTrace(ev, t, new) ELSE byKey[k]
           f == ForgetTx(ev.Key)
           p == PutTx(ev.Key, NewTrace(ev, t, new))
           p1 == PutTx(j, [byKey'[j] EXCEPT !.Download = before.Download, !.UpdatedAt = t])
           p2 == PutTx(j, byKey'[j])
           S == {f, p, p1, p2}
           U == IF k = None THEN OpenTxs(ev, t, new) ELSE <<>>
           W == IF byKey'[j].Download # before.Download THEN <<p2>> ELSE <<>>
<1>1. GrabTxs(ev, t, new) = (U \o <<p1>>) \o W
  BY DEF GrabTxs
<1>2. Starts(<<>>) /\ Starts(<<p1>>) /\ Starts(<<p2>>)
  BY SimpleStarts
<1>3. <<p1>> \in Seq(S) /\ <<p2>> \in Seq(S) /\ <<>> \in Seq(S)
  OBVIOUS
<1>4. f \in S /\ p \in S
  OBVIOUS
<1>. HIDE DEF p1, p2, S
<1>5. U \in Seq(S) /\ Starts(U)
  BY <1>2, <1>3, <1>4, OpenStarts
<1>6. W \in Seq(S) /\ Starts(W)
  BY <1>2, <1>3
<1>. HIDE DEF U, W
<1>7. U \o <<p1>> \in Seq(S) /\ Starts(U \o <<p1>>)
  BY <1>2, <1>3, <1>5, StartsOn
<1>. QED  BY <1>1, <1>6, <1>7, StartsOn

\* onImported.
LEMMA ImportStarts ==
    ASSUME NEW k, NEW t
    PROVE  Starts(ImportTxs(k, t))
<1> DEFINE p == PutTx(k, [byKey[k] EXCEPT !.Grab = None, !.Download = None, !.UpdatedAt = t])
           d == DeleteTx(k, byKey[k].DownloadID)
           r == RememberTx(k, closed'[k])
           W == IF IsOrphan(byKey[k]) THEN CloseTxs(k) ELSE <<>>
           S == {p, d, r}
<1>1. ImportTxs(k, t) = <<p>> \o W
  BY DEF ImportTxs
<1>2. Starts(<<p>>) /\ Starts(W)
  BY SimpleStarts
<1>3. W = <<d, r>> \/ W = <<>>
  BY DEF CloseTxs
<1>4. p \in S /\ d \in S /\ r \in S
  OBVIOUS
<1>. HIDE DEF p, d, r, W, S
<1>5. <<p>> \in Seq(S) /\ <<d, r>> \in Seq(S) /\ <<>> \in Seq(S)
  BY <1>4
<1>6. W \in Seq(S)
  BY <1>3, <1>5
<1>7. Starts(<<p>> \o W)
  BY <1>2, <1>5, <1>6, StartsOn
<1>. QED  BY <1>1, <1>7

\* Engine.Process.
LEMMA EventStarts ==
    ASSUME NEW ev \in Event, NEW t, NEW new
    PROVE  Starts(EventTxs(ev, t, new))
<1>. SUFFICES ASSUME NEW k PROVE Starts(TraceTxs(ev, k, t, new))
  BY DEF EventTxs
<1>1. ev.Phase \in Phase
  OBVIOUS
<1>2. Starts(OpenTxs(ev, t, new))
  <2> DEFINE S == {ForgetTx(ev.Key), PutTx(ev.Key, NewTrace(ev, t, new))}
  <2>1. ForgetTx(ev.Key) \in S /\ PutTx(ev.Key, NewTrace(ev, t, new)) \in S
    OBVIOUS
  <2>. HIDE DEF S
  <2>. QED  BY <2>1, OpenStarts
<1>3. /\ Starts(<<>>) /\ Starts(<<PutTx(k, byKey'[k])>>) /\ Starts(CloseTxs(k))
      /\ Starts(ImportTxs(k, t)) /\ Starts(GrabTxs(ev, t, new))
  BY SimpleStarts, ImportStarts, GrabStarts
<1>4. TraceTxs(ev, k, t, new) \in
         {<<>>, OpenTxs(ev, t, new), GrabTxs(ev, t, new), CloseTxs(k), ImportTxs(k, t),
          <<PutTx(k, byKey'[k])>>}
  BY <1>1 DEF TraceTxs, Phase
<1>. QED  BY <1>2, <1>3, <1>4

\* A handler that starts is not seen: the file is as the last one left it.
LEMMA HandlerSeen ==
    ASSUME writes = <<>>, disk' = disk, Starts(writes')
    PROVE  UNCHANGED <<Traces, Records, FileEnding>>
<1>1. EndingOf(writes) = None /\ EndingOf(writes') = None
  BY DEF EndingOf, Starts
<1>. QED  BY <1>1, FileSeen

\* The process dies: the trace whose record was due is not remembered.
LEMMA ReopenSeen ==
    ASSUME DurableInv, Reopen
    PROVE  [D!DurableNext]_<<Traces, Records, FileEnding>>
<1>1. disk' = disk /\ writes' \in Seq(Tx)
  BY ReopenDurable DEF Reopen, DurableInv, Leads
<1>2. Starts(writes')
  <2>1. PICK o : writes' = [i \in 1 .. Cardinality({k \in MediaKey : disk.byKey[k] # None})
                              |-> PutTx(o[i], Stored(o[i]))]
    BY DEF Reopen
  <2>. SUFFICES ASSUME writes' # <<>> PROVE Head(writes').op # "remember"
    BY DEF Starts
  <2>2. Len(writes') > 0 /\ Len(writes') \in Nat /\ Head(writes') = writes'[1]
        /\ DOMAIN writes' = 1 .. Len(writes')
    BY <1>1, EmptySeq, LenProperties, HeadTailProperties
  <2>3. 1 \in DOMAIN writes'
    BY <2>2
  <2>4. writes'[1] = PutTx(o[1], Stored(o[1]))
    BY <2>1, <2>3
  <2>. QED  BY <2>2, <2>4 DEF PutTx
<1>3. Traces' = Traces /\ Records' = Records /\ FileEnding' = None
  BY <1>1, <1>2, FileSeen DEF EndingOf, Starts
<1>4. CASE FileEnding = None
  BY <1>3, <1>4
<1>5. CASE FileEnding # None
  <2>1. D!Die
    BY <1>3, <1>5 DEF D!Die, Traces, Records
  <2>2. D!Shape
    BY DEF D!Shape
  <2>. QED  BY <2>1, <2>2 DEF D!DurableNext
<1>. QED  BY <1>4, <1>5

\* Every step of every caller, of the file and of the process.
LEMMA StepSeen ==
    ASSUME DurableInv, [DurableNext]_durableVars
    PROVE  [D!DurableNext]_<<Traces, Records, FileEnding>>
<1>1. CASE Receive
  <2>1. writes = <<>> /\ disk' = disk
    BY <1>1 DEF Receive, Idle
  <2>2. Starts(writes')
    BY <1>1, EventStarts, SimpleStarts DEF Receive
  <2>. QED  BY <2>1, <2>2, HandlerSeen
<1>2. CASE ReportStall
  <2>1. writes = <<>> /\ disk' = disk /\ Starts(writes')
    BY <1>2, SimpleStarts DEF ReportStall, Idle
  <2>. QED  BY <2>1, HandlerSeen
<1>3. CASE SweepOne
  <2>1. writes = <<>> /\ disk' = disk /\ Starts(writes')
    BY <1>3, SimpleStarts DEF SweepOne
  <2>. QED  BY <2>1, HandlerSeen
<1>4. CASE UNCHANGED <<disk, writes>>
  BY <1>4, FileSeen
<1>5. BeginSweep \/ Pass \/ UNCHANGED durableVars => UNCHANGED <<disk, writes>>
  BY DEF BeginSweep, Pass, durableVars
<1>. QED  BY <1>1, <1>2, <1>3, <1>4, <1>5, CommitSeen, ReopenSeen
          DEF DurableNext, Crash, Stop

\* boltStore's file, at any of its transactions and across any crash: a trace
\* begins under a new id and a number above the recorded one, no trace is both
\* in flight and remembered, and only the death of the process between Delete
\* and RememberClosed (engine.go:354-355) costs a record, that of one trace.
THEOREM DurableRefinement == DurableSpec => ImplementsDurableLifecycle
<1>1. DurableInit => D!DurableInit
  BY DEF DurableInit, Init, StoreInit, D!DurableInit, D!Init, FileTrace, FileRecord, FileEnding
<1>2. DurableInv /\ [DurableNext]_durableVars
         => [D!DurableNext]_<<Traces, Records, FileEnding>>
  BY StepSeen
<1>. QED  BY <1>1, <1>2, DurableInvariance, PTL
          DEF DurableSpec, ImplementsDurableLifecycle, D!DurableSpec, Traces, Records

=============================================================================
