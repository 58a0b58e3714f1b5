--------------------------- MODULE ProwlarrProofs ---------------------------
(***************************************************************************)
(* Proofs that the Prowlarr poller emits no search twice, and loses one    *)
(* only to a search of the same date or to a full page, for any number of  *)
(* searches, any page size and any error of the clocks.                    *)
(***************************************************************************)
EXTENDS ProwlarrPoller, FiniteSetTheorems, TLAPS

USE ConstantsAssumption

\* What is emitted lies at or before the cursor, which stands at one of its
\* dates once it has left the anchor; no date is later than the clock.
CursorInv ==
    /\ \A s \in Recorded : history[s] <= clock
    /\ emitted \subseteq Recorded
    /\ \A s \in emitted : history[s] <= cursor
    /\ cursor = anchor \/ \E r \in emitted : history[r] = cursor

\* A search that is not on the page in hand came after the page, or stands
\* behind a page's worth of searches.
PageInv ==
    polling =>
        /\ page \subseteq Recorded
        /\ \A s \in Recorded \ page :
              \/ \A r \in page : history[r] <= history[s]
              \/ /\ Cardinality(page) = pageSize
                 /\ \A r \in page : history[s] <= history[r]

PollerInv == TypeOK /\ CursorInv /\ PageInv /\ LostForAReason

\* The step property behind EmittedOnce: what a page adds is new.
LEMMA NewIsNew ==
    ASSUME TypeOK, CursorInv
    PROVE  New \cap emitted = {}
<1> SUFFICES ASSUME NEW s \in New, s \in emitted PROVE FALSE
  OBVIOUS
<1>1. history[s] > cursor /\ history[s] <= cursor
  BY DEF New, After, CursorInv
<1>2. history[s] \in Int /\ cursor \in Int
  BY DEF TypeOK, CursorInv, Recorded, Unrecorded
<1>. QED  BY <1>1, <1>2

\* Moving the cursor over the searches of a page leaves it at the date of
\* one of them, none of them after it.
LEMMA AdvanceEffect ==
    ASSUME TypeOK, New # {}, Advance(New)
    PROVE  /\ \E r \in New : history[r] = cursor'
           /\ \A r \in New : history[r] <= cursor'
           /\ cursor' \in Int /\ cursor < cursor'
<1>1. /\ cursor' \in {history[s] : s \in New}
      /\ \A s \in New : history[s] <= cursor'
  BY DEF Advance
<1>2. PICK r \in New : history[r] = cursor'
  BY <1>1
<1>3. history[r] \in Int /\ history[r] > cursor
  BY DEF TypeOK, New, After, Unrecorded
<1>. QED  BY <1>1, <1>2, <1>3 DEF TypeOK

\* Types.
LEMMA TypeStep ==
    ASSUME TypeOK, [Next]_vars
    PROVE  TypeOK'
<1>1. CASE Request
  BY <1>1 DEF Request, Pages, Recorded, TypeOK
<1>2. CASE DecodeFails
  BY <1>2 DEF DecodeFails, TypeOK
<1>3. CASE Handle
  <2>1. cursor' \in Int
    <3>1. CASE New = {}
      BY <1>3, <3>1 DEF Handle, Advance, TypeOK
    <3>2. CASE New # {}
      BY <1>3, <3>2, AdvanceEffect DEF Handle
    <3>. QED  BY <3>1, <3>2
  <2>. QED  BY <1>3, <2>1 DEF Handle, New, TypeOK
<1>4. CASE Restart
  <2>1. cursor' \in Int
    BY <1>4 DEF Restart, TypeOK, ConstantsAssumption
  <2>. QED  BY <1>4, <2>1 DEF Restart, TypeOK
<1>5. ASSUME NEW s \in Search, Record(s) PROVE TypeOK'
  BY <1>5 DEF Record, TypeOK
<1>6. CASE Tick
  BY <1>6 DEF Tick, TypeOK
<1>7. CASE UNCHANGED vars
  BY <1>7 DEF vars, TypeOK
<1>. QED  BY <1>1, <1>2, <1>3, <1>4, <1>5, <1>6, <1>7 DEF Next

\* The cursor.
LEMMA CursorStep ==
    ASSUME TypeOK, CursorInv, PageInv, [Next]_vars
    PROVE  CursorInv'
<1>1. CASE Request
  BY <1>1 DEF Request, CursorInv, Recorded
<1>2. CASE DecodeFails
  BY <1>2 DEF DecodeFails, CursorInv, Recorded
<1>3. CASE Handle
  <2>1. UNCHANGED <<history, anchor, clock>> /\ emitted' = emitted \cup New
    BY <1>3 DEF Handle
  <2>2. New \subseteq Recorded
    BY <1>3 DEF Handle, New, PageInv
  <2>3. CASE New = {}
    BY <1>3, <2>1, <2>3 DEF Handle, Advance, CursorInv, Recorded
  <2>4. CASE New # {}
    <3>1. /\ \E r \in New : history[r] = cursor'
          /\ \A r \in New : history[r] <= cursor'
          /\ cursor' \in Int /\ cursor < cursor'
      BY <1>3, <2>4, AdvanceEffect DEF Handle
    <3>2. \A s \in emitted : history[s] <= cursor'
      <4> SUFFICES ASSUME NEW s \in emitted PROVE history[s] <= cursor'
        OBVIOUS
      <4>1. history[s] <= cursor /\ history[s] \in Int /\ cursor \in Int
        BY DEF CursorInv, TypeOK, Recorded, Unrecorded
      <4>. QED  BY <3>1, <4>1
    <3>. QED  BY <2>1, <2>2, <3>1, <3>2 DEF CursorInv, Recorded
  <2>. QED  BY <2>3, <2>4
<1>4. CASE Restart
  BY <1>4 DEF Restart, CursorInv, Recorded
<1>5. ASSUME NEW s \in Search, Record(s) PROVE CursorInv'
  <2>1. /\ history' = [history EXCEPT ![s] = clock] /\ s \notin Recorded
        /\ UNCHANGED <<cursor, anchor, emitted, clock>>
    BY <1>5 DEF Record, Recorded
  <2>2. /\ history'[s] = clock /\ clock \in Nat
        /\ \A r \in Search \ {s} : history'[r] = history[r]
        /\ Recorded' = Recorded \cup {s}
    BY <2>1 DEF TypeOK, Recorded, Unrecorded
  <2>. QED  BY <2>1, <2>2 DEF CursorInv, Recorded
<1>6. CASE Tick
  <2>1. \A s \in Recorded : history[s] \in Int
    BY DEF TypeOK, Recorded, Unrecorded
  <2>. QED  BY <1>6, <2>1 DEF Tick, CursorInv, Recorded, TypeOK
<1>7. CASE UNCHANGED vars
  BY <1>7 DEF vars, CursorInv, Recorded
<1>. QED  BY <1>1, <1>2, <1>3, <1>4, <1>5, <1>6, <1>7 DEF Next

\* The page in hand.
LEMMA PageStep ==
    ASSUME TypeOK, CursorInv, PageInv, [Next]_vars
    PROVE  PageInv'
<1>1. CASE Request
  <2>1. page' \in Pages /\ UNCHANGED history
    BY <1>1 DEF Request
  <2>2. IsFiniteSet(page')
    BY <2>1, FS_Subset DEF Pages, Recorded
  <2>3. Cardinality(page') \in Nat
    BY <2>2, FS_CardinalityType
  <2>4. Cardinality(page') = pageSize \/ page' = Recorded
    BY <2>1, <2>3 DEF Pages
  <2>5. /\ page' \subseteq Recorded
        /\ \A s \in page', r \in Recorded \ page' : history[r] <= history[s]
    BY <2>1 DEF Pages
  <2>. QED  BY <2>1, <2>4, <2>5 DEF PageInv, Recorded
<1>2. CASE DecodeFails
  BY <1>2 DEF DecodeFails, PageInv
<1>3. CASE Handle
  BY <1>3 DEF Handle, PageInv
<1>4. CASE Restart
  BY <1>4 DEF Restart, PageInv
<1>5. ASSUME NEW s \in Search, Record(s), polling' PROVE PageInv'
  <2>1. /\ history' = [history EXCEPT ![s] = clock] /\ s \notin Recorded
        /\ UNCHANGED <<page, polling>>
    BY <1>5 DEF Record, Recorded
  <2>2. /\ history'[s] = clock /\ clock \in Nat
        /\ \A r \in Search \ {s} : history'[r] = history[r]
        /\ Recorded' = Recorded \cup {s}
    BY <2>1 DEF TypeOK, Recorded, Unrecorded
  <2>3. page \subseteq Recorded /\ s \notin page
    BY <1>5, <2>1 DEF PageInv
  <2>4. \A r \in page : history'[r] = history[r] /\ history'[r] <= history'[s]
    BY <2>2, <2>3 DEF CursorInv, Recorded
  <2>5. ASSUME NEW q \in Recorded' \ page'
        PROVE  \/ \A r \in page' : history'[r] <= history'[q]
               \/ /\ Cardinality(page') = pageSize
                  /\ \A r \in page' : history'[q] <= history'[r]
    <3>1. CASE q = s
      BY <2>1, <2>4, <3>1
    <3>2. CASE q # s
      BY <1>5, <2>1, <2>2, <2>4, <3>2 DEF PageInv, Recorded
    <3>. QED  BY <3>1, <3>2
  <2>. QED  BY <2>1, <2>2, <2>3, <2>5 DEF PageInv
<1>6. CASE Tick
  BY <1>6 DEF Tick, PageInv, Recorded
<1>7. CASE UNCHANGED vars
  BY <1>7 DEF vars, PageInv, Recorded
<1>. QED  BY <1>1, <1>2, <1>3, <1>4, <1>5, <1>6, <1>7 DEF Next, PageInv

\* A search that the cursor passes over is tied with an emitted one or
\* crowded out; neither is ever undone while the process runs.
LEMMA LostStep ==
    ASSUME PollerInv, [Next]_vars
    PROVE  LostForAReason'
<1>. USE DEF PollerInv
<1> DEFINE later(s) == {r \in Recorded \ {s} : history[s] <= history[r]}
           Reason(s) == \/ \E r \in emitted : history[r] = history[s]
                        \/ Cardinality(later(s)) >= pageSize
<1>1. ASSUME Recorded \subseteq Recorded', emitted \subseteq emitted',
             \A s \in Recorded : history'[s] = history[s],
             NEW s \in Recorded, Reason(s)
      PROVE  Reason(s)'
  <2>1. CASE \E r \in emitted : history[r] = history[s]
    BY <1>1, <2>1 DEF CursorInv
  <2>2. CASE Cardinality(later(s)) >= pageSize
    <3>1. later(s) \subseteq later(s)'
      BY <1>1
    <3>2. IsFiniteSet(later(s)) /\ IsFiniteSet(later(s)')
      <4>1. later(s) \subseteq Search /\ later(s)' \subseteq Search
        BY DEF Recorded
      <4>. QED  BY <4>1, FS_Subset DEF ConstantsAssumption
    <3>3. Cardinality(later(s)) <= Cardinality(later(s)')
      BY <3>1, <3>2, FS_Subset
    <3>4. Cardinality(later(s)) \in Nat /\ Cardinality(later(s)') \in Nat
      BY <3>2, FS_CardinalityType
    <3>5. Cardinality(later(s)') >= pageSize
      <4>. HIDE DEF later
      <4>. QED  BY <2>2, <3>3, <3>4 DEF ConstantsAssumption
    <3>. QED  BY <3>5
  <2>. QED  BY <1>1, <2>1, <2>2
<1>2. \A s \in Lost : Reason(s)
  BY DEF LostForAReason
<1>3. ASSUME UNCHANGED <<history, cursor, anchor, emitted>>
      PROVE  LostForAReason'
  BY <1>2, <1>3 DEF LostForAReason, Lost, Recorded
<1>4. CASE Handle
  <2>1. UNCHANGED <<history, anchor>> /\ emitted' = emitted \cup New
    BY <1>4 DEF Handle
  <2>2. CASE New = {}
    BY <1>3, <1>4, <2>1, <2>2 DEF Handle, Advance
  <2>3. CASE New # {}
    <3>1. /\ \E r \in New : history[r] = cursor'
          /\ \A r \in New : history[r] <= cursor'
          /\ cursor' \in Int /\ cursor < cursor'
      BY <1>4, <2>3, AdvanceEffect DEF Handle
    <3>2. SUFFICES ASSUME NEW s \in Lost' PROVE Reason(s)'
      BY DEF LostForAReason
    <3>3. /\ s \in Recorded /\ anchor < history[s] /\ history[s] <= cursor'
          /\ s \notin emitted /\ s \notin New /\ Recorded' = Recorded
      BY <2>1 DEF Lost, Recorded
    <3>4. CASE history[s] <= cursor
      <4>1. Reason(s)
        BY <1>2, <3>3, <3>4 DEF Lost
      <4>. QED  BY <1>1, <2>1, <3>3, <4>1
    <3>5. CASE history[s] > cursor
      <4>1. s \notin page
        BY <3>3, <3>5 DEF New, After
      <4>2. PICK r \in New : history[r] = cursor'
        BY <3>1
      <4>3. r \in page /\ page \subseteq Recorded
        BY <1>4, <4>2 DEF New, Handle, PageInv
      <4>4. \A q \in Recorded : history[q] \in Int
        BY DEF TypeOK, Recorded, Unrecorded
      <4>5. CASE \A q \in page : history[q] <= history[s]
        <5>1. history[r] = history[s]
          BY <3>3, <4>2, <4>3, <4>4, <4>5
        <5>. QED  BY <2>1, <4>2, <5>1
      <4>6. CASE Cardinality(page) = pageSize /\ \A q \in page : history[s] <= history[q]
        <5>1. page \subseteq later(s)
          BY <4>1, <4>3, <4>6
        <5>2. IsFiniteSet(later(s)) /\ later(s)' = later(s)
          <6>1. later(s) \subseteq Search
            BY DEF Recorded
          <6>. QED  BY <2>1, <6>1, FS_Subset DEF ConstantsAssumption, Recorded
        <5>3. Cardinality(page) <= Cardinality(later(s)')
          BY <5>1, <5>2, FS_Subset
        <5>. QED  BY <4>6, <5>3
      <4>. QED  BY <1>4, <3>3, <4>1, <4>5, <4>6 DEF Handle, PageInv
    <3>6. history[s] \in Int /\ cursor \in Int
      BY <3>3 DEF TypeOK, Recorded, Unrecorded
    <3>. QED  BY <3>4, <3>5, <3>6
  <2>. QED  BY <2>2, <2>3
<1>5. CASE Restart
  <2>1. Lost' = {}
    <3>1. cursor' \in Int /\ anchor' = cursor' /\ UNCHANGED history
      BY <1>5 DEF Restart, TypeOK, ConstantsAssumption
    <3>2. \A s \in Recorded' : history'[s] \in Int
      BY <3>1 DEF TypeOK, Recorded, Unrecorded
    <3>. QED  BY <3>1, <3>2 DEF Lost
  <2>. QED  BY <2>1 DEF LostForAReason
<1>6. ASSUME NEW s \in Search, Record(s) PROVE LostForAReason'
  <2>1. /\ history' = [history EXCEPT ![s] = clock] /\ s \notin Recorded
        /\ UNCHANGED <<cursor, anchor, emitted, clock>>
    BY <1>6 DEF Record, Recorded
  <2>2. /\ history'[s] = clock /\ clock \in Nat
        /\ \A r \in Search \ {s} : history'[r] = history[r]
        /\ Recorded' = Recorded \cup {s}
    BY <2>1 DEF TypeOK, Recorded, Unrecorded
  <2>3. SUFFICES ASSUME NEW q \in Lost' PROVE Reason(q)'
    BY DEF LostForAReason
  <2>4. CASE q = s
    <3>1. anchor < clock /\ clock <= cursor
      BY <2>1, <2>2, <2>4 DEF Lost
    <3>2. cursor # anchor
      BY <2>2, <3>1 DEF TypeOK
    <3>3. PICK r \in emitted : history[r] = cursor
      BY <3>2 DEF CursorInv
    <3>4. r \in Recorded /\ history[r] <= clock
      BY DEF CursorInv
    <3>5. history[r] = clock
      BY <2>2, <3>1, <3>3, <3>4 DEF TypeOK
    <3>6. history'[r] = history'[q]
      BY <2>1, <2>2, <2>4, <3>4, <3>5 DEF Recorded
    <3>. QED  BY <2>1, <3>6
  <2>5. CASE q # s
    <3>1. q \in Lost
      BY <2>1, <2>2, <2>5 DEF Lost, Recorded
    <3>2. q \in Recorded
      BY <3>1 DEF Lost
    <3>3. \A r \in Recorded : history'[r] = history[r]
      BY <2>1, <2>2 DEF Recorded
    <3>. QED  BY <1>1, <1>2, <2>1, <2>2, <3>1, <3>2, <3>3
  <2>. QED  BY <2>4, <2>5
<1>7. ASSUME Request \/ DecodeFails \/ Tick \/ UNCHANGED vars PROVE LostForAReason'
  BY <1>3, <1>7 DEF Request, DecodeFails, Tick, vars
<1>. QED  BY <1>4, <1>5, <1>6, <1>7 DEF Next

\* The poller's invariant holds in every state: for any number of searches,
\* any page size, failed polls, restarts, and any error of the clocks.
THEOREM Polling == Spec => []PollerInv
<1>1. Init => PollerInv
  <2> SUFFICES ASSUME Init PROVE PollerInv
    OBVIOUS
  <2>1. TypeOK
    <3>1. cursor \in Int
      BY DEF Init, ConstantsAssumption
    <3>2. history \in [Search -> Nat \cup {Unrecorded}]
      BY DEF Init
    <3>. QED  BY <3>1, <3>2 DEF Init, TypeOK
  <2>2. Recorded = {}
    BY DEF Init, Recorded, Unrecorded
  <2>. QED  BY <2>1, <2>2 DEF Init, PollerInv, CursorInv, PageInv, LostForAReason, Lost
<1>2. PollerInv /\ [Next]_vars => PollerInv'
  BY TypeStep, CursorStep, PageStep, LostStep DEF PollerInv
<1>. QED  BY <1>1, <1>2, PTL DEF Spec

\* A search is lost only to another of its date or to a full page.
THEOREM LossExplained == Spec => []LostForAReason
BY Polling, PTL DEF PollerInv

\* A process emits no search twice.
THEOREM NeverEmittedTwice == Spec => EmittedOnce
<1>1. PollerInv => [Handle => New \cap emitted = {}]_vars
  BY NewIsNew DEF PollerInv
<1>. QED  BY <1>1, Polling, PTL DEF EmittedOnce

=============================================================================
