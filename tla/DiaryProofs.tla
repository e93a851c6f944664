----------------------------- MODULE DiaryProofs -----------------------------
(***************************************************************************)
(* Two inductive invariants, and the steps of the components that preserve *)
(* them: Sound, behind type correctness, and Fits, behind replay and       *)
(* exactly-once. They speak of any process, fenced or not, so the fleet    *)
(* and the direct lives both rest on them.                                 *)
(***************************************************************************)
EXTENDS DiaryProperties, FiniteSetTheorems, SequenceTheorems, TLAPS

\* The rows of r are 1 .. n, and a run that is not there has none.
DenseDiary(r) ==
    /\ \E n \in Nat : DOMAIN diary[r] = 1 .. n
    /\ ~Exists(r) => DOMAIN diary[r] = {}

\* s is a prefix of r's diary.
Walked(s, r) ==
    \A i \in 1 .. Len(s) : i \in DOMAIN diary[r] /\ diary[r][i].event = s[i]

\* A life is on a run that exists, has walked over rows that are there, and
\* still knows the call it is in.
LifeOK(p) ==
    /\ pc[p] # "idle" => life[p].run \in Run
    /\ pc[p] = "idle" => life[p] = NoLife
    /\ life[p].run \in Run =>
          /\ Exists(life[p].run)
          /\ Walked(life[p].history, life[p].run)
          /\ Walked(life[p].seen, life[p].run)
    /\ pc[p] = "called" =>
          LET op == Agent(life[p].code, life[p].seen)
          IN  op \in Op /\ op.kind = "llm"
    /\ pc[p] \in {"acting", "tx"} =>
          /\ Len(life[p].seen) > 0
          /\ ActingOp(p) \in Op /\ ActingOp(p).kind = "effect"
    /\ pc[p] = "tx" /\ life[p].found =>
          KeySeq(p) \in DOMAIN keys[life[p].run]

\* The slot a grant is about to fill is at most the first free one.
GrantOK(h) ==
    grant[h].at # "idle" =>
        /\ grant[h].run \in Run
        /\ Exists(grant[h].run)
        /\ grant[h].seq > 0
        /\ \A i \in 1 .. grant[h].seq - 1 : i \in DOMAIN diary[grant[h].run]

Sound ==
    /\ DiaryTypeOK
    /\ pc \in [Proc -> PC]
    /\ life \in [Proc -> LifeRow]
    /\ ApprovalTypeOK
    /\ \A r \in Run : DenseDiary(r)
    /\ \A p \in Proc : LifeOK(p)
    /\ \A h \in Human : GrantOK(h)

----------------------------------------------------------------------------
(* Reading and inserting                                                   *)

\* Of 1 .. n, the i-th smallest is i.
LEMMA NthOfInterval ==
    ASSUME NEW n \in Nat, NEW i \in 1 .. n
    PROVE  Nth(1 .. n, i) = i
<1>1. ASSUME NEW k \in 1 .. n
      PROVE  Cardinality({j \in 1 .. n : j <= k}) = k
  <2>1. {j \in 1 .. n : j <= k} = 1 .. k
    OBVIOUS
  <2>2. Cardinality(1 .. k) = k
    BY FS_Interval, 1 \in Int, k \in Int
  <2> QED BY <2>1, <2>2
<1> DEFINE P(k) == Cardinality({j \in 1 .. n : j <= k}) = i
<1>2. P(i)
  BY <1>1
<1>3. \A k \in 1 .. n : P(k) => k = i
  BY <1>1
<1> HIDE DEF P
<1>4. (CHOOSE k \in 1 .. n : P(k)) = i
  BY <1>2, <1>3
<1> QED BY <1>4 DEF Nth, P

\* read_events of a dense diary returns its rows in order.
LEMMA ReadDense ==
    ASSUME NEW r, NEW n \in Nat, DOMAIN diary[r] = 1 .. n
    PROVE  ReadEvents(r) = [i \in 1 .. n |-> diary[r][i].event]
<1>1. Cardinality(1 .. n) = n
  BY FS_Interval, 1 \in Int, n \in Int
<1>2. \A i \in 1 .. n : Nth(1 .. n, i) = i
  BY NthOfInterval
<1>3. ReadEvents(r) = [i \in 1 .. n |-> diary[r][Nth(1 .. n, i)].event]
  BY <1>1 DEF ReadEvents
<1> QED BY <1>2, <1>3

\* What it returns is a sequence of events, a prefix of the diary.
LEMMA ReadSound ==
    ASSUME Sound, NEW r \in Run, NEW n \in Nat, DOMAIN diary[r] = 1 .. n
    PROVE  /\ ReadEvents(r) \in Seq(Event)
           /\ Len(ReadEvents(r)) = n
           /\ Walked(ReadEvents(r), r)
<1>1. ReadEvents(r) = [i \in 1 .. n |-> diary[r][i].event]
  BY ReadDense
<1>2. \A i \in 1 .. n : diary[r][i].event \in Event
  BY DEF Sound, DiaryTypeOK, EventRow
<1>3. [i \in 1 .. n |-> diary[r][i].event] \in Seq(Event)
  BY <1>2, IsASeq
<1>4. Len([i \in 1 .. n |-> diary[r][i].event]) = n
  BY <1>3
<1> QED BY <1>1, <1>3, <1>4 DEF Walked

\* Every row that was there is there, and every run, and every key.
Grows ==
    \A r \in Run :
        /\ Exists(r) => Exists(r)'
        /\ \A s \in DOMAIN diary[r] :
              s \in DOMAIN diary'[r] /\ diary'[r][s] = diary[r][s]
        /\ DOMAIN keys[r] \subseteq DOMAIN keys'[r]

\* A row inserted at a free slot at most one past the end is the next one.
LEMMA InsertNext ==
    ASSUME DiaryTypeOK, NEW r \in Run, NEW n \in Nat, DOMAIN diary[r] = 1 .. n,
           NEW seq \in 1 .. n + 1, ~Taken(r, seq),
           NEW e \in Event, NEW token \in Nat,
           InsertEvent(r, seq, e, token)
    PROVE  /\ seq = n + 1
           /\ DOMAIN diary' = Run
           /\ DOMAIN diary'[r] = 1 .. n + 1
           /\ diary'[r][n + 1] = [event |-> e, token |-> token]
           /\ \A s \in 1 .. n : diary'[r][s] = diary[r][s]
           /\ \A q \in Run : q # r => diary'[q] = diary[q]
<1>1. seq = n + 1
  BY DEF Taken
<1>2. diary'[r] = WithRow(diary[r], seq, e, token)
  BY DEF InsertEvent, DiaryTypeOK
<1>3. DOMAIN diary' = Run /\ \A q \in Run : q # r => diary'[q] = diary[q]
  BY DEF InsertEvent, DiaryTypeOK
<1> QED BY <1>1, <1>2, <1>3 DEF WithRow
----------------------------------------------------------------------------
(* What a step has to show                                                 *)

\* Lives and grants that a step leaves alone stay sound if the diaries grow.
LEMMA WalkedFrame ==
    ASSUME Grows, NEW r \in Run, NEW s, Walked(s, r)
    PROVE  Walked(s, r)'
BY DEF Grows, Walked

LEMMA LifeFrame ==
    ASSUME Sound, Grows, NEW p \in Proc, pc'[p] = pc[p], life'[p] = life[p]
    PROVE  LifeOK(p)'
<1>1. LifeOK(p)
  BY DEF Sound
<1>2. ASSUME life[p].run \in Run
      PROVE  /\ Exists(life[p].run)'
             /\ Walked(life[p].history, life[p].run)'
             /\ Walked(life[p].seen, life[p].run)'
  <2>1. PICK r, s, t :
            r \in Run /\ r = life[p].run /\ s = life[p].history /\ t = life[p].seen
    BY <1>2
  <2>2. Exists(r)' /\ Walked(s, r)' /\ Walked(t, r)'
    BY <1>1, <2>1, WalkedFrame DEF LifeOK, Grows
  <2>3. life'[p].run = r /\ life'[p].history = s /\ life'[p].seen = t
    BY <2>1
  <2> QED BY <2>2, <2>3 DEF Walked, Exists
<1>3. ActingOp(p)' = ActingOp(p) /\ KeySeq(p)' = KeySeq(p)
  BY DEF ActingOp, KeySeq
<1>4. pc[p] = "tx" /\ life[p].found => (KeySeq(p) \in DOMAIN keys[life[p].run])'
  BY <1>1, <1>3 DEF LifeOK, Grows
<1> QED BY <1>1, <1>2, <1>3, <1>4 DEF LifeOK

LEMMA GrantFrame ==
    ASSUME Sound, Grows, NEW h \in Human, grant'[h] = grant[h]
    PROVE  GrantOK(h)'
BY DEF Sound, GrantOK, Grows

\* A step that leaves the tables alone leaves them well-formed.
LEMMA ReadOnlyFrame ==
    ASSUME Sound, UNCHANGED <<runs, diary, keys, ledger, lock>>
    PROVE  /\ DiaryTypeOK'
           /\ \A r \in Run : DenseDiary(r)'
           /\ Grows
BY DEF Sound, DiaryTypeOK, DenseDiary, Exists, Grows

\* A step of one life.
LEMMA StepSound ==
    ASSUME Sound, NEW p \in Proc,
           DiaryTypeOK', \A r \in Run : DenseDiary(r)', Grows,
           pc'[p] \in PC, pc' = [pc EXCEPT ![p] = pc'[p]],
           life'[p] \in LifeRow, life' = [life EXCEPT ![p] = life'[p]],
           LifeOK(p)',
           UNCHANGED grant
    PROVE  Sound'
<1>1. pc' \in [Proc -> PC] /\ life' \in [Proc -> LifeRow]
  BY DEF Sound
<1>2. \A q \in Proc : q # p => pc'[q] = pc[q] /\ life'[q] = life[q]
  BY DEF Sound
<1>3. \A q \in Proc : LifeOK(q)'
  BY <1>2, LifeFrame
<1>4. \A h \in Human : GrantOK(h)'
  BY GrantFrame
<1>5. ApprovalTypeOK'
  BY DEF Sound, ApprovalTypeOK
<1> QED BY <1>1, <1>3, <1>4, <1>5 DEF Sound

\* A step that only moves a life to a place where it holds nothing.
LEMMA MoveSound ==
    ASSUME Sound, NEW p \in Proc, pc[p] # "idle",
           NEW l \in PC, l \notin {"idle", "called", "acting", "tx"},
           Goto(p, l), UNCHANGED life, ReadOnly, UNCHANGED grant
    PROVE  Sound'
<1>1. DiaryTypeOK' /\ (\A r \in Run : DenseDiary(r)') /\ Grows
  BY ReadOnlyFrame DEF ReadOnly
<1>2. /\ pc'[p] = l /\ pc' = [pc EXCEPT ![p] = pc'[p]]
      /\ life'[p] = life[p] /\ life' = [life EXCEPT ![p] = life'[p]]
      /\ life[p] \in LifeRow
  BY DEF Goto, Sound
<1>3. LifeOK(p)'
  BY <1>2 DEF Sound, LifeOK, Walked, Exists, ReadOnly
<1> QED BY <1>1, <1>2, <1>3, StepSound

----------------------------------------------------------------------------
(* The cursor                                                              *)

LEMMA AppendFacts ==
    ASSUME NEW S, NEW s \in Seq(S), NEW e \in S
    PROVE  /\ Append(s, e) \in Seq(S)
           /\ Len(Append(s, e)) = Len(s) + 1
           /\ \A i \in 1 .. Len(s) : Append(s, e)[i] = s[i]
           /\ Append(s, e)[Len(s) + 1] = e
           /\ SubSeq(Append(s, e), 1, Len(s)) = s
<1>1. /\ Append(s, e) \in Seq(S) /\ Len(s) \in Nat
      /\ Len(Append(s, e)) = Len(s) + 1
      /\ \A i \in 1 .. Len(s) : Append(s, e)[i] = s[i]
      /\ Append(s, e)[Len(s) + 1] = e
  OBVIOUS
<1> DEFINE t == SubSeq(Append(s, e), 1, Len(s))
<1>2. /\ t \in Seq(S) /\ Len(t) = Len(s)
      /\ \A i \in 1 .. Len(s) : t[i] = s[i]
  <2>1. \A i \in 1 .. Len(s) : Append(s, e)[i] \in S
    BY <1>1
  <2>2. /\ t \in Seq(S)
        /\ Len(t) = IF 1 <= Len(s) THEN Len(s) - 1 + 1 ELSE 0
        /\ \A i \in 1 .. Len(s) - 1 + 1 : t[i] = Append(s, e)[1 + i - 1]
    BY <1>1, <2>1, SubSeqProperties
  <2> QED BY <1>1, <2>2
<1>3. t = s
  BY <1>2, SeqEqual
<1> QED BY <1>1, <1>3

\* Where a life is after the cursor has passed one more event of the diary.
LEMMA SeeSound ==
    ASSUME Sound, NEW p \in Proc, pc[p] # "idle",
           NEW r \in Run, r = life[p].run,
           NEW e \in Event, NEW s, s = Append(life[p].seen, e), Walked(s, r)',
           NEW next \in {"agent", "acting", "asked"},
           next = "acting" =>
              LET op == Agent(life[p].code, life[p].seen)
              IN  op \in Op /\ op.kind = "effect",
           DiaryTypeOK', \A q \in Run : DenseDiary(q)', Grows,
           Goto(p, next), See(p, e), UNCHANGED grant
    PROVE  Sound'
<1>0. life[p] \in LifeRow /\ LifeOK(p)
  BY DEF Sound
<1>1. /\ s \in Seq(Event)
      /\ Len(life[p].seen) \in Nat
      /\ Len(s) = Len(life[p].seen) + 1
      /\ SubSeq(s, 1, Len(life[p].seen)) = life[p].seen
  BY <1>0, AppendFacts DEF LifeRow
<1>2. /\ life'[p] = [life[p] EXCEPT !.seen = s]
      /\ life' = [life EXCEPT ![p] = life'[p]]
      /\ pc'[p] = next /\ pc' = [pc EXCEPT ![p] = pc'[p]] /\ next \in PC
  BY DEF See, Goto, Sound, PC
<1>3. /\ life'[p] \in LifeRow
      /\ life'[p].run = r /\ life'[p].code = life[p].code
      /\ life'[p].history = life[p].history /\ life'[p].seen = s
  BY <1>0, <1>1, <1>2 DEF LifeRow
<1>4. LifeOK(p)'
  <2>1. PICK t : t = life[p].history
    OBVIOUS
  <2>2. Exists(r)' /\ Walked(t, r)'
    BY <1>0, <2>1, WalkedFrame DEF LifeOK, Grows
  <2>3. /\ Exists(life[p].run)'
        /\ Walked(life[p].history, life[p].run)'
        /\ Walked(life[p].seen, life[p].run)'
    BY <1>3, <2>1, <2>2 DEF Walked, Exists
  <2>4. SubSeq(life'[p].seen, 1, Len(life'[p].seen) - 1) = life[p].seen
    BY <1>1, <1>3
  <2>5. ActingOp(p)' = Agent(life[p].code, life[p].seen)
    BY <1>3, <2>4 DEF ActingOp
  <2>6. pc'[p] \notin {"called", "tx"}
    BY <1>2
  <2> QED BY <1>1, <1>2, <1>3, <2>3, <2>5, <2>6 DEF LifeOK
<1> QED BY <1>2, <1>3, <1>4, StepSound

\* Replaying moves the cursor over the next event of the snapshot, or stops.
LEMMA ReplaySound ==
    ASSUME Sound, NEW p \in Proc, pc[p] # "idle",
           NEW matches, NEW next \in {"agent", "acting", "asked"},
           next = "acting" =>
              LET op == Agent(life[p].code, life[p].seen)
              IN  op \in Op /\ op.kind = "effect",
           Replay(p, matches, next), UNCHANGED grant
    PROVE  Sound'
<1>0. /\ life[p] \in LifeRow /\ life[p].run \in Run /\ LifeOK(p)
  BY DEF Sound, LifeOK
<1>1. /\ life[p].seen \in Seq(Event) /\ life[p].history \in Seq(Event)
      /\ Len(life[p].seen) + 1 \in 1 .. Len(life[p].history)
      /\ NextRecorded(p) \in Event
  BY <1>0 DEF Replay, Replaying, NextRecorded, LifeRow
<1>2. CASE matches
  <2>1. Goto(p, next) /\ See(p, NextRecorded(p)) /\ ReadOnly
    BY <1>2 DEF Replay
  <2>2. DiaryTypeOK' /\ (\A q \in Run : DenseDiary(q)') /\ Grows
    BY <2>1, ReadOnlyFrame DEF ReadOnly
  <2>0. PICK r \in Run, e \in Event : r = life[p].run /\ e = NextRecorded(p)
    BY <1>0, <1>1
  <2>3. PICK s : s = Append(life[p].seen, e)
    OBVIOUS
  <2>4. Walked(s, r)
    <3>1. PICK t, u : t = life[p].seen /\ u = life[p].history
      OBVIOUS
    <3>2. /\ t \in Seq(Event) /\ u \in Seq(Event) /\ Walked(t, r) /\ Walked(u, r)
          /\ Len(t) + 1 \in 1 .. Len(u) /\ e = u[Len(t) + 1] /\ s = Append(t, e)
      <4>1. Walked(t, r) /\ Walked(u, r)
        BY <1>0, <2>0, <3>1 DEF LifeOK
      <4>2. e = u[Len(t) + 1]
        BY <2>0, <3>1 DEF NextRecorded
      <4> QED BY <1>1, <2>3, <3>1, <4>1, <4>2
    <3>3. /\ Len(s) = Len(t) + 1 /\ s[Len(t) + 1] = e
          /\ \A i \in 1 .. Len(t) : s[i] = t[i]
      <4>1. t \in Seq(Event) /\ e \in Event /\ s = Append(t, e)
        BY <2>0, <3>2
      <4> QED BY <4>1
    <3>4. \A i \in 1 .. Len(s) : i \in 1 .. Len(t) \/ i = Len(t) + 1
      BY <3>2, <3>3
    <3> QED BY <3>2, <3>3, <3>4 DEF Walked
  <2>5. Walked(s, r)'
    BY <2>2, <2>4, WalkedFrame
  <2> QED BY <2>0, <2>1, <2>2, <2>3, <2>5, SeeSound
<1>3. CASE ~matches
  BY <1>3, MoveSound DEF Replay, PC
<1> QED BY <1>2, <1>3

----------------------------------------------------------------------------
(* Writing a row                                                           *)

\* An insert into a run whose rows before seq are there.
LEMMA InsertSound ==
    ASSUME Sound, NEW r \in Run, Exists(r),
           NEW seq \in Nat \ {0},
           \A i \in 1 .. seq - 1 : i \in DOMAIN diary[r],
           ~Taken(r, seq), NEW e \in Event, NEW token \in Nat,
           InsertEvent(r, seq, e, token), UNCHANGED runs,
           \A q \in Run : DOMAIN keys[q] \subseteq DOMAIN keys'[q]
    PROVE  /\ DOMAIN diary' = Run
           /\ \A q \in Run : /\ DOMAIN diary'[q] \subseteq Nat \ {0}
                             /\ \A s \in DOMAIN diary'[q] : diary'[q][s] \in EventRow
           /\ \A q \in Run : DenseDiary(q)'
           /\ Grows
           /\ \A i \in 1 .. seq : i \in DOMAIN diary'[r]
           /\ diary'[r][seq].event = e
<1>1. DiaryTypeOK /\ \A q \in Run : DenseDiary(q)
  BY DEF Sound
<1>2. PICK n \in Nat : DOMAIN diary[r] = 1 .. n
  BY <1>1 DEF DenseDiary
<1>3. seq \in 1 .. n + 1
  <2>1. CASE seq > 1
    BY <1>2, <2>1, seq - 1 \in 1 .. seq - 1
  <2>2. CASE seq = 1
    BY <2>2
  <2> QED BY <2>1, <2>2
<1>4. /\ seq = n + 1
      /\ DOMAIN diary' = Run
      /\ DOMAIN diary'[r] = 1 .. n + 1
      /\ diary'[r][n + 1] = [event |-> e, token |-> token]
      /\ \A s \in 1 .. n : diary'[r][s] = diary[r][s]
      /\ \A q \in Run : q # r => diary'[q] = diary[q]
  BY <1>1, <1>2, <1>3, InsertNext
<1>5. [event |-> e, token |-> token] \in EventRow
  BY DEF EventRow
<1>6. \A s \in DOMAIN diary'[r] : diary'[r][s] \in EventRow
  <2>1. ASSUME NEW s \in 1 .. n PROVE diary'[r][s] \in EventRow
    BY <1>1, <1>2, <1>4, <2>1 DEF DiaryTypeOK
  <2>2. diary'[r][n + 1] \in EventRow
    BY <1>4, <1>5
  <2>3. \A s \in 1 .. n + 1 : s \in 1 .. n \/ s = n + 1
    OBVIOUS
  <2> QED BY <1>4, <2>1, <2>2, <2>3
<1>7. ASSUME NEW q \in Run
      PROVE  /\ DOMAIN diary'[q] \subseteq Nat \ {0}
             /\ \A s \in DOMAIN diary'[q] : diary'[q][s] \in EventRow
  <2>1. CASE q = r
    BY <1>4, <1>6, <2>1
  <2>2. CASE q # r
    BY <1>1, <1>4, <2>2 DEF DiaryTypeOK
  <2> QED BY <2>1, <2>2
<1>8. ASSUME NEW q \in Run PROVE DenseDiary(q)'
  <2>1. CASE q = r
    BY <1>4, <2>1, n + 1 \in Nat DEF DenseDiary, Exists
  <2>2. CASE q # r
    BY <1>1, <1>4, <2>2 DEF DenseDiary, Exists
  <2> QED BY <2>1, <2>2
<1>9. ASSUME NEW q \in Run, NEW s \in DOMAIN diary[q]
      PROVE  s \in DOMAIN diary'[q] /\ diary'[q][s] = diary[q][s]
  <2>1. CASE q = r
    BY <1>2, <1>4, <2>1
  <2>2. CASE q # r
    BY <1>4, <2>2
  <2> QED BY <2>1, <2>2
<1>10. Grows
  BY <1>9 DEF Grows, Exists
<1> QED BY <1>2, <1>4, <1>7, <1>8, <1>10

\* An append at the cursor, fenced or not, refused or not.
LEMMA RecordSound ==
    ASSUME Sound, NEW p \in Proc, pc[p] # "idle",
           NEW e \in Event, NEW next \in {"agent", "acting", "asked"},
           next = "acting" =>
              LET op == Agent(life[p].code, life[p].seen)
              IN  op \in Op /\ op.kind = "effect",
           Record(p, e, next), UNCHANGED grant
    PROVE  Sound'
<1>0. /\ life[p] \in LifeRow /\ life[p].run \in Run /\ LifeOK(p)
  BY DEF Sound, LifeOK
<1>1. PICK r \in Run, t \in Seq(Event) : r = life[p].run /\ t = life[p].seen
  BY <1>0 DEF LifeRow
<1>2. Exists(r) /\ Walked(t, r) /\ life[p].token \in Nat
  BY <1>0, <1>1 DEF LifeOK, LifeRow
<1>3. CASE HoldsLease(p) /\ ~Taken(r, NextSeq(p))
  <2>1. /\ InsertEvent(r, Len(t) + 1, e, life[p].token)
        /\ Goto(p, next) /\ See(p, e) /\ UNCHANGED <<runs, keys, ledger, lock>>
    BY <1>1, <1>3 DEF Record, NextSeq
  <2>2. PICK seq \in Nat \ {0} : seq = Len(t) + 1
    OBVIOUS
  <2>3. ~Taken(r, seq) /\ \A i \in 1 .. seq - 1 : i \in DOMAIN diary[r]
    BY <1>1, <1>2, <1>3, <2>2 DEF Walked, NextSeq
  <2>4. /\ DOMAIN diary' = Run
        /\ \A q \in Run : /\ DOMAIN diary'[q] \subseteq Nat \ {0}
                          /\ \A s \in DOMAIN diary'[q] : diary'[q][s] \in EventRow
        /\ \A q \in Run : DenseDiary(q)'
        /\ Grows
        /\ \A i \in 1 .. seq : i \in DOMAIN diary'[r]
        /\ diary'[r][seq].event = e
    BY <1>2, <2>1, <2>2, <2>3, InsertSound
  <2>5. DiaryTypeOK'
    BY <2>1, <2>4 DEF Sound, DiaryTypeOK
  <2>6. PICK s : s = Append(t, e)
    OBVIOUS
  <2>7. /\ Len(s) = Len(t) + 1 /\ s[Len(t) + 1] = e
        /\ \A i \in 1 .. Len(t) : s[i] = t[i]
    BY <2>6, AppendFacts
  <2>8. ASSUME NEW i \in 1 .. Len(s)
        PROVE  i \in DOMAIN diary'[r] /\ diary'[r][i].event = s[i]
    <3>1. CASE i \in 1 .. Len(t)
      BY <1>2, <2>4, <2>7, <3>1 DEF Walked, Grows
    <3>2. CASE i = Len(t) + 1
      BY <2>2, <2>4, <2>7, <3>2
    <3> QED BY <2>7, <3>1, <3>2
  <2>9. Walked(s, r)'
    BY <2>8 DEF Walked
  <2> QED BY <1>1, <2>1, <2>4, <2>5, <2>6, <2>9, SeeSound
<1>4. CASE ~(HoldsLease(p) /\ ~Taken(r, NextSeq(p)))
  <2>1. PICK l \in {"duplicate", "fenced"} : Goto(p, l) /\ UNCHANGED <<diary, life>>
    BY <1>1, <1>4 DEF Record
  <2>2. UNCHANGED life /\ ReadOnly
    BY <2>1 DEF Record, ReadOnly
  <2> QED BY <2>1, <2>2, MoveSound DEF PC
<1> QED BY <1>3, <1>4

----------------------------------------------------------------------------
(* The other steps of a life                                               *)

\* A step that reads, and goes where the call has no arguments to remember.
LEMMA LookSound ==
    ASSUME Sound, NEW p \in Proc, life[p].run \in Run,
           NEW l \in PC, l \notin {"idle", "called", "acting", "tx"},
           NEW row \in LifeRow, row.run = life[p].run,
           NEW s \in Seq(Event), s = row.history, Walked(s, row.run),
           NEW t \in Seq(Event), t = row.seen, Walked(t, row.run),
           Goto(p, l), life' = [life EXCEPT ![p] = row],
           ReadOnly, UNCHANGED grant
    PROVE  Sound'
<1>1. DiaryTypeOK' /\ (\A r \in Run : DenseDiary(r)') /\ Grows
  BY ReadOnlyFrame DEF ReadOnly
<1>2. /\ pc'[p] = l /\ pc' = [pc EXCEPT ![p] = pc'[p]]
      /\ life'[p] = row /\ life' = [life EXCEPT ![p] = life'[p]]
  BY DEF Goto, Sound
<1>3. PICK r \in Run : r = life[p].run
  OBVIOUS
<1>4. Exists(r)' /\ Walked(s, r)' /\ Walked(t, r)'
  BY <1>1, <1>3, WalkedFrame DEF Sound, LifeOK, Grows
<1>5. /\ Exists(life[p].run)'
      /\ Walked(life[p].history, life[p].run)'
      /\ Walked(life[p].seen, life[p].run)'
  BY <1>2, <1>3, <1>4 DEF Walked, Exists
<1>6. LifeOK(p)'
  BY <1>2, <1>3, <1>5 DEF LifeOK
<1> QED BY <1>1, <1>2, <1>6, StepSound

LEMMA OpenSound ==
    ASSUME Sound, NEW p \in Proc, life[p].run \in Run, NEW c \in Code,
           OpenContext(p, c), UNCHANGED grant
    PROVE  Sound'
<1>1. life[p] \in LifeRow /\ DenseDiary(life[p].run)
  BY DEF Sound
<1>2. PICK r \in Run, n \in Nat : r = life[p].run /\ DOMAIN diary[r] = 1 .. n
  BY <1>1 DEF DenseDiary
<1>3. PICK s \in Seq(Event) : s = ReadEvents(r) /\ Walked(s, r)
  BY <1>2, ReadSound
<1>4. PICK row : row = [life[p] EXCEPT !.code = c, !.history = s, !.seen = << >>]
  OBVIOUS
<1>5. /\ row \in LifeRow /\ row.run = r /\ row.history = s /\ row.seen = << >>
  <2>1. << >> \in Seq(Event) /\ c \in Code \cup {None} /\ s \in Seq(Event)
    OBVIOUS
  <2>2. row = [run |-> life[p].run, token |-> life[p].token, code |-> c,
               history |-> s, seen |-> << >>, found |-> life[p].found]
    BY <1>1, <1>4 DEF LifeRow
  <2>3. /\ life[p].run \in Run \cup {None} /\ life[p].token \in Nat
        /\ life[p].found \in BOOLEAN
    BY <1>1 DEF LifeRow
  <2> QED BY <1>2, <2>1, <2>2, <2>3 DEF LifeRow
<1>6. life' = [life EXCEPT ![p] = row]
  BY <1>2, <1>3, <1>4 DEF OpenContext
<1>7. Walked(<< >>, r)
  BY DEF Walked
<1>8. << >> \in Seq(Event) /\ "agent" \in PC
  BY DEF PC
<1> QED BY <1>2, <1>3, <1>5, <1>6, <1>7, <1>8, LookSound DEF OpenContext

LEMMA PatchSound ==
    ASSUME Sound, NEW p \in Proc, ApplyPatch(p), UNCHANGED grant
    PROVE  Sound'
<1>1. /\ life[p] \in LifeRow /\ life[p].run \in Run /\ LifeOK(p)
      /\ pc \in [Proc -> PC] /\ pc[p] = "agent"
  BY DEF Sound, LifeOK, ApplyPatch
<1>2. Goto(p, "agent")
  BY <1>1 DEF ApplyPatch, Goto
<1>3. Replay(p, TRUE, "agent")
  BY <1>2 DEF ApplyPatch, AtPatch, Replay
<1> QED BY <1>1, <1>3, ReplaySound

\* The model is called with the prompt the agent asks for.
LEMMA CallSound ==
    ASSUME Sound, NEW p \in Proc, CallModel(p), UNCHANGED grant
    PROVE  Sound'
<1>1. DiaryTypeOK' /\ (\A r \in Run : DenseDiary(r)') /\ Grows
  BY ReadOnlyFrame DEF CallModel, ReadOnly
<1>2. /\ pc'[p] = "called" /\ pc' = [pc EXCEPT ![p] = pc'[p]] /\ "called" \in PC
      /\ life'[p] = life[p] /\ life' = [life EXCEPT ![p] = life'[p]]
      /\ life[p] \in LifeRow /\ pc[p] = "agent"
  BY DEF CallModel, Goto, Sound, PC, Asks
<1>3. LifeOK(p)'
  BY <1>2 DEF Sound, LifeOK, Walked, Exists, ReadOnly, CallModel, Asks
<1> QED BY <1>1, <1>2, <1>3, StepSound

LEMMA BeginSound ==
    ASSUME Sound, NEW p \in Proc, BeginEffect(p), UNCHANGED grant
    PROVE  Sound'
<1>0. /\ life[p] \in LifeRow /\ life[p].run \in Run /\ LifeOK(p)
      /\ pc[p] = "acting"
  BY DEF Sound, LifeOK, BeginEffect
<1>1. CASE HoldsLease(p)
  <2>1. lock' \in [Run -> Proc \cup {None}]
    BY <1>1 DEF BeginEffect, Sound, DiaryTypeOK
  <2>2. DiaryTypeOK' /\ (\A r \in Run : DenseDiary(r)') /\ Grows
    BY <2>1 DEF BeginEffect, Sound, DiaryTypeOK, DenseDiary, Exists, Grows
  <2>3. /\ pc'[p] = "tx" /\ pc' = [pc EXCEPT ![p] = pc'[p]] /\ "tx" \in PC
    BY <1>1 DEF BeginEffect, Goto, Sound, PC
  <2>4. PICK row : row = [life[p] EXCEPT
                             !.found = KeySeq(p) \in DOMAIN keys[life[p].run]]
    OBVIOUS
  <2>5. /\ row \in LifeRow /\ row.run = life[p].run /\ row.code = life[p].code
        /\ row.history = life[p].history /\ row.seen = life[p].seen
        /\ row.found => KeySeq(p) \in DOMAIN keys[life[p].run]
    <3>1. PICK b \in BOOLEAN : b = (KeySeq(p) \in DOMAIN keys[life[p].run])
      <4>1. (KeySeq(p) \in DOMAIN keys[life[p].run]) \in BOOLEAN
        OBVIOUS
      <4> QED BY <4>1, Zenon
    <3>2. row = [life[p] EXCEPT !.found = b]
      BY <2>4, <3>1
    <3>3. /\ row \in LifeRow /\ row.run = life[p].run /\ row.code = life[p].code
          /\ row.history = life[p].history /\ row.seen = life[p].seen
          /\ row.found = b
      BY <1>0, <3>2 DEF LifeRow
    <3> QED BY <3>1, <3>3
  <2>6. life' = [life EXCEPT ![p] = row] /\ life'[p] = row
    BY <1>1, <2>4 DEF BeginEffect, Sound
  <2>7. ActingOp(p)' = ActingOp(p) /\ KeySeq(p)' = KeySeq(p)
    BY <2>5, <2>6 DEF ActingOp, KeySeq
  <2>8. PICK r, s, t :
            r \in Run /\ r = life[p].run /\ s = life[p].history /\ t = life[p].seen
    BY <1>0
  <2>9. Exists(r)' /\ Walked(s, r)' /\ Walked(t, r)'
    BY <1>0, <2>2, <2>8, WalkedFrame DEF LifeOK, Grows
  <2>10. /\ Exists(life[p].run)'
         /\ Walked(life[p].history, life[p].run)'
         /\ Walked(life[p].seen, life[p].run)'
    BY <2>5, <2>6, <2>8, <2>9 DEF Walked, Exists
  <2>11. LifeOK(p)'
    BY <1>0, <2>3, <2>5, <2>6, <2>7, <2>8, <2>10 DEF LifeOK, BeginEffect
  <2> QED BY <2>2, <2>3, <2>5, <2>6, <2>11, StepSound
<1>2. CASE ~HoldsLease(p)
  <2>1. Goto(p, "fenced") /\ UNCHANGED life /\ ReadOnly
    BY <1>2 DEF BeginEffect, ReadOnly
  <2> QED BY <1>0, <2>1, MoveSound DEF PC
<1> QED BY <1>1, <1>2

\* The completion follows the intent at the cursor; the key and the ledger
\* stay typed.
LEMMA CommitSound ==
    ASSUME Sound, NEW p \in Proc, CommitEffect(p), UNCHANGED grant
    PROVE  Sound'
<1>0. /\ life[p] \in LifeRow /\ life[p].run \in Run /\ LifeOK(p)
      /\ pc[p] = "tx"
  BY DEF Sound, LifeOK, CommitEffect
<1>1. PICK r \in Run, t \in Seq(Event) : r = life[p].run /\ t = life[p].seen
  BY <1>0 DEF LifeRow
<1>2. /\ Exists(r) /\ Walked(t, r) /\ life[p].token \in Nat
      /\ Len(t) \in Nat \ {0} /\ KeySeq(p) = Len(t)
  BY <1>0, <1>1 DEF LifeOK, LifeRow, KeySeq
<1>3. PICK fn \in Fn : fn = ActingOp(p).ask
  BY <1>0 DEF LifeOK, Op
<1>4. lock' \in [Run -> Proc \cup {None}]
  BY DEF Sound, DiaryTypeOK, CommitEffect, Release
<1>5. CASE Conflict(p)
  <2>1. /\ Goto(p, "duplicate") /\ UNCHANGED life
        /\ UNCHANGED <<runs, diary, keys, ledger>>
    BY <1>5 DEF CommitEffect
  <2>2. DiaryTypeOK' /\ (\A q \in Run : DenseDiary(q)') /\ Grows
    BY <1>4, <2>1 DEF Sound, DiaryTypeOK, DenseDiary, Exists, Grows
  <2>3. /\ pc'[p] = "duplicate" /\ pc' = [pc EXCEPT ![p] = pc'[p]]
        /\ "duplicate" \in PC
        /\ life'[p] = life[p] /\ life' = [life EXCEPT ![p] = life'[p]]
    BY <2>1 DEF Goto, Sound, PC
  <2>4. LifeOK(p)'
    BY <1>0, <2>1, <2>3 DEF LifeOK, Walked, Exists
  <2> QED BY <1>0, <2>2, <2>3, <2>4, StepSound
<1>6. CASE ~Conflict(p)
  <2>1. PICK res : res = IF life[p].found THEN keys[r][KeySeq(p)] ELSE fn
    OBVIOUS
  <2>2. res \in Fn
    BY <1>0, <1>1, <1>2, <1>3, <2>1 DEF LifeOK, Sound, DiaryTypeOK
  <2>3. PICK e \in Event : e = CompletedEvent(r, res)
    BY <2>2 DEF CompletedEvent, Event, EventType
  <2>4. /\ InsertEvent(r, Len(t) + 1, e, life[p].token)
        /\ Goto(p, "agent") /\ See(p, e) /\ UNCHANGED runs
    BY <1>1, <1>3, <1>6, <2>1, <2>3 DEF CommitEffect, NextSeq
  <2>5. PICK seq \in Nat \ {0} : seq = Len(t) + 1
    BY <1>2
  <2>6. ~Taken(r, seq) /\ \A i \in 1 .. seq - 1 : i \in DOMAIN diary[r]
    BY <1>1, <1>2, <1>6, <2>5 DEF Walked, NextSeq, Conflict
  <2>7. /\ DOMAIN keys' = Run
        /\ \A q \in Run :
              /\ DOMAIN keys[q] \subseteq DOMAIN keys'[q]
              /\ DOMAIN keys'[q] \subseteq Nat \ {0}
              /\ \A s \in DOMAIN keys'[q] : keys'[q][s] \in Fn
        /\ ledger' \in [Run -> Seq([seq : Nat \ {0}, fn : Fn])]
    <3>1. CASE life[p].found
      BY <1>6, <3>1 DEF CommitEffect, Sound, DiaryTypeOK
    <3>2. CASE ~life[p].found
      <4>1. keys' = [keys EXCEPT ![r] =
                        [s \in DOMAIN @ \cup {Len(t)} |->
                            IF s = Len(t) THEN fn ELSE @[s]]]
        BY <1>1, <1>2, <1>3, <1>6, <3>2 DEF CommitEffect
      <4>2. \E entry \in [seq : Nat \ {0}, fn : Fn] :
                ledger' = [ledger EXCEPT ![r] = Append(@, entry)]
        BY <1>1, <1>2, <1>3, <1>6, <3>2 DEF CommitEffect
      <4>3. ledger' \in [Run -> Seq([seq : Nat \ {0}, fn : Fn])]
        <5> DEFINE Entry == [seq : Nat \ {0}, fn : Fn]
        <5>1. PICK entry \in Entry :
                  ledger' = [ledger EXCEPT ![r] = Append(@, entry)]
          BY <4>2
        <5>2. ledger \in [Run -> Seq(Entry)]
          BY DEF Sound, DiaryTypeOK
        <5> HIDE DEF Entry
        <5>3. ledger' \in [Run -> Seq(Entry)]
          BY <5>1, <5>2
        <5> QED BY <5>3 DEF Entry
      <4>4. DOMAIN keys' = Run /\ \A q \in Run : q # r => keys'[q] = keys[q]
        BY <4>1 DEF Sound, DiaryTypeOK
      <4>5. /\ DOMAIN keys'[r] = DOMAIN keys[r] \cup {Len(t)}
            /\ \A s \in DOMAIN keys'[r] :
                  keys'[r][s] = IF s = Len(t) THEN fn ELSE keys[r][s]
        BY <4>1 DEF Sound, DiaryTypeOK
      <4>6. ASSUME NEW q \in Run
            PROVE  /\ DOMAIN keys[q] \subseteq DOMAIN keys'[q]
                   /\ DOMAIN keys'[q] \subseteq Nat \ {0}
                   /\ \A s \in DOMAIN keys'[q] : keys'[q][s] \in Fn
        <5>1. CASE q = r
          BY <1>2, <4>5, <5>1 DEF Sound, DiaryTypeOK
        <5>2. CASE q # r
          BY <4>4, <5>2 DEF Sound, DiaryTypeOK
        <5> QED BY <5>1, <5>2
      <4> QED BY <4>3, <4>4, <4>6
    <3> QED BY <3>1, <3>2
  <2>8. /\ DOMAIN diary' = Run
        /\ \A q \in Run : /\ DOMAIN diary'[q] \subseteq Nat \ {0}
                          /\ \A s \in DOMAIN diary'[q] : diary'[q][s] \in EventRow
        /\ \A q \in Run : DenseDiary(q)'
        /\ Grows
        /\ \A i \in 1 .. seq : i \in DOMAIN diary'[r]
        /\ diary'[r][seq].event = e
    <3>1. InsertEvent(r, seq, e, life[p].token)
      BY <2>4, <2>5
    <3>2. \A q \in Run : DOMAIN keys[q] \subseteq DOMAIN keys'[q]
      BY <2>7
    <3>3. Exists(r) /\ life[p].token \in Nat /\ UNCHANGED runs
      BY <1>2, <2>4
    <3> QED BY <2>6, <3>1, <3>2, <3>3, InsertSound
  <2>9. DiaryTypeOK'
    BY <1>4, <2>4, <2>7, <2>8 DEF Sound, DiaryTypeOK
  <2>10. PICK s : s = Append(t, e)
    OBVIOUS
  <2>11. /\ Len(s) = Len(t) + 1 /\ s[Len(t) + 1] = e
         /\ \A i \in 1 .. Len(t) : s[i] = t[i]
    BY <2>10, AppendFacts
  <2>12. ASSUME NEW i \in 1 .. Len(s)
         PROVE  i \in DOMAIN diary'[r] /\ diary'[r][i].event = s[i]
    <3>1. CASE i \in 1 .. Len(t)
      BY <1>2, <2>8, <2>11, <3>1 DEF Walked, Grows
    <3>2. CASE i = Len(t) + 1
      BY <2>5, <2>8, <2>11, <3>2
    <3> QED BY <2>11, <3>1, <3>2
  <2>13. Walked(s, r)'
    BY <2>12 DEF Walked
  <2> QED BY <1>0, <1>1, <2>4, <2>8, <2>9, <2>10, <2>13, SeeSound
<1> QED BY <1>5, <1>6

\* A life that ends, and leaves its transaction behind.
LEMMA LeaveSound ==
    ASSUME Sound, NEW p \in Proc, Leave(p, "idle"),
           DiaryTypeOK', \A r \in Run : DenseDiary(r)', Grows, UNCHANGED grant
    PROVE  Sound'
<1>1. /\ pc'[p] = "idle" /\ pc' = [pc EXCEPT ![p] = pc'[p]] /\ "idle" \in PC
      /\ life'[p] = NoLife /\ life' = [life EXCEPT ![p] = life'[p]]
  BY DEF Leave, Goto, Sound, PC
<1>2. NoLife \in LifeRow /\ NoLife.run \notin Run
  BY NoneAssumption DEF NoLife, LifeRow
<1>3. LifeOK(p)'
  BY <1>1, <1>2 DEF LifeOK
<1> QED BY <1>1, <1>2, <1>3, StepSound

LEMMA CrashSound ==
    ASSUME Sound, NEW p \in Proc, Crash(p), UNCHANGED grant
    PROVE  Sound'
<1>1. DiaryTypeOK' /\ (\A q \in Run : DenseDiary(q)') /\ Grows
  BY DEF Crash, Release, Sound, DiaryTypeOK, DenseDiary, Exists, Grows
<1> QED BY <1>1, LeaveSound DEF Crash

LEMMA RaiseSound ==
    ASSUME Sound, NEW p \in Proc, Raise(p), UNCHANGED grant
    PROVE  Sound'
<1>1. DiaryTypeOK' /\ (\A q \in Run : DenseDiary(q)') /\ Grows
  BY DEF Raise, Release, Sound, DiaryTypeOK, DenseDiary, Exists, Grows
<1>2. /\ pc'[p] = "raised" /\ pc' = [pc EXCEPT ![p] = pc'[p]] /\ "raised" \in PC
      /\ life'[p] = life[p] /\ life' = [life EXCEPT ![p] = life'[p]]
      /\ life[p] \in LifeRow /\ pc[p] # "idle"
  BY DEF Raise, Goto, Sound, PC
<1>3. LifeOK(p)'
  BY <1>2 DEF Sound, LifeOK, Walked, Exists, Raise
<1> QED BY <1>1, <1>2, <1>3, StepSound

\* Whatever the agent does next, replayed or for real.
LEMMA ContextStepSound ==
    ASSUME Sound, NEW p \in Proc, ContextStep(p), UNCHANGED grant
    PROVE  Sound'
<1>0. LifeOK(p) /\ life[p] \in LifeRow
  BY DEF Sound
<1>1. CASE ApplyPatch(p)
  BY <1>1, PatchSound
<1>2. CASE ReplayLlm(p)
  BY <1>2, ReplaySound DEF ReplayLlm, Asks
<1>3. CASE CallModel(p)
  BY <1>3, CallSound
<1>4. CASE RecordLlm(p)
  <2>1. Ask(p) \in Prompt
    BY <1>0, <1>4 DEF RecordLlm, LifeOK, Op, Ask
  <2>2. \A response \in Answer : LlmEvent(Ask(p), response) \in Event
    BY <2>1 DEF LlmEvent, Event, EventType
  <2> QED BY <1>4, <2>2, RecordSound DEF RecordLlm
<1>5. CASE ReplayIntent(p)
  BY <1>5, ReplaySound DEF ReplayIntent, Asks
<1>6. CASE RecordIntent(p)
  <2>1. IntentEvent(life[p].run) \in Event
    BY <1>0, <1>6 DEF RecordIntent, Asks, LifeOK, IntentEvent, Event, EventType
  <2> QED BY <1>6, <2>1, RecordSound DEF RecordIntent, Asks
<1>7. CASE ReplayCompleted(p)
  BY <1>7, ReplaySound DEF ReplayCompleted
<1>8. CASE BeginEffect(p)
  BY <1>8, BeginSound
<1>9. CASE CommitEffect(p)
  BY <1>9, CommitSound
<1>10. CASE ReplayRequest(p)
  BY <1>10, ReplaySound DEF ReplayRequest, Asks
<1>11. CASE RecordRequest(p)
  <2>1. RequestEvent(Ask(p)) \in Event
    BY <1>11 DEF RecordRequest, Asks, Ask, Op, RequestEvent, Event, EventType
  <2> QED BY <1>11, <2>1, RecordSound DEF RecordRequest, Asks
<1>12. CASE ReplayDecision(p)
  BY <1>12, ReplaySound DEF ReplayDecision
<1>13. CASE Pause(p)
  BY <1>13, MoveSound DEF Pause, PC
<1>14. CASE Return(p)
  BY <1>14, MoveSound DEF Return, Asks, PC
<1>15. CASE RaiseOwn(p)
  BY <1>15, MoveSound DEF RaiseOwn, Asks, PC
<1> QED BY <1>1, <1>2, <1>3, <1>4, <1>5, <1>6, <1>7, <1>8, <1>9, <1>10, <1>11,
           <1>12, <1>13, <1>14, <1>15 DEF ContextStep

----------------------------------------------------------------------------
(* The queue, the humans, the forks                                        *)

\* A step that leaves every life where it is.
LEMMA OthersSound ==
    ASSUME Sound, DiaryTypeOK', \A r \in Run : DenseDiary(r)', Grows,
           UNCHANGED pc, UNCHANGED life,
           ApprovalTypeOK', \A h \in Human : GrantOK(h)'
    PROVE  Sound'
<1>1. pc' \in [Proc -> PC] /\ life' \in [Proc -> LifeRow]
  BY DEF Sound
<1>2. \A p \in Proc : LifeOK(p)'
  BY LifeFrame
<1> QED BY <1>1, <1>2 DEF Sound

\* A step that only updates rows of runs, or inserts them.
LEMMA RowsSound ==
    ASSUME Sound, runs' \in [Run -> RunRow],
           \A r \in Run : Exists(r) => Exists(r)',
           UNCHANGED <<diary, keys, ledger, lock>>
    PROVE  DiaryTypeOK' /\ (\A r \in Run : DenseDiary(r)') /\ Grows
BY DEF Sound, DiaryTypeOK, DenseDiary, Grows

LEMMA GrantReadSound ==
    ASSUME Sound, NEW h \in Human, NEW r \in Run, GrantRead(h, r),
           UNCHANGED pc, UNCHANGED life
    PROVE  Sound'
<1>1. DiaryTypeOK' /\ (\A q \in Run : DenseDiary(q)') /\ Grows
  BY ReadOnlyFrame DEF GrantRead
<1>2. PICK n \in Nat : DOMAIN diary[r] = 1 .. n
  BY DEF Sound, DenseDiary
<1>3. ReadEvents(r) # << >> /\ Len(ReadEvents(r)) = n
  BY <1>2, ReadSound DEF GrantRead, Awaiting
<1>4. n > 0
  <2>1. ReadEvents(r) \in Seq(Event)
    BY <1>2, ReadSound
  <2> QED BY <1>3, <2>1
<1>5. Exists(r)
  BY <1>2, <1>4, 1 \in 1 .. n DEF Sound, DenseDiary
<1>6. grant' = [grant EXCEPT ![h] = [at |-> "read", run |-> r, seq |-> n + 1]]
  BY <1>3 DEF GrantRead
<1>7. ApprovalTypeOK'
  BY <1>6 DEF Sound, ApprovalTypeOK, GrantRow
<1>8. ASSUME NEW g \in Human PROVE GrantOK(g)'
  <2>1. CASE g = h
    <3>1. grant'[g] = [at |-> "read", run |-> r, seq |-> n + 1]
      BY <1>6, <2>1 DEF Sound, ApprovalTypeOK
    <3>2. Exists(r)' /\ \A i \in 1 .. n : i \in DOMAIN diary'[r]
      BY <1>1, <1>2, <1>5 DEF Grows
    <3> QED BY <3>1, <3>2 DEF GrantOK, Exists
  <2>2. CASE g # h
    BY <1>1, <1>6, <2>2, GrantFrame DEF Sound, ApprovalTypeOK
  <2> QED BY <2>1, <2>2
<1> QED BY <1>1, <1>7, <1>8, OthersSound

LEMMA GrantAppendSound ==
    ASSUME Sound, NEW h \in Human, GrantAppend(h), UNCHANGED pc, UNCHANGED life
    PROVE  Sound'
<1>0. /\ grant[h] \in GrantRow /\ grant[h].at = "read"
      /\ GrantOK(h) /\ grant \in [Human -> GrantRow]
  BY DEF GrantAppend, Sound, ApprovalTypeOK
<1>1. PICK r \in Run, seq \in Nat \ {0} : r = grant[h].run /\ seq = grant[h].seq
  BY <1>0 DEF GrantOK, GrantRow
<1>2. Exists(r) /\ \A i \in 1 .. seq - 1 : i \in DOMAIN diary[r]
  BY <1>0, <1>1 DEF GrantOK
<1>3. DiaryTypeOK' /\ (\A q \in Run : DenseDiary(q)') /\ Grows
  <2>1. CASE Taken(r, seq)
    <3>1. UNCHANGED <<runs, diary, keys, ledger, lock>>
      BY <1>1, <2>1 DEF GrantAppend
    <3> QED BY <3>1, ReadOnlyFrame
  <2>2. CASE ~Taken(r, seq)
    <3>1. PICK approved \in {"yes", "no"} :
              InsertEvent(r, seq, DecisionEvent(approved), 0)
      BY <1>1, <2>2 DEF GrantAppend
    <3>2. DecisionEvent(approved) \in Event
      BY DEF DecisionEvent, Event, EventType
    <3>3. UNCHANGED <<runs, keys, ledger, lock>>
      BY DEF GrantAppend
    <3>4. /\ DOMAIN diary' = Run
          /\ \A q \in Run : /\ DOMAIN diary'[q] \subseteq Nat \ {0}
                            /\ \A s \in DOMAIN diary'[q] : diary'[q][s] \in EventRow
          /\ \A q \in Run : DenseDiary(q)'
          /\ Grows
      BY <1>2, <2>2, <3>1, <3>2, <3>3, InsertSound
    <3> QED BY <3>3, <3>4 DEF Sound, DiaryTypeOK
  <2> QED BY <2>1, <2>2
<1>4. \/ grant' = [grant EXCEPT ![h] = NoGrant]
      \/ grant' = [grant EXCEPT ![h].at = "appended"]
  BY DEF GrantAppend
<1>5. \A g \in Human : g # h => grant'[g] = grant[g]
  BY <1>0, <1>4
<1>6. /\ grant' \in [Human -> GrantRow]
      /\ \/ grant'[h].at = "idle"
         \/ grant'[h].run = r /\ grant'[h].seq = seq
  BY <1>0, <1>1, <1>4 DEF GrantRow, NoGrant
<1>7. ASSUME NEW g \in Human PROVE GrantOK(g)'
  <2>1. CASE g = h
    <3>1. Exists(r)' /\ \A i \in 1 .. seq - 1 : i \in DOMAIN diary'[r]
      BY <1>2, <1>3 DEF Grows
    <3> QED BY <1>6, <2>1, <3>1 DEF GrantOK, Exists
  <2>2. CASE g # h
    BY <1>3, <1>5, <2>2, GrantFrame
  <2> QED BY <2>1, <2>2
<1> QED BY <1>3, <1>6, <1>7, OthersSound DEF ApprovalTypeOK

\* The call ends: its process forgets where it was.
LEMMA GrantEnds ==
    ASSUME Sound, NEW h \in Human, grant' = [grant EXCEPT ![h] = NoGrant],
           DiaryTypeOK', \A r \in Run : DenseDiary(r)', Grows,
           UNCHANGED pc, UNCHANGED life
    PROVE  Sound'
<1>1. ApprovalTypeOK'
  BY DEF Sound, ApprovalTypeOK, GrantRow, NoGrant
<1>2. ASSUME NEW g \in Human PROVE GrantOK(g)'
  <2>1. CASE g = h
    BY <2>1 DEF Sound, ApprovalTypeOK, GrantOK, NoGrant
  <2>2. CASE g # h
    BY <2>2, GrantFrame DEF Sound, ApprovalTypeOK
  <2> QED BY <2>1, <2>2
<1> QED BY <1>1, <1>2, OthersSound

LEMMA StatusFrame ==
    ASSUME Sound, NEW r \in Run, NEW status \in Status \ {"absent"},
           SetRunStatus(r, status)
    PROVE  DiaryTypeOK' /\ (\A q \in Run : DenseDiary(q)') /\ Grows
<1>1. runs' \in [Run -> RunRow]
  <2>1. runs \in [Run -> RunRow] /\ status \in Status
    BY DEF Sound, DiaryTypeOK
  <2>2. PICK row : row = [runs[r] EXCEPT !.status = status]
    OBVIOUS
  <2>3. row \in RunRow
    BY <2>1, <2>2 DEF RunRow
  <2>4. runs' = [runs EXCEPT ![r] = row]
    BY <2>2 DEF SetRunStatus
  <2> QED BY <2>1, <2>3, <2>4
<1>2. \A q \in Run : Exists(q) => Exists(q)'
  BY DEF SetRunStatus, Sound, DiaryTypeOK, Exists
<1> QED BY <1>1, <1>2, RowsSound DEF SetRunStatus

LEMMA GrantStepSound ==
    ASSUME Sound, NEW h \in Human, GrantStep(h), UNCHANGED pc, UNCHANGED life
    PROVE  Sound'
<1>1. ASSUME NEW r \in Run, GrantRead(h, r) PROVE Sound'
  BY <1>1, GrantReadSound
<1>2. CASE GrantAppend(h)
  BY <1>2, GrantAppendSound
<1>3. CASE GrantRequeue(h)
  <2>1. grant[h].run \in Run
    BY <1>3 DEF GrantRequeue, Sound, GrantOK
  <2>2. DiaryTypeOK' /\ (\A q \in Run : DenseDiary(q)') /\ Grows
    BY <1>3, <2>1, StatusFrame DEF GrantRequeue, Status
  <2> QED BY <1>3, <2>2, GrantEnds DEF GrantRequeue
<1> QED BY <1>1, <1>2, <1>3 DEF GrantStep

LEMMA GrantStopsSound ==
    ASSUME Sound, NEW h \in Human, GrantStops(h), UNCHANGED pc, UNCHANGED life
    PROVE  Sound'
<1>1. DiaryTypeOK' /\ (\A q \in Run : DenseDiary(q)') /\ Grows
  BY ReadOnlyFrame DEF GrantStops
<1> QED BY <1>1, GrantEnds DEF GrantStops

\* A fork: the child's diary is the copied prefix and the patch.
LEMMA ForkSound ==
    ASSUME Sound, ForkSome, UNCHANGED pc, UNCHANGED life, UNCHANGED grant
    PROVE  Sound'
<1>0. PICK parent \in Run, child \in Run, patch \in Patch :
            \E k \in DOMAIN diary[parent] : ForkRun(parent, k, child, patch)
  BY DEF ForkSome
<1>1. PICK k \in DOMAIN diary[parent] : ForkRun(parent, k, child, patch)
  BY <1>0
<1>2. PICK n \in Nat : DOMAIN diary[parent] = 1 .. n
  BY DEF Sound, DenseDiary
<1>3. /\ k \in 1 .. n /\ DOMAIN diary[child] = {} /\ ~Exists(child)
      /\ Exists(parent) /\ child # parent
  BY <1>1, <1>2 DEF ForkRun, CanFork, NewRun, Sound, DenseDiary
<1>4. PICK rows : rows = WithRow(CopiedPrefix(parent, k), k + 1,
                                 PatchEvent(patch), 0)
  OBVIOUS
<1>5. diary' = [diary EXCEPT ![child] = rows]
  BY <1>1, <1>4 DEF ForkRun
<1>6. DOMAIN rows = 1 .. k + 1 /\ \A s \in DOMAIN rows : rows[s] \in EventRow
  <2>1. PatchEvent(patch) \in Event
    BY DEF PatchEvent, Event, EventType
  <2>2. PICK copy : copy = CopiedPrefix(parent, k)
    OBVIOUS
  <2>3. /\ DOMAIN copy = 1 .. k
        /\ \A s \in 1 .. k :
              copy[s] = [event |-> diary[parent][s].event, token |-> 0]
    BY <1>2, <1>3, <2>2 DEF CopiedPrefix
  <2>4. \A s \in 1 .. k : copy[s] \in EventRow
    <3>1. ASSUME NEW s \in 1 .. k PROVE diary[parent][s].event \in Event
      <4>1. s \in DOMAIN diary[parent]
        BY <1>2, <1>3
      <4> QED BY <4>1 DEF Sound, DiaryTypeOK, EventRow
    <3> QED BY <2>3, <3>1 DEF EventRow
  <2>5. /\ DOMAIN rows = 1 .. k + 1
        /\ \A s \in 1 .. k : rows[s] = copy[s]
        /\ rows[k + 1] = [event |-> PatchEvent(patch), token |-> 0]
    BY <1>3, <1>4, <2>2, <2>3 DEF WithRow
  <2>6. rows[k + 1] \in EventRow
    BY <2>1, <2>5 DEF EventRow
  <2> QED BY <1>3, <2>4, <2>5, <2>6
<1>7. DOMAIN diary' = Run /\ diary'[child] = rows
      /\ \A q \in Run : q # child => diary'[q] = diary[q]
  BY <1>5 DEF Sound, DiaryTypeOK
<1>8. runs' \in [Run -> RunRow] /\ Exists(child)'
      /\ \A q \in Run : q # child => runs'[q] = runs[q]
  <2>1. PICK row : row = [runs[child] EXCEPT !.status = "queued",
                                             !.parent = parent, !.forkSeq = k]
    OBVIOUS
  <2>2. runs' = [runs EXCEPT ![child] = row]
    BY <1>1, <2>1 DEF ForkRun
  <2>3. runs \in [Run -> RunRow] /\ runs[child] \in RunRow /\ k \in Nat
    BY <1>3 DEF Sound, DiaryTypeOK
  <2>4. row \in RunRow /\ row.status = "queued"
    BY <2>1, <2>3 DEF RunRow, Status
  <2> QED BY <2>2, <2>3, <2>4 DEF Exists
<1>9. DiaryTypeOK'
  <2>1. UNCHANGED <<keys, ledger, lock>>
    BY <1>1 DEF ForkRun
  <2>2. ASSUME NEW q \in Run
        PROVE  /\ DOMAIN diary'[q] \subseteq Nat \ {0}
               /\ \A s \in DOMAIN diary'[q] : diary'[q][s] \in EventRow
    <3>1. CASE q = child
      BY <1>3, <1>6, <1>7, <3>1
    <3>2. CASE q # child
      BY <1>7, <3>2 DEF Sound, DiaryTypeOK
    <3> QED BY <3>1, <3>2
  <2> QED BY <1>7, <1>8, <2>1, <2>2 DEF Sound, DiaryTypeOK
<1>10. ASSUME NEW q \in Run PROVE DenseDiary(q)'
  <2>1. CASE q = child
    BY <1>3, <1>6, <1>7, <1>8, <2>1, k + 1 \in Nat DEF DenseDiary
  <2>2. CASE q # child
    BY <1>7, <1>8, <2>2 DEF Sound, DenseDiary, Exists
  <2> QED BY <2>1, <2>2
<1>11. Grows
  BY <1>1, <1>3, <1>7, <1>8 DEF ForkRun, Grows, Exists
<1>12. ApprovalTypeOK' /\ \A h \in Human : GrantOK(h)'
  BY <1>11, GrantFrame DEF Sound, ApprovalTypeOK
<1> QED BY <1>9, <1>10, <1>11, <1>12, OthersSound

\* A process that was idle takes up a run that is there.
LEMMA TakeSound ==
    ASSUME Sound, NEW p \in Proc, pc[p] = "idle",
           NEW r \in Run, Exists(r), NEW token \in Nat,
           DiaryTypeOK', \A q \in Run : DenseDiary(q)', Grows,
           Goto(p, "claimed"),
           life' = [life EXCEPT ![p] = [@ EXCEPT !.run = r, !.token = token]],
           UNCHANGED grant
    PROVE  Sound'
<1>1. life[p] = NoLife /\ life[p] \in LifeRow
  BY DEF Sound, LifeOK
<1>2. PICK row : row = [life[p] EXCEPT !.run = r, !.token = token]
  OBVIOUS
<1>3. /\ row \in LifeRow /\ row.run = r
      /\ row.history = << >> /\ row.seen = << >>
  <2>1. row \in LifeRow /\ row.run = r
        /\ row.history = life[p].history /\ row.seen = life[p].seen
    BY <1>1, <1>2 DEF LifeRow
  <2> QED BY <1>1, <2>1 DEF NoLife
<1>4. /\ pc'[p] = "claimed" /\ pc' = [pc EXCEPT ![p] = pc'[p]] /\ "claimed" \in PC
      /\ life'[p] = row /\ life' = [life EXCEPT ![p] = life'[p]]
  BY <1>2 DEF Goto, Sound, PC
<1>5. Exists(r)'
  BY DEF Grows
<1>6. LifeOK(p)'
  <2>1. Len(<< >>) = 0 /\ 1 .. 0 = {}
    OBVIOUS
  <2>2. life'[p].run = r /\ life'[p].history = << >> /\ life'[p].seen = << >>
    BY <1>3, <1>4
  <2>3. Walked(life[p].history, life[p].run)' /\ Walked(life[p].seen, life[p].run)'
    BY <2>1, <2>2 DEF Walked
  <2>4. Exists(life[p].run)'
    BY <1>5, <2>2 DEF Exists
  <2> QED BY <1>4, <2>2, <2>3, <2>4 DEF LifeOK
<1> QED BY <1>3, <1>4, <1>6, StepSound

\* What the invariant says about what the lives see.
LEMMA SoundSees == Sound => AgentSeesDiary
<1> SUFFICES ASSUME Sound, NEW p \in Proc, life[p].run # None
             PROVE  /\ Prefix(life[p].history, ReadEvents(life[p].run))
                    /\ Prefix(life[p].seen, ReadEvents(life[p].run))
  BY DEF AgentSeesDiary
<1>1. /\ life[p] \in LifeRow /\ LifeOK(p) /\ life[p].run \in Run
  BY DEF Sound, LifeRow
<1>2. PICK r \in Run, n \in Nat : r = life[p].run /\ DOMAIN diary[r] = 1 .. n
  BY <1>1 DEF Sound, DenseDiary
<1>3. /\ ReadEvents(r) = [i \in 1 .. n |-> diary[r][i].event]
      /\ Len(ReadEvents(r)) = n
  BY <1>2, ReadDense, ReadSound
<1>4. ASSUME NEW s \in Seq(Event), Walked(s, r)
      PROVE  Prefix(s, ReadEvents(r))
  <2>1. Len(s) <= n
    <3>1. CASE Len(s) > 0
      BY <1>2, <1>4, <3>1, Len(s) \in 1 .. Len(s) DEF Walked
    <3>2. CASE Len(s) = 0
      BY <3>2
    <3> QED BY <3>1, <3>2
  <2> QED BY <1>2, <1>3, <1>4, <2>1 DEF Walked, Prefix
<1>5. /\ life[p].history \in Seq(Event) /\ Walked(life[p].history, r)
      /\ life[p].seen \in Seq(Event) /\ Walked(life[p].seen, r)
  BY <1>1, <1>2 DEF LifeOK, LifeRow
<1> QED BY <1>2, <1>4, <1>5

----------------------------------------------------------------------------
(* Replay and exactly-once: how consecutive events fit together, where a    *)
(* life stands among them, and what the ledger has of them.                *)

Ev(r, s) == diary[r][s].event

\* f may come right after e.
Follows(e, f) ==
    /\ f.type = "TOOL_COMPLETED" <=> e.type = "TOOL_INTENT"
    /\ f.type = "TOOL_COMPLETED" => f.ask = e.ask
    /\ f.type = "APPROVAL" <=> e.type = "APPROVAL_REQUESTED"

\* Only the run's own intent may be the last event; that of a parent has its
\* completion, for a fork does not split operations.
Walkable(r) ==
    /\ 1 \in DOMAIN diary[r] => Ev(r, 1).type \notin {"TOOL_COMPLETED", "APPROVAL"}
    /\ \A s \in DOMAIN diary[r] :
          /\ s + 1 \in DOMAIN diary[r] => Follows(Ev(r, s), Ev(r, s + 1))
          /\ s + 1 \notin DOMAIN diary[r] /\ Ev(r, s).type = "TOOL_INTENT" =>
                Ev(r, s).ask = r
          /\ Ev(r, s).type = "TOOL_COMPLETED" =>
                Ev(r, s).ask \in Run /\ Exists(Ev(r, s).ask)

\* ExactlyOnce for one run.
Performed(r) ==
    /\ \A i, j \in DOMAIN ledger[r] :
          ledger[r][i].seq = ledger[r][j].seq => i = j
    /\ \A i \in DOMAIN ledger[r] : Completes(r, ledger[r][i])
    /\ DOMAIN keys[r] = {ledger[r][i].seq : i \in DOMAIN ledger[r]}
    /\ \A s \in DOMAIN diary[r] :
          Type(r, s) = "TOOL_COMPLETED" /\ diary[r][s].event.ask = r =>
            \E i \in DOMAIN ledger[r] : ledger[r][i].seq + 1 = s

\* The agent is between its first call and its last.
Walking == {"agent", "called", "acting", "tx", "asked"}

\* A life that walks runs some version of the code, and the last event it has
\* seen fits the call it is in.
CursorAt(at, row) ==
    LET n == Len(row.seen)
        m == Len(row.history)
    IN  /\ at \in Walking => row.code \in Code
        /\ at \in {"agent", "called"} /\ n > 0 =>
              row.seen[n].type \notin {"TOOL_INTENT", "APPROVAL_REQUESTED"}
        /\ at \in {"acting", "tx"} =>
              /\ n > 0 /\ row.seen[n].type = "TOOL_INTENT"
              /\ n >= m => row.seen[n].ask = row.run
        /\ at = "tx" => n >= m
        /\ at = "asked" => n > 0 /\ row.seen[n].type = "APPROVAL_REQUESTED"
        /\ m > 0 /\ row.history[m].type = "TOOL_INTENT" =>
              row.history[m].ask = row.run

CursorOK(p) == CursorAt(pc[p], life[p])

\* A decision goes right after the question it answers.
AnswerOK(h) ==
    grant[h].at = "read" =>
        /\ grant[h].seq - 1 \in DOMAIN diary[grant[h].run]
        /\ Ev(grant[h].run, grant[h].seq - 1).type = "APPROVAL_REQUESTED"

Fits ==
    /\ \A r \in Run : Walkable(r) /\ Performed(r)
    /\ \A p \in Proc : CursorOK(p)
    /\ \A h \in Human : AnswerOK(h)

----------------------------------------------------------------------------
(* The tables                                                              *)

\* Rows stay, and so do runs.
RowsStay ==
    \A r \in Run :
        /\ Exists(r) => Exists(r)'
        /\ \A s \in DOMAIN diary[r] :
              s \in DOMAIN diary'[r] /\ diary'[r][s] = diary[r][s]

TablesFit == \A r \in Run : Walkable(r) /\ Performed(r)

LEMMA StandingFit ==
    ASSUME TablesFit, UNCHANGED <<diary, keys, ledger>>,
           \A r \in Run : Exists(r) => Exists(r)'
    PROVE  RowsStay /\ TablesFit'
<1>1. RowsStay
  BY DEF RowsStay
<1>2. ASSUME NEW r \in Run PROVE Walkable(r)' /\ Performed(r)'
  <2>1. Walkable(r) /\ Performed(r)
    BY DEF TablesFit
  <2>2. Walkable(r)'
    BY <2>1 DEF Walkable, Follows, Ev
  <2>3. Performed(r)'
    BY <2>1 DEF Performed, Completes, Type
  <2> QED BY <2>2, <2>3
<1> QED BY <1>1, <1>2 DEF TablesFit

\* r has one more event, e, after its first n.
Appends(r, n, e) ==
    /\ DOMAIN diary[r] = 1 .. n
    /\ DOMAIN diary'[r] = 1 .. n + 1
    /\ diary'[r][n + 1].event = e
    /\ \A s \in 1 .. n : diary'[r][s] = diary[r][s]
    /\ \A q \in Run : q # r => diary'[q] = diary[q]
    /\ \A q \in Run : Exists(q) => Exists(q)'

LEMMA InsertAppends ==
    ASSUME Sound, NEW r \in Run, NEW n \in Nat,
           \A i \in 1 .. n : i \in DOMAIN diary[r], ~Taken(r, n + 1),
           NEW e \in Event, NEW token \in Nat,
           InsertEvent(r, n + 1, e, token), UNCHANGED runs
    PROVE  Appends(r, n, e)
<1>1. DiaryTypeOK /\ DenseDiary(r)
  BY DEF Sound
<1>2. PICK m \in Nat : DOMAIN diary[r] = 1 .. m
  BY <1>1 DEF DenseDiary
<1>3. n = m
  <2>1. n > 0 => n \in 1 .. n
    OBVIOUS
  <2>2. n <= m
    BY <1>2, <2>1
  <2>3. ~(n + 1 \in 1 .. m)
    BY <1>2 DEF Taken
  <2> QED BY <2>2, <2>3
<1>4. /\ DOMAIN diary'[r] = 1 .. n + 1
      /\ diary'[r][n + 1] = [event |-> e, token |-> token]
      /\ \A s \in 1 .. n : diary'[r][s] = diary[r][s]
      /\ \A q \in Run : q # r => diary'[q] = diary[q]
  BY <1>1, <1>2, <1>3, InsertNext, n + 1 \in 1 .. n + 1
<1> QED BY <1>2, <1>3, <1>4 DEF Appends, Exists

\* A diary stays walkable if the new event may follow the last.
LEMMA AppendWalks ==
    ASSUME TablesFit, NEW r \in Run, NEW n \in Nat, NEW e, Appends(r, n, e),
           n = 0 => e.type \notin {"TOOL_COMPLETED", "APPROVAL"},
           n > 0 => Follows(Ev(r, n), e),
           e.type = "TOOL_INTENT" => e.ask = r,
           e.type = "TOOL_COMPLETED" => e.ask \in Run /\ Exists(e.ask)'
    PROVE  /\ RowsStay
           /\ \A q \in Run : Walkable(q)'
<1>1. RowsStay
  <2>1. ASSUME NEW q \in Run, NEW s \in DOMAIN diary[q]
        PROVE  s \in DOMAIN diary'[q] /\ diary'[q][s] = diary[q][s]
    <3>1. \A i \in DOMAIN diary[r] :
              i \in DOMAIN diary'[r] /\ diary'[r][i] = diary[r][i]
      BY DEF Appends
    <3>2. CASE q # r
      BY <3>2 DEF Appends
    <3> QED BY <3>1, <3>2
  <2> QED BY <2>1 DEF RowsStay, Appends
<1>2. ASSUME NEW q \in Run PROVE Walkable(q)'
  <2>0. Walkable(q)
    BY DEF TablesFit
  <2>1. CASE q # r
    BY <2>0, <2>1 DEF Walkable, Follows, Ev, Appends
  <2>2. CASE q = r
    <3>1. /\ \A s \in 1 .. n : Ev(r, s)' = Ev(r, s)
          /\ Ev(r, n + 1)' = e
      BY DEF Appends, Ev
    <3>2. DOMAIN diary[r] = 1 .. n /\ DOMAIN diary'[r] = 1 .. n + 1
      BY DEF Appends
    <3>3. Ev(r, 1)'.type \notin {"TOOL_COMPLETED", "APPROVAL"}
      <4>1. CASE n = 0
        BY <3>1, <4>1
      <4>2. CASE n > 0
        BY <2>0, <2>2, <3>1, <3>2, <4>2 DEF Walkable
      <4> QED BY <4>1, <4>2
    <3>4. ASSUME NEW s \in 1 .. n + 1
          PROVE  /\ s + 1 \in 1 .. n + 1 => Follows(Ev(r, s)', Ev(r, s + 1)')
                 /\ s + 1 \notin 1 .. n + 1 /\ Ev(r, s)'.type = "TOOL_INTENT" =>
                       Ev(r, s)'.ask = r
                 /\ Ev(r, s)'.type = "TOOL_COMPLETED" =>
                       /\ Ev(r, s)'.ask \in Run
                       /\ runs'[Ev(r, s)'.ask].status # "absent"
      <4>1. CASE s = n + 1
        BY <3>1, <4>1 DEF Exists
      <4>2. CASE s = n
        BY <2>0, <2>2, <3>1, <3>2, <4>2 DEF Walkable, Appends, Exists
      <4>3. CASE s < n
        BY <2>0, <2>2, <3>1, <3>2, <4>3, SMTT(20) DEF Walkable, Appends, Exists
      <4> QED BY <4>1, <4>2, <4>3
    <3> QED BY <2>2, <3>2, <3>3, <3>4 DEF Walkable, Ev, Exists
  <2> QED BY <2>1, <2>2
<1> QED BY <1>1, <1>2

\* An event that is no completion leaves the ledger as it is.
LEMMA AppendFits ==
    ASSUME TablesFit, NEW r \in Run, NEW n \in Nat, NEW e, Appends(r, n, e),
           e.type # "TOOL_COMPLETED",
           n = 0 => e.type # "APPROVAL",
           n > 0 => Follows(Ev(r, n), e),
           e.type = "TOOL_INTENT" => e.ask = r,
           UNCHANGED <<keys, ledger>>
    PROVE  RowsStay /\ TablesFit'
<1>1. RowsStay /\ \A q \in Run : Walkable(q)'
  BY AppendWalks
<1>2. ASSUME NEW q \in Run PROVE Performed(q)'
  <2>0. Performed(q)
    BY DEF TablesFit
  <2>1. \A i \in DOMAIN ledger[q] : Completes(q, ledger[q][i])'
    BY <1>1, <2>0 DEF Performed, Completes, RowsStay
  <2>2. ASSUME NEW s \in DOMAIN diary'[q], diary'[q][s].event.type = "TOOL_COMPLETED"
        PROVE  s \in DOMAIN diary[q] /\ diary'[q][s] = diary[q][s]
    <3>1. CASE q # r
      BY <3>1 DEF Appends
    <3>2. CASE q = r
      <4>1. s \in 1 .. n \/ s = n + 1
        BY <3>2 DEF Appends
      <4> QED BY <2>2, <3>2, <4>1 DEF Appends
    <3> QED BY <3>1, <3>2
  <2> QED BY <2>0, <2>1, <2>2 DEF Performed, Type
<1> QED BY <1>1, <1>2 DEF TablesFit

\* An effect that no key was there for, its key and its completion.
LEMMA PerformFits ==
    ASSUME Sound, TablesFit, NEW r \in Run, Exists(r), NEW n \in Nat \ {0},
           NEW fn \in Fn, Appends(r, n, CompletedEvent(r, fn)),
           Ev(r, n).type = "TOOL_INTENT", Ev(r, n).ask = r,
           n \notin DOMAIN keys[r],
           DOMAIN keys'[r] = DOMAIN keys[r] \cup {n},
           \A q \in Run : q # r => keys'[q] = keys[q],
           ledger' = [ledger EXCEPT ![r] = Append(@, [seq |-> n, fn |-> fn])]
    PROVE  RowsStay /\ TablesFit'
<1>1. RowsStay /\ \A q \in Run : Walkable(q)'
  <2>1. PICK e : e = CompletedEvent(r, fn)
    OBVIOUS
  <2>2. e.type = "TOOL_COMPLETED" /\ e.ask = r
    BY <2>1 DEF CompletedEvent
  <2>3. Appends(r, n, e) /\ Exists(r)'
    BY <2>1 DEF Appends
  <2>4. Follows(Ev(r, n), e)
    BY <2>2 DEF Follows
  <2>5. e.ask \in Run /\ runs'[e.ask].status # "absent"
    BY <2>2, <2>3 DEF Exists
  <2> QED BY <2>2, <2>3, <2>4, <2>5, AppendWalks DEF Exists
<1>2. PICK old : old = ledger[r]
  OBVIOUS
<1>3. PICK entry : entry = [seq |-> n, fn |-> fn]
  OBVIOUS
<1>4. /\ old \in Seq([seq : Nat \ {0}, fn : Fn])
      /\ entry \in [seq : Nat \ {0}, fn : Fn] /\ entry.seq = n /\ entry.fn = fn
      /\ ledger'[r] = Append(old, entry)
      /\ \A q \in Run : q # r => ledger'[q] = ledger[q]
  BY <1>2, <1>3 DEF Sound, DiaryTypeOK
<1>5. PICK m \in Nat : m = Len(old)
  BY <1>4
<1>6. /\ DOMAIN ledger[r] = 1 .. m
      /\ DOMAIN ledger'[r] = 1 .. m + 1
      /\ \A i \in 1 .. m : ledger'[r][i] = ledger[r][i]
      /\ ledger'[r][m + 1] = entry
  <2> DEFINE S == [seq : Nat \ {0}, fn : Fn]
  <2>1. old \in Seq(S) /\ entry \in S
    BY <1>4
  <2> HIDE DEF S
  <2>2. /\ DOMAIN old = 1 .. m
        /\ DOMAIN Append(old, entry) = 1 .. m + 1
        /\ \A i \in 1 .. m : Append(old, entry)[i] = old[i]
        /\ Append(old, entry)[m + 1] = entry
    BY <1>5, <2>1
  <2> QED BY <1>2, <1>4, <2>2
<1>7. ASSUME NEW q \in Run, q # r PROVE Performed(q)'
  <2>1. Performed(q) /\ ledger'[q] = ledger[q] /\ diary'[q] = diary[q]
        /\ keys'[q] = keys[q]
    BY <1>4, <1>7 DEF TablesFit, Appends
  <2> QED BY <2>1 DEF Performed, Completes, Type
<1>8. Performed(r)'
  <2>0. Performed(r)
    BY DEF TablesFit
  <2>1. \A i \in 1 .. m : ledger[r][i].seq # n
    BY <1>6, <2>0 DEF Performed
  <2>2. (\A i, j \in DOMAIN ledger[r] :
            ledger[r][i].seq = ledger[r][j].seq => i = j)'
    <3>1. ASSUME NEW i \in 1 .. m + 1, NEW j \in 1 .. m + 1,
                 ledger'[r][i].seq = ledger'[r][j].seq
          PROVE  i = j
      <4>1. CASE i \in 1 .. m /\ j \in 1 .. m
        BY <1>6, <2>0, <3>1, <4>1 DEF Performed
      <4>2. CASE i = m + 1 \/ j = m + 1
        <5>1. \A k \in 1 .. m : ledger'[r][k].seq # n
          BY <1>6, <2>1
        <5>2. ledger'[r][m + 1].seq = n
          BY <1>4, <1>6
        <5> QED BY <3>1, <4>2, <5>1, <5>2
      <4> QED BY <4>1, <4>2
    <3> QED BY <1>6, <3>1
  <2>3. ASSUME NEW i \in 1 .. m + 1
        PROVE  /\ ledger'[r][i].seq + 1 \in DOMAIN diary'[r]
               /\ diary'[r][ledger'[r][i].seq + 1].event =
                     CompletedEvent(r, ledger'[r][i].fn)
    <3>1. CASE i \in 1 .. m
      <4>1. PICK x : x = ledger[r][i]
        OBVIOUS
      <4>2. Completes(r, x) /\ ledger'[r][i] = x
        BY <1>6, <2>0, <3>1, <4>1 DEF Performed
      <4> QED BY <1>1, <4>2 DEF Completes, RowsStay
    <3>2. CASE i = m + 1
      <4>1. n + 1 \in DOMAIN diary'[r]
            /\ diary'[r][n + 1].event = CompletedEvent(r, fn)
        BY DEF Appends
      <4> QED BY <1>4, <1>6, <3>2, <4>1
    <3>3. i \in 1 .. m \/ i = m + 1
      OBVIOUS
    <3> QED BY <3>1, <3>2, <3>3
  <2>4. DOMAIN keys'[r] = {ledger'[r][i].seq : i \in DOMAIN ledger'[r]}
    <3>1. \A s : s \in DOMAIN keys'[r] <=> \E i \in 1 .. m + 1 : s = ledger'[r][i].seq
      <4>1. DOMAIN keys[r] = {ledger[r][i].seq : i \in 1 .. m}
        BY <1>6, <2>0 DEF Performed
      <4>2. \A s : s \in DOMAIN keys[r] <=> \E i \in 1 .. m : s = ledger'[r][i].seq
        BY <1>6, <4>1
      <4>3. \A s : (\E i \in 1 .. m + 1 : s = ledger'[r][i].seq) <=>
                   \/ \E i \in 1 .. m : s = ledger'[r][i].seq
                   \/ s = n
        <5>1. \A i : i \in 1 .. m + 1 <=> i \in 1 .. m \/ i = m + 1
          OBVIOUS
        <5>2. ledger'[r][m + 1].seq = n
          BY <1>4, <1>6
        <5> QED BY <5>1, <5>2
      <4> QED BY <4>2, <4>3
    <3> QED BY <1>6, <3>1
  <2>5. ASSUME NEW s \in DOMAIN diary'[r],
               diary'[r][s].event.type = "TOOL_COMPLETED",
               diary'[r][s].event.ask = r
        PROVE  \E i \in 1 .. m + 1 : ledger'[r][i].seq + 1 = s
    <3>1. CASE s \in 1 .. n
      <4>1. s \in DOMAIN diary[r] /\ diary'[r][s] = diary[r][s]
        BY <3>1 DEF Appends
      <4>2. \E i \in 1 .. m : ledger[r][i].seq + 1 = s
        BY <1>6, <2>0, <2>5, <4>1 DEF Performed, Type
      <4> QED BY <1>6, <4>2
    <3>2. CASE s = n + 1
      BY <1>4, <1>6, <3>2, m + 1 \in 1 .. m + 1
    <3>3. s \in 1 .. n \/ s = n + 1
      BY <2>5 DEF Appends
    <3> QED BY <3>1, <3>2, <3>3
  <2> QED BY <1>6, <2>2, <2>3, <2>4, <2>5 DEF Performed, Completes, Type
<1> QED BY <1>1, <1>7, <1>8 DEF TablesFit

\* A fork copies whole operations to a run that has no effects of its own.
LEMMA BranchFits ==
    ASSUME Sound, TablesFit, ForkSome
    PROVE  RowsStay /\ TablesFit'
<1>0. PICK parent \in Run, child \in Run, patch \in Patch :
            \E k \in DOMAIN diary[parent] : ForkRun(parent, k, child, patch)
  BY DEF ForkSome
<1>1. PICK k \in DOMAIN diary[parent] : ForkRun(parent, k, child, patch)
  BY <1>0
<1>2. PICK n \in Nat : DOMAIN diary[parent] = 1 .. n
  BY DEF Sound, DenseDiary
<1>3. /\ k \in 1 .. n /\ DOMAIN diary[child] = {} /\ ~Exists(child)
      /\ child # parent
      /\ Ev(parent, k).type \notin {"TOOL_INTENT", "APPROVAL_REQUESTED"}
  BY <1>1, <1>2 DEF ForkRun, CanFork, SplitsOperation, Ev, NewRun, Sound, DenseDiary
<1>4. PICK rows : rows = WithRow(CopiedPrefix(parent, k), k + 1,
                                 PatchEvent(patch), 0)
  OBVIOUS
<1>5. /\ DOMAIN rows = 1 .. k + 1
      /\ \A s \in 1 .. k : rows[s].event = Ev(parent, s)
      /\ rows[k + 1].event = PatchEvent(patch)
  <2>1. PICK copy : copy = CopiedPrefix(parent, k)
    OBVIOUS
  <2>2. /\ DOMAIN copy = 1 .. k
        /\ \A s \in 1 .. k : copy[s] = [event |-> Ev(parent, s), token |-> 0]
    BY <1>2, <1>3, <2>1 DEF CopiedPrefix, Ev
  <2>3. /\ DOMAIN rows = 1 .. k + 1
        /\ \A s \in 1 .. k : rows[s] = copy[s]
        /\ rows[k + 1] = [event |-> PatchEvent(patch), token |-> 0]
    BY <1>3, <1>4, <2>1, <2>2 DEF WithRow
  <2> QED BY <2>2, <2>3
<1>6. /\ diary'[child] = rows
      /\ \A q \in Run : q # child => diary'[q] = diary[q]
  BY <1>1, <1>4 DEF ForkRun, Sound, DiaryTypeOK
<1>7. \A q \in Run : q # child => runs'[q] = runs[q]
  BY <1>1 DEF ForkRun, Sound, DiaryTypeOK
<1>8. RowsStay
  BY <1>3, <1>6, <1>7 DEF RowsStay, Exists
<1>9. ASSUME NEW q \in Run, q # child PROVE Walkable(q)' /\ Performed(q)'
  <2>1. /\ Walkable(q) /\ Performed(q) /\ diary'[q] = diary[q]
        /\ UNCHANGED <<keys, ledger>>
    BY <1>1, <1>6, <1>9 DEF TablesFit, ForkRun
  <2>2. Walkable(q)'
    BY <1>8, <2>1 DEF Walkable, Follows, Ev, RowsStay
  <2>3. Performed(q)'
    BY <2>1 DEF Performed, Completes, Type
  <2> QED BY <2>2, <2>3
<1>10. \A s \in 1 .. k :
          Ev(parent, s).type = "TOOL_COMPLETED" =>
             /\ Ev(parent, s).ask \in Run
             /\ Exists(Ev(parent, s).ask)
             /\ Ev(parent, s).ask # child
  BY <1>2, <1>3 DEF TablesFit, Walkable
<1>11. PatchEvent(patch).type = "PATCH_APPLIED"
  BY DEF PatchEvent
<1>12. Walkable(child)'
  <2>0. Walkable(parent)
    BY DEF TablesFit
  <2>1. ASSUME NEW s \in 1 .. k
        PROVE  Follows(rows[s].event, rows[s + 1].event)
    <3>1. CASE s < k
      <4>1. s \in DOMAIN diary[parent] /\ s + 1 \in DOMAIN diary[parent]
            /\ s + 1 \in 1 .. k
        BY <1>2, <1>3, <3>1
      <4>2. Follows(Ev(parent, s), Ev(parent, s + 1))
        BY <2>0, <4>1 DEF Walkable
      <4> QED BY <1>5, <4>1, <4>2
    <3>2. CASE s = k
      BY <1>3, <1>5, <1>11, <3>2 DEF Follows
    <3> QED BY <1>3, <3>1, <3>2
  <2>2. rows[1].event.type \notin {"TOOL_COMPLETED", "APPROVAL"}
    BY <1>2, <1>3, <1>5, <2>0 DEF Walkable
  <2>3. ASSUME NEW s \in 1 .. k + 1, rows[s].event.type = "TOOL_COMPLETED"
        PROVE  /\ rows[s].event.ask \in Run
               /\ runs'[rows[s].event.ask].status # "absent"
    <3>1. s \in 1 .. k
      BY <1>3, <1>5, <1>11, <2>3
    <3> QED BY <1>5, <1>7, <1>10, <2>3, <3>1 DEF Exists
  <2>4. ASSUME NEW s \in 1 .. k + 1, s + 1 \notin 1 .. k + 1
        PROVE  rows[s].event.type # "TOOL_INTENT"
    BY <1>3, <1>5, <1>11, <2>4
  <2>5. \A s \in 1 .. k + 1 : s + 1 \in 1 .. k + 1 => s \in 1 .. k
    BY <1>3
  <2> QED BY <1>5, <1>6, <2>1, <2>2, <2>3, <2>4, <2>5 DEF Walkable, Ev, Exists
<1>13. Performed(child)'
  <2>1. Performed(child) /\ UNCHANGED <<keys, ledger>>
    BY <1>1 DEF TablesFit, ForkRun
  <2>2. DOMAIN ledger[child] = {} /\ DOMAIN keys[child] = {}
    BY <1>3, <2>1 DEF Performed, Completes
  <2>3. \A s \in 1 .. k + 1 :
          rows[s].event.type = "TOOL_COMPLETED" => rows[s].event.ask # child
    <3>1. \A s \in 1 .. k + 1 : s \in 1 .. k \/ s = k + 1
      BY <1>3
    <3> QED BY <1>5, <1>10, <1>11, <3>1
  <2> QED BY <1>5, <1>6, <2>1, <2>2, <2>3 DEF Performed, Type
<1> QED BY <1>8, <1>9, <1>12, <1>13 DEF TablesFit

----------------------------------------------------------------------------
(* The lives                                                               *)

LEMMA AnswersStand ==
    ASSUME Sound, RowsStay, NEW h \in Human, AnswerOK(h), grant'[h] = grant[h]
    PROVE  AnswerOK(h)'
<1>1. grant[h].at = "read" => grant[h].run \in Run
  BY DEF Sound, GrantOK
<1> QED BY <1>1 DEF AnswerOK, RowsStay, Ev

\* A step of one life.
LEMMA StepFits ==
    ASSUME Sound, Fits, NEW p \in Proc, RowsStay, TablesFit',
           NEW l, Goto(p, l), NEW row, life' = [life EXCEPT ![p] = row],
           CursorAt(l, row), UNCHANGED grant
    PROVE  Fits'
<1>1. ASSUME NEW q \in Proc PROVE CursorOK(q)'
  <2>1. CursorOK(q)
    BY DEF Fits
  <2>2. /\ pc'[q] = IF q = p THEN l ELSE pc[q]
        /\ life'[q] = IF q = p THEN row ELSE life[q]
    BY DEF Goto, Sound
  <2> QED BY <2>1, <2>2 DEF CursorOK
<1>2. \A h \in Human : AnswerOK(h)'
  BY AnswersStand DEF Fits
<1> QED BY <1>1, <1>2 DEF Fits, TablesFit

\* The cursor stays where it is.
LEMMA HereFits ==
    ASSUME Sound, Fits, NEW p \in Proc, RowsStay, TablesFit',
           NEW l, Goto(p, l), UNCHANGED life,
           CursorAt(l, life[p]), UNCHANGED grant
    PROVE  Fits'
<1>1. life' = [life EXCEPT ![p] = life[p]]
  BY DEF Sound
<1> QED BY <1>1, StepFits

\* A call that is over or broken says nothing of the last event.
LEMMA StopFits ==
    ASSUME Sound, Fits, NEW p \in Proc, RowsStay, TablesFit',
           NEW l, l \notin Walking,
           Goto(p, l), UNCHANGED life, UNCHANGED grant
    PROVE  Fits'
<1>1. CursorAt(pc[p], life[p])
  BY DEF Fits, CursorOK
<1>2. CursorAt(l, life[p])
  BY <1>1 DEF CursorAt, Walking
<1> QED BY <1>2, HereFits

\* The life ends.
LEMMA LeaveFits ==
    ASSUME Sound, Fits, NEW p \in Proc, RowsStay, TablesFit',
           Leave(p, "idle"), UNCHANGED grant
    PROVE  Fits'
<1>1. CursorAt("idle", NoLife)
  BY DEF CursorAt, NoLife, Walking
<1> QED BY <1>1, StepFits DEF Leave

\* What the cursor may pass on the way to next.
Leads(p, e, next) ==
    /\ next = "agent" => e.type \notin {"TOOL_INTENT", "APPROVAL_REQUESTED"}
    /\ next = "acting" =>
          /\ e.type = "TOOL_INTENT"
          /\ Len(life[p].seen) + 1 >= Len(life[p].history) => e.ask = life[p].run
    /\ next = "asked" => e.type = "APPROVAL_REQUESTED"

LEMMA SeeFits ==
    ASSUME Sound, Fits, NEW p \in Proc, pc[p] \in Walking, RowsStay, TablesFit',
           NEW e \in Event, NEW next \in {"agent", "acting", "asked"},
           Leads(p, e, next), Goto(p, next), See(p, e), UNCHANGED grant
    PROVE  Fits'
<1>1. life[p] \in LifeRow /\ CursorAt(pc[p], life[p])
  BY DEF Sound, Fits, CursorOK
<1>2. PICK s : s = Append(life[p].seen, e)
  OBVIOUS
<1>3. PICK row : row = [life[p] EXCEPT !.seen = s]
  OBVIOUS
<1>4. /\ row.seen = s /\ row.history = life[p].history /\ row.run = life[p].run
      /\ row.code = life[p].code /\ life' = [life EXCEPT ![p] = row]
  BY <1>1, <1>2, <1>3 DEF LifeRow, See
<1>5. PICK t \in Seq(Event) : t = life[p].seen
  BY <1>1 DEF LifeRow
<1>6. Len(s) = Len(t) + 1 /\ s[Len(t) + 1] = e /\ Len(t) \in Nat
  BY <1>2, <1>5, AppendFacts
<1>7. CursorAt(next, row)
  BY <1>1, <1>4, <1>5, <1>6 DEF CursorAt, Leads, Walking
<1> QED BY <1>4, <1>7, StepFits

\* Replaying over an event that may lead to next, or stopping at it.
LEMMA ReplayFits ==
    ASSUME Sound, Fits, NEW p \in Proc, pc[p] \in Walking,
           NEW matches, NEW next \in {"agent", "acting", "asked"},
           Replay(p, matches, next),
           matches => Leads(p, NextRecorded(p), next), UNCHANGED grant
    PROVE  Fits'
<1>0. TablesFit
  BY DEF Fits, TablesFit
<1>1. RowsStay /\ TablesFit'
  BY <1>0, StandingFit DEF Replay, ReadOnly, Exists
<1>2. CASE matches
  <2>1. Goto(p, next) /\ See(p, NextRecorded(p)) /\ Replaying(p)
    BY <1>2 DEF Replay
  <2>2. NextRecorded(p) \in Event
    BY <2>1 DEF Sound, LifeRow, Replaying, NextRecorded
  <2> QED BY <1>1, <1>2, <2>1, <2>2, SeeFits
<1>3. CASE ~matches
  BY <1>1, <1>3, StopFits DEF Replay, Walking
<1> QED BY <1>2, <1>3

\* An event recorded at the cursor.
LEMMA RecordFits ==
    ASSUME Sound, Fits, NEW p \in Proc, pc[p] \in {"agent", "called"},
           NEW e \in Event, NEW next \in {"agent", "acting", "asked"},
           e.type \notin {"TOOL_COMPLETED", "APPROVAL"},
           e.type = "TOOL_INTENT" => e.ask = life[p].run,
           Leads(p, e, next), Record(p, e, next), UNCHANGED grant
    PROVE  Fits'
<1>0. /\ life[p] \in LifeRow /\ life[p].run \in Run /\ LifeOK(p)
      /\ TablesFit /\ CursorAt(pc[p], life[p])
  BY DEF Sound, LifeOK, Fits, TablesFit, CursorOK
<1>1. PICK r \in Run, t \in Seq(Event) : r = life[p].run /\ t = life[p].seen
  BY <1>0 DEF LifeRow
<1>2. PICK n \in Nat : n = Len(t)
  BY <1>1
<1>3. CASE HoldsLease(p) /\ ~Taken(r, NextSeq(p))
  <2>1. /\ InsertEvent(r, n + 1, e, life[p].token) /\ ~Taken(r, n + 1)
        /\ Goto(p, next) /\ See(p, e) /\ UNCHANGED <<runs, keys, ledger, lock>>
    BY <1>1, <1>2, <1>3 DEF Record, NextSeq
  <2>2. Walked(t, r) /\ life[p].token \in Nat
    BY <1>0, <1>1 DEF LifeOK, LifeRow
  <2>3. Appends(r, n, e)
    BY <1>2, <2>1, <2>2, InsertAppends DEF Walked
  <2>4. n > 0 => Follows(Ev(r, n), e)
    <3>1. n > 0 => Ev(r, n) = t[n]
      BY <1>2, <2>2, n > 0 => n \in 1 .. n DEF Walked, Ev
    <3>2. n > 0 => t[n].type \notin {"TOOL_INTENT", "APPROVAL_REQUESTED"}
      BY <1>0, <1>1, <1>2 DEF CursorAt
    <3> QED BY <3>1, <3>2 DEF Follows
  <2>5. RowsStay /\ TablesFit'
    BY <1>0, <1>1, <2>1, <2>3, <2>4, AppendFits
  <2> QED BY <2>1, <2>5, SeeFits DEF Walking
<1>4. CASE ~(HoldsLease(p) /\ ~Taken(r, NextSeq(p)))
  <2>1. PICK l \in {"duplicate", "fenced"} : Goto(p, l) /\ UNCHANGED <<diary, life>>
    BY <1>1, <1>4 DEF Record
  <2>2. UNCHANGED <<runs, diary, keys, ledger>>
    BY <2>1 DEF Record
  <2>3. RowsStay /\ TablesFit'
    BY <1>0, <2>2, StandingFit DEF Exists
  <2> QED BY <2>1, <2>3, StopFits DEF Walking
<1> QED BY <1>3, <1>4

\* A new snapshot ends on what the diary ends on.
LEMMA OpenFits ==
    ASSUME Sound, Fits, NEW p \in Proc, life[p].run \in Run, NEW c \in Code,
           OpenContext(p, c), UNCHANGED grant
    PROVE  Fits'
<1>0. /\ life[p] \in LifeRow /\ DenseDiary(life[p].run) /\ TablesFit
  BY DEF Sound, Fits, TablesFit
<1>1. PICK r \in Run, m \in Nat : r = life[p].run /\ DOMAIN diary[r] = 1 .. m
  BY <1>0 DEF DenseDiary
<1>2. PICK s \in Seq(Event) : s = ReadEvents(r) /\ Len(s) = m /\ Walked(s, r)
  BY <1>1, ReadSound
<1>3. PICK row : row = [life[p] EXCEPT !.code = c, !.history = s, !.seen = << >>]
  OBVIOUS
<1>4. /\ row.run = r /\ row.history = s /\ row.seen = << >> /\ row.code = c
      /\ life' = [life EXCEPT ![p] = row]
  BY <1>0, <1>1, <1>2, <1>3 DEF LifeRow, OpenContext
<1>5. m > 0 /\ s[m].type = "TOOL_INTENT" => s[m].ask = r
  <2>1. m > 0 => s[m] = Ev(r, m) /\ m \in DOMAIN diary[r] /\ m + 1 \notin DOMAIN diary[r]
    BY <1>1, <1>2 DEF Walked, Ev
  <2> QED BY <1>0, <2>1 DEF TablesFit, Walkable
<1>6. CursorAt("agent", row)
  BY <1>2, <1>4, <1>5 DEF CursorAt, Walking
<1>7. RowsStay /\ TablesFit'
  BY <1>0, StandingFit DEF OpenContext, ReadOnly, Exists
<1> QED BY <1>4, <1>6, <1>7, StepFits DEF OpenContext

\* The effect is begun at the end of the snapshot, on the run's own intent.
LEMMA BeginFits ==
    ASSUME Sound, Fits, NEW p \in Proc, BeginEffect(p), UNCHANGED grant
    PROVE  Fits'
<1>0. /\ life[p] \in LifeRow /\ TablesFit /\ CursorAt("acting", life[p])
  BY DEF Sound, Fits, TablesFit, CursorOK, BeginEffect
<1>1. RowsStay /\ TablesFit'
  BY <1>0, StandingFit DEF BeginEffect, Exists
<1>2. CASE HoldsLease(p)
  <2>1. PICK row : row = [life[p] EXCEPT
                             !.found = KeySeq(p) \in DOMAIN keys[life[p].run]]
    OBVIOUS
  <2>2. /\ row.run = life[p].run /\ row.history = life[p].history
        /\ row.seen = life[p].seen /\ row.code = life[p].code
    BY <1>0, <2>1 DEF LifeRow
  <2>3. Len(life[p].seen) \in Nat /\ Len(life[p].history) \in Nat
    BY <1>0 DEF LifeRow
  <2>4. CursorAt("tx", row)
    BY <1>0, <2>2, <2>3 DEF CursorAt, BeginEffect, Replaying, Walking
  <2>5. Goto(p, "tx") /\ life' = [life EXCEPT ![p] = row]
    BY <1>2, <2>1 DEF BeginEffect
  <2> QED BY <1>1, <2>4, <2>5, StepFits
<1>3. CASE ~HoldsLease(p)
  BY <1>1, <1>3, StopFits DEF BeginEffect, Walking
<1> QED BY <1>2, <1>3

\* A key that is there has its completion, so the slot is taken: whoever gets
\* past the primary keys performs the effect for the first time.
LEMMA CommitFits ==
    ASSUME Sound, Fits, NEW p \in Proc, CommitEffect(p), UNCHANGED grant
    PROVE  Fits'
<1>0. /\ life[p] \in LifeRow /\ life[p].run \in Run /\ LifeOK(p)
      /\ TablesFit /\ CursorAt("tx", life[p])
  BY DEF Sound, LifeOK, Fits, TablesFit, CursorOK, CommitEffect
<1>1. PICK r \in Run, t \in Seq(Event) : r = life[p].run /\ t = life[p].seen
  BY <1>0 DEF LifeRow
<1>2. PICK n \in Nat : n = Len(t)
  BY <1>1
<1>3. PICK fn \in Fn : fn = ActingOp(p).ask
  BY <1>0 DEF LifeOK, Op, CommitEffect
<1>4. /\ Exists(r) /\ Walked(t, r) /\ life[p].token \in Nat
      /\ n > 0 /\ KeySeq(p) = n /\ NextSeq(p) = n + 1
  BY <1>0, <1>1, <1>2 DEF LifeOK, LifeRow, KeySeq, NextSeq, CursorAt
<1>5. CASE Conflict(p)
  <2>1. Goto(p, "duplicate") /\ UNCHANGED life /\ UNCHANGED <<diary, keys, ledger, runs>>
    BY <1>5 DEF CommitEffect
  <2>2. RowsStay /\ TablesFit'
    BY <1>0, <2>1, StandingFit DEF Exists
  <2> QED BY <2>1, <2>2, StopFits DEF Walking
<1>6. CASE ~Conflict(p)
  <2>1. ~Taken(r, n + 1)
    BY <1>1, <1>4, <1>6 DEF Conflict
  <2>2. n \notin DOMAIN keys[r]
    <3>1. SUFFICES ASSUME n \in DOMAIN keys[r] PROVE FALSE
      OBVIOUS
    <3>2. PICK i \in DOMAIN ledger[r] : ledger[r][i].seq = n
      BY <1>0, <3>1 DEF TablesFit, Performed
    <3>3. n + 1 \in DOMAIN diary[r]
      BY <1>0, <3>2 DEF TablesFit, Performed, Completes
    <3> QED BY <2>1, <3>3 DEF Taken
  <2>3. ~life[p].found
    BY <1>0, <1>1, <1>4, <2>2 DEF LifeOK, CommitEffect
  <2>4. PICK e \in Event : e = CompletedEvent(r, fn)
    BY DEF CompletedEvent, Event, EventType
  <2>5. /\ InsertEvent(r, n + 1, e, life[p].token)
        /\ keys' = [keys EXCEPT ![r] =
                        [s \in DOMAIN @ \cup {n} |-> IF s = n THEN fn ELSE @[s]]]
        /\ ledger' = [ledger EXCEPT ![r] = Append(@, [seq |-> n, fn |-> fn])]
        /\ Goto(p, "agent") /\ See(p, e) /\ UNCHANGED runs
    BY <1>1, <1>3, <1>4, <1>6, <2>3, <2>4 DEF CommitEffect
  <2>6. Appends(r, n, e)
    BY <1>2, <1>4, <2>1, <2>5, InsertAppends DEF Walked
  <2>7. /\ DOMAIN keys'[r] = DOMAIN keys[r] \cup {n}
        /\ \A q \in Run : q # r => keys'[q] = keys[q]
    BY <2>5 DEF Sound, DiaryTypeOK
  <2>8. Ev(r, n).type = "TOOL_INTENT" /\ Ev(r, n).ask = r
    <3>1. Ev(r, n) = t[n]
      BY <1>2, <1>4, n \in 1 .. n DEF Walked, Ev
    <3> QED BY <1>0, <1>1, <1>2, <3>1 DEF CursorAt
  <2>9. RowsStay /\ TablesFit'
    <3>1. n \in Nat \ {0} /\ Appends(r, n, CompletedEvent(r, fn))
      BY <1>4, <2>4, <2>6
    <3>2. ledger' = [ledger EXCEPT ![r] = Append(@, [seq |-> n, fn |-> fn])]
      BY <2>5
    <3> QED BY <1>0, <1>4, <2>2, <2>7, <2>8, <3>1, <3>2, PerformFits
  <2>10. Leads(p, e, "agent")
    BY <2>4 DEF Leads, CompletedEvent
  <2> QED BY <2>5, <2>9, <2>10, SeeFits DEF CommitEffect, Walking
<1> QED BY <1>5, <1>6

LEMMA ContextFits ==
    ASSUME Sound, Fits, NEW p \in Proc, ContextStep(p), UNCHANGED grant
    PROVE  Fits'
<1>0. /\ life[p] \in LifeRow /\ LifeOK(p) /\ pc \in [Proc -> PC]
      /\ TablesFit /\ CursorAt(pc[p], life[p])
  BY DEF Sound, Fits, TablesFit, CursorOK
<1>a. Replaying(p) /\ NextRecorded(p).type = "TOOL_INTENT" =>
          Leads(p, NextRecorded(p), "acting")
  <2>1. Len(life[p].seen) \in Nat /\ Len(life[p].history) \in Nat
    BY <1>0 DEF LifeRow
  <2> QED BY <1>0, <2>1 DEF Replaying, NextRecorded, Leads, CursorAt
<1>1. CASE ApplyPatch(p)
  <2>1. Replay(p, TRUE, "agent") /\ Leads(p, NextRecorded(p), "agent")
    BY <1>0, <1>1 DEF ApplyPatch, AtPatch, Replay, Goto, Leads
  <2> QED BY <1>1, <2>1, ReplayFits DEF ApplyPatch, Walking
<1>2. CASE ReplayLlm(p)
  <2>1. IsAsked(NextRecorded(p), "LLM_CALLED", Ask(p)) =>
            Leads(p, NextRecorded(p), "agent")
    BY DEF IsAsked, Leads
  <2> QED BY <1>2, <2>1, ReplayFits DEF ReplayLlm, Asks, Walking
<1>3. CASE CallModel(p)
  <2>1. RowsStay /\ TablesFit'
    BY <1>0, <1>3, StandingFit DEF CallModel, ReadOnly, Exists
  <2>2. CursorAt("called", life[p])
    BY <1>0, <1>3 DEF CallModel, Asks, CursorAt, Walking
  <2> QED BY <1>3, <2>1, <2>2, HereFits DEF CallModel
<1>4. CASE RecordLlm(p)
  <2>1. Ask(p) \in Prompt
    BY <1>0, <1>4 DEF RecordLlm, LifeOK, Op, Ask
  <2>2. PICK e : /\ \E response \in Answer : e = LlmEvent(Ask(p), response)
                 /\ Record(p, e, "agent")
    BY <1>4 DEF RecordLlm
  <2>3. e \in Event /\ e.type = "LLM_CALLED" /\ Leads(p, e, "agent")
    BY <2>1, <2>2 DEF LlmEvent, Event, EventType, Leads
  <2> QED BY <1>4, <2>2, <2>3, RecordFits DEF RecordLlm
<1>5. CASE ReplayIntent(p)
  <2>1. Replay(p, NextRecorded(p).type = "TOOL_INTENT", "acting") /\ Replaying(p)
    BY <1>5 DEF ReplayIntent, Replay
  <2> QED BY <1>5, <1>a, <2>1, ReplayFits DEF ReplayIntent, Asks, Walking
<1>6. CASE RecordIntent(p)
  <2>1. PICK e : e = IntentEvent(life[p].run)
    OBVIOUS
  <2>2. /\ e \in Event /\ e.type = "TOOL_INTENT" /\ e.ask = life[p].run
        /\ Leads(p, e, "acting") /\ pc[p] = "agent"
    BY <1>0, <1>6, <2>1 DEF RecordIntent, Asks, LifeOK, IntentEvent, Event,
                            EventType, Leads
  <2> QED BY <1>6, <2>1, <2>2, RecordFits DEF RecordIntent
<1>7. CASE ReplayCompleted(p)
  <2>1. NextRecorded(p).type = "TOOL_COMPLETED" => Leads(p, NextRecorded(p), "agent")
    BY DEF Leads
  <2> QED BY <1>7, <2>1, ReplayFits DEF ReplayCompleted, Walking
<1>8. CASE BeginEffect(p)
  BY <1>8, BeginFits
<1>9. CASE CommitEffect(p)
  BY <1>9, CommitFits
<1>10. CASE ReplayRequest(p)
  <2>1. IsAsked(NextRecorded(p), "APPROVAL_REQUESTED", Ask(p)) =>
            Leads(p, NextRecorded(p), "asked")
    BY DEF IsAsked, Leads
  <2> QED BY <1>10, <2>1, ReplayFits DEF ReplayRequest, Asks, Walking
<1>11. CASE RecordRequest(p)
  <2>1. PICK e : e = RequestEvent(Ask(p))
    OBVIOUS
  <2>2. /\ e \in Event /\ e.type = "APPROVAL_REQUESTED"
        /\ Leads(p, e, "asked") /\ pc[p] = "agent"
    BY <1>11, <2>1 DEF RecordRequest, Asks, Ask, Op, RequestEvent, Event,
                       EventType, Leads
  <2> QED BY <1>11, <2>1, <2>2, RecordFits DEF RecordRequest
<1>12. CASE ReplayDecision(p)
  <2>1. NextRecorded(p).type = "APPROVAL" => Leads(p, NextRecorded(p), "agent")
    BY DEF Leads
  <2> QED BY <1>12, <2>1, ReplayFits DEF ReplayDecision, Walking
<1>13. ASSUME Pause(p) \/ Return(p) \/ RaiseOwn(p) PROVE Fits'
  <2>1. PICK l \in {"paused", "returned", "raised"} : Goto(p, l)
    BY <1>13 DEF Pause, Return, RaiseOwn
  <2>2. UNCHANGED life /\ ReadOnly
    BY <1>13 DEF Pause, Return, RaiseOwn
  <2>3. RowsStay /\ TablesFit'
    BY <1>0, <2>2, StandingFit DEF ReadOnly, Exists
  <2> QED BY <2>1, <2>2, <2>3, StopFits DEF Walking
<1> QED BY <1>1, <1>2, <1>3, <1>4, <1>5, <1>6, <1>7, <1>8, <1>9, <1>10, <1>11,
           <1>12, <1>13 DEF ContextStep

LEMMA CrashFits ==
    ASSUME Sound, Fits, NEW p \in Proc, Crash(p), UNCHANGED grant
    PROVE  Fits'
<1>1. RowsStay /\ TablesFit'
  BY StandingFit DEF Fits, TablesFit, Crash, Exists
<1> QED BY <1>1, LeaveFits DEF Crash

LEMMA RaiseFits ==
    ASSUME Sound, Fits, NEW p \in Proc, Raise(p), UNCHANGED grant
    PROVE  Fits'
<1>1. RowsStay /\ TablesFit'
  BY StandingFit DEF Fits, TablesFit, Raise, Exists
<1> QED BY <1>1, StopFits DEF Raise, Walking

----------------------------------------------------------------------------
(* The queue, the humans, the forks                                        *)

\* A step that leaves every life where it is.
LEMMA OthersFit ==
    ASSUME Fits, RowsStay, TablesFit', UNCHANGED pc, UNCHANGED life,
           \A h \in Human : AnswerOK(h)'
    PROVE  Fits'
<1>1. \A p \in Proc : CursorOK(p)'
  BY DEF Fits, CursorOK
<1> QED BY <1>1 DEF Fits, TablesFit

\* A step that only updates or inserts rows of runs.
LEMMA RowsFit ==
    ASSUME Sound, Fits, UNCHANGED <<diary, keys, ledger>>,
           \A r \in Run : Exists(r) => Exists(r)',
           UNCHANGED pc, UNCHANGED life, UNCHANGED grant
    PROVE  Fits'
<1>1. RowsStay /\ TablesFit'
  BY StandingFit DEF Fits, TablesFit
<1>2. \A h \in Human : AnswerOK(h)'
  BY <1>1, AnswersStand DEF Fits
<1> QED BY <1>1, <1>2, OthersFit

\* The same at the end of a life, and at its start.
LEMMA EndFits ==
    ASSUME Sound, Fits, NEW p \in Proc, UNCHANGED <<diary, keys, ledger>>,
           \A r \in Run : Exists(r) => Exists(r)',
           Leave(p, "idle"), UNCHANGED grant
    PROVE  Fits'
<1>1. RowsStay /\ TablesFit'
  BY StandingFit DEF Fits, TablesFit
<1> QED BY <1>1, LeaveFits

LEMMA TakeFits ==
    ASSUME Sound, Fits, NEW p \in Proc, pc[p] = "idle", NEW r, NEW token,
           UNCHANGED <<diary, keys, ledger>>,
           \A q \in Run : Exists(q) => Exists(q)',
           Goto(p, "claimed"),
           life' = [life EXCEPT ![p] = [@ EXCEPT !.run = r, !.token = token]],
           UNCHANGED grant
    PROVE  Fits'
<1>1. RowsStay /\ TablesFit'
  BY StandingFit DEF Fits, TablesFit
<1>2. PICK row : row = [life[p] EXCEPT !.run = r, !.token = token]
  OBVIOUS
<1>3. row.history = << >> /\ row.seen = << >>
  <2>1. life[p] = NoLife
    BY DEF Sound, LifeOK
  <2> QED BY <1>2, <2>1 DEF NoLife
<1>4. CursorAt("claimed", row)
  BY <1>3 DEF CursorAt, Walking
<1>5. life' = [life EXCEPT ![p] = row]
  BY <1>2
<1> QED BY <1>1, <1>4, <1>5, StepFits

\* Whoever grants has read that the diary ends on a question.
LEMMA GrantReadFits ==
    ASSUME Sound, Fits, NEW h \in Human, NEW r \in Run, GrantRead(h, r),
           UNCHANGED pc, UNCHANGED life
    PROVE  Fits'
<1>1. RowsStay /\ TablesFit'
  BY StandingFit DEF Fits, TablesFit, GrantRead, Exists
<1>2. PICK n \in Nat : DOMAIN diary[r] = 1 .. n
  BY DEF Sound, DenseDiary
<1>3. PICK s \in Seq(Event) : s = ReadEvents(r) /\ Len(s) = n /\ Walked(s, r)
  BY <1>2, ReadSound
<1>4. /\ s # << >> /\ s[n].type = "APPROVAL_REQUESTED"
      /\ grant' = [grant EXCEPT ![h] = [at |-> "read", run |-> r, seq |-> n + 1]]
  BY <1>3 DEF GrantRead, Awaiting
<1>5. n \in DOMAIN diary[r] /\ Ev(r, n).type = "APPROVAL_REQUESTED"
  BY <1>3, <1>4, n \in 1 .. n DEF Walked, Ev
<1>6. ASSUME NEW g \in Human PROVE AnswerOK(g)'
  <2>1. CASE g = h
    <3>1. /\ grant'[g].at = "read" /\ grant'[g].run = r /\ grant'[g].seq = n + 1
      BY <1>4, <2>1 DEF Sound, ApprovalTypeOK
    <3>2. diary'[r] = diary[r]
      BY DEF GrantRead
    <3> QED BY <1>5, <3>1, <3>2 DEF AnswerOK, Ev
  <2>2. CASE g # h
    BY <1>1, <1>4, <2>2, AnswersStand DEF Fits, Sound, ApprovalTypeOK
  <2> QED BY <2>1, <2>2
<1> QED BY <1>1, <1>6, OthersFit

\* The decision goes after it, or nowhere.
LEMMA GrantAppendFits ==
    ASSUME Sound, Fits, NEW h \in Human, GrantAppend(h),
           UNCHANGED pc, UNCHANGED life
    PROVE  Fits'
<1>0. /\ grant[h] \in GrantRow /\ grant[h].at = "read" /\ GrantOK(h)
      /\ grant \in [Human -> GrantRow] /\ AnswerOK(h) /\ TablesFit
  BY DEF GrantAppend, Sound, ApprovalTypeOK, Fits, TablesFit
<1>1. PICK r \in Run, seq \in Nat \ {0} : r = grant[h].run /\ seq = grant[h].seq
  BY <1>0 DEF GrantOK, GrantRow
<1>2. PICK n \in Nat : n = seq - 1
  BY <1>1
<1>3. /\ \A i \in 1 .. n : i \in DOMAIN diary[r]
      /\ n \in DOMAIN diary[r] /\ Ev(r, n).type = "APPROVAL_REQUESTED"
      /\ seq = n + 1
  BY <1>0, <1>1, <1>2 DEF GrantOK, AnswerOK
<1>4. RowsStay /\ TablesFit'
  <2>1. CASE Taken(r, seq)
    <3>1. UNCHANGED <<runs, diary, keys, ledger>>
      BY <1>1, <2>1 DEF GrantAppend
    <3> QED BY <1>0, <3>1, StandingFit DEF Exists
  <2>2. CASE ~Taken(r, seq)
    <3>1. PICK approved \in {"yes", "no"} :
              InsertEvent(r, seq, DecisionEvent(approved), 0)
      BY <1>1, <2>2 DEF GrantAppend
    <3>2. PICK e \in Event : e = DecisionEvent(approved)
      BY DEF DecisionEvent, Event, EventType
    <3>3. UNCHANGED <<runs, keys, ledger>>
      BY DEF GrantAppend
    <3>4. Appends(r, n, e)
      BY <1>3, <2>2, <3>1, <3>2, <3>3, InsertAppends
    <3>5. e.type = "APPROVAL" /\ Follows(Ev(r, n), e) /\ n # 0
      <4>1. n # 0
        BY <1>3 DEF Sound, DiaryTypeOK
      <4> QED BY <1>3, <3>2, <4>1 DEF DecisionEvent, Follows
    <3> QED BY <1>0, <3>3, <3>4, <3>5, AppendFits
  <2> QED BY <2>1, <2>2
<1>5. \/ grant' = [grant EXCEPT ![h] = NoGrant]
      \/ grant' = [grant EXCEPT ![h].at = "appended"]
  BY DEF GrantAppend
<1>6. ASSUME NEW g \in Human PROVE AnswerOK(g)'
  <2>1. CASE g = h
    <3>1. grant'[g].at # "read"
      BY <1>0, <1>5, <2>1 DEF NoGrant, GrantRow
    <3> QED BY <3>1 DEF AnswerOK
  <2>2. CASE g # h
    BY <1>0, <1>4, <1>5, <2>2, AnswersStand DEF Fits
  <2> QED BY <2>1, <2>2
<1> QED BY <1>4, <1>6, OthersFit

LEMMA GrantFits ==
    ASSUME Sound, Fits, NEW h \in Human, GrantStep(h) \/ GrantStops(h),
           UNCHANGED pc, UNCHANGED life
    PROVE  Fits'
<1>1. ASSUME NEW r \in Run, GrantRead(h, r) PROVE Fits'
  BY <1>1, GrantReadFits
<1>2. CASE GrantAppend(h)
  BY <1>2, GrantAppendFits
<1>3. CASE GrantRequeue(h) \/ GrantStops(h)
  <2>1. /\ UNCHANGED <<diary, keys, ledger>>
        /\ grant' = [grant EXCEPT ![h] = NoGrant]
    BY <1>3 DEF GrantRequeue, SetRunStatus, GrantStops
  <2>2. \A r \in Run : Exists(r) => Exists(r)'
    <3>1. CASE GrantRequeue(h)
      <4>1. grant[h].run \in Run
        BY <3>1 DEF GrantRequeue, Sound, GrantOK
      <4> QED BY <3>1, <4>1, StatusFrame DEF GrantRequeue, Status, Grows
    <3>2. CASE GrantStops(h)
      BY <3>2 DEF GrantStops, Exists
    <3> QED BY <1>3, <3>1, <3>2
  <2>3. RowsStay /\ TablesFit'
    BY <2>1, <2>2, StandingFit DEF Fits, TablesFit
  <2>4. ASSUME NEW g \in Human PROVE AnswerOK(g)'
    <3>1. CASE g = h
      BY <2>1, <3>1 DEF AnswerOK, NoGrant, Sound, ApprovalTypeOK
    <3>2. CASE g # h
      BY <2>1, <2>3, <3>2, AnswersStand DEF Fits, Sound, ApprovalTypeOK
    <3> QED BY <3>1, <3>2
  <2> QED BY <2>3, <2>4, OthersFit
<1> QED BY <1>1, <1>2, <1>3 DEF GrantStep

LEMMA ForkFits ==
    ASSUME Sound, Fits, ForkSome, UNCHANGED pc, UNCHANGED life, UNCHANGED grant
    PROVE  Fits'
<1>1. RowsStay /\ TablesFit'
  BY BranchFits DEF Fits, TablesFit
<1>2. \A h \in Human : AnswerOK(h)'
  BY <1>1, AnswersStand DEF Fits
<1> QED BY <1>1, <1>2, OthersFit

----------------------------------------------------------------------------
(* What the invariant says                                                 *)

LEMMA FitsAtFirst ==
    ASSUME DiaryInit, ContextInit, ApprovalInit
    PROVE  Fits
<1>1. DOMAIN << >> = {}
  OBVIOUS
<1>2. \A r \in Run : Walkable(r) /\ Performed(r)
  BY <1>1 DEF DiaryInit, Walkable, Performed
<1>3. \A p \in Proc : CursorOK(p)
  BY DEF ContextInit, CursorOK, CursorAt, NoLife, Walking
<1>4. \A h \in Human : AnswerOK(h)
  BY DEF ApprovalInit, AnswerOK, NoGrant
<1> QED BY <1>2, <1>3, <1>4 DEF Fits

LEMMA FitsOnce == Fits => ExactlyOnce
BY DEF Fits, Performed, ExactlyOnce

LEMMA FitsReplay == Sound /\ Fits => DiaryReplayable
<1> SUFFICES ASSUME Sound, Fits, NEW r \in Run
             PROVE  /\ DOMAIN diary[r] = 1 .. Last(r)
                    /\ \A s \in DOMAIN diary[r] :
                          /\ Type(r, s) = "TOOL_COMPLETED" =>
                                /\ s > 1
                                /\ Type(r, s - 1) = "TOOL_INTENT"
                                /\ diary[r][s - 1].event.ask = diary[r][s].event.ask
                          /\ Type(r, s) = "APPROVAL" =>
                                s > 1 /\ Type(r, s - 1) = "APPROVAL_REQUESTED"
                          /\ s < Last(r) /\ Type(r, s) = "TOOL_INTENT" =>
                                Type(r, s + 1) = "TOOL_COMPLETED"
                          /\ s < Last(r) /\ Type(r, s) = "APPROVAL_REQUESTED" =>
                                Type(r, s + 1) = "APPROVAL"
  BY DEF DiaryReplayable
<1>1. PICK n \in Nat : DOMAIN diary[r] = 1 .. n
  BY DEF Sound, DenseDiary
<1>2. Last(r) = n
  BY <1>1, FS_Interval, 1 \in Int, n \in Int DEF Last
<1>3. Walkable(r)
  BY DEF Fits
<1>4. ASSUME NEW s \in 1 .. n
      PROVE  /\ s > 1 => Follows(Ev(r, s - 1), Ev(r, s))
             /\ s < n => Follows(Ev(r, s), Ev(r, s + 1))
             /\ s = 1 => Ev(r, s).type \notin {"TOOL_COMPLETED", "APPROVAL"}
  <2>1. CASE s > 1
    <3>1. s - 1 \in 1 .. n /\ (s - 1) + 1 = s
      BY <2>1
    <3> QED BY <1>1, <1>3, <3>1 DEF Walkable
  <2>2. CASE s = 1
    BY <1>1, <1>3, <2>2 DEF Walkable
  <2> QED BY <2>1, <2>2
<1>5. ASSUME NEW s \in 1 .. n
      PROVE  /\ Type(r, s) = "TOOL_COMPLETED" =>
                   /\ s > 1
                   /\ Type(r, s - 1) = "TOOL_INTENT"
                   /\ diary[r][s - 1].event.ask = diary[r][s].event.ask
             /\ Type(r, s) = "APPROVAL" =>
                   s > 1 /\ Type(r, s - 1) = "APPROVAL_REQUESTED"
             /\ s < n /\ Type(r, s) = "TOOL_INTENT" =>
                   Type(r, s + 1) = "TOOL_COMPLETED"
             /\ s < n /\ Type(r, s) = "APPROVAL_REQUESTED" =>
                   Type(r, s + 1) = "APPROVAL"
  <2>1. s = 1 \/ s > 1
    OBVIOUS
  <2> QED BY <1>4, <2>1 DEF Follows, Ev, Type
<1> QED BY <1>1, <1>2, <1>5
=============================================================================
