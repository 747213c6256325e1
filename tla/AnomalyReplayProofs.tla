------------------------ MODULE AnomalyReplayProofs ------------------------
(***************************************************************************)
(* Proofs about AnomalyReplay, for any panes, any window and any times of  *)
(* the polls: types and lengths of the deques, their order, what a replay  *)
(* puts into them, and what stays out of a pane's new life.                *)
(***************************************************************************)
EXTENDS AnomalyReplay, FiniteSetTheorems, SequenceTheorems, WellFoundedInduction, TLAPS

(* The rows of the table, newest first *)

\* Every set of times has a first one.
LEMMA EarliestIsFirst ==
    ASSUME NEW S, S \subseteq Nat, S # {}
    PROVE  Earliest(S) \in S /\ \A u \in S : Earliest(S) <= u
<1>1. PICK t \in S : \A u \in S : <<u, t>> \notin OpToRel(<, Nat)
  BY NatLessThanWellFounded, WFMin
<1>2. ASSUME NEW u \in S PROVE t <= u
  <2>1. t \in Nat /\ u \in Nat /\ <<u, t>> \in Nat \X Nat
    OBVIOUS
  <2>2. ~(u < t)
    BY <1>1, <2>1 DEF OpToRel
  <2>. QED BY <2>1, <2>2
<1>. QED BY <1>2 DEF Earliest

\* The elements of S from t on.
From(S, t) == {u \in S : u >= t}

\* Later elements have fewer elements from them on.
LEMMA FromShrinks ==
    ASSUME NEW S, S \subseteq Nat, IsFiniteSet(S)
    PROVE  /\ Cardinality(S) \in Nat
           /\ \A t \in S : /\ IsFiniteSet(From(S, t))
                           /\ Cardinality(From(S, t)) \in 1..Cardinality(S)
           /\ \A t, u \in S : t < u => Cardinality(From(S, u)) < Cardinality(From(S, t))
<1>. DEFINE n == Cardinality(S)
<1>1. n \in Nat
  BY FS_CardinalityType
<1>2. ASSUME NEW t \in S PROVE IsFiniteSet(From(S, t)) /\ Cardinality(From(S, t)) \in 1..n
  <2>1. From(S, t) \in SUBSET S /\ t \in From(S, t)
    BY DEF From
  <2>2. IsFiniteSet(From(S, t)) /\ Cardinality(From(S, t)) <= n
    BY <2>1, FS_Subset
  <2>3. Cardinality(From(S, t)) # 0 /\ Cardinality(From(S, t)) \in Nat
    BY <2>1, <2>2, FS_EmptySet, FS_CardinalityType
  <2>. QED BY <2>2, <2>3, <1>1
<1>3. ASSUME NEW t \in S, NEW u \in S, t < u
      PROVE  Cardinality(From(S, u)) < Cardinality(From(S, t))
  <2>1. \A v \in S : v >= u => v >= t
    BY <1>3
  <2>2. From(S, u) \in SUBSET From(S, t) /\ t \notin From(S, u) /\ t \in From(S, t)
    <3>1. ~(t >= u) /\ t >= t
      BY <1>3
    <3>. QED BY <2>1, <3>1 DEF From
  <2>3. Cardinality(From(S, u)) <= Cardinality(From(S, t)) /\ From(S, u) # From(S, t)
    BY <2>2, <1>2, FS_Subset
  <2>4. Cardinality(From(S, u)) # Cardinality(From(S, t))
    BY <2>2, <2>3, <1>2, FS_Subset
  <2>. QED BY <2>3, <2>4, <1>2
<1>. QED BY <1>1, <1>2, <1>3

\* In a finite set of times every place from the top is taken by one element.
LEMMA PlacesAreTaken ==
    ASSUME NEW S, S \subseteq Nat, IsFiniteSet(S), NEW i \in 1..Cardinality(S)
    PROVE  \E t \in S : Cardinality(From(S, t)) = i
<1>. DEFINE n == Cardinality(S)
            place == [t \in S |-> Cardinality(From(S, t))]
<1>1. n \in Nat
  BY FS_CardinalityType
<1>4. place \in Injection(S, 1..n)
  <2>1. place \in [S -> 1..n]
    BY FromShrinks
  <2>2. ASSUME NEW t \in S, NEW u \in S, t # u PROVE place[t] # place[u]
    <3>1. t \in Nat /\ u \in Nat /\ (t < u \/ u < t)
      BY <2>2
    <3>2. Cardinality(From(S, t)) \in 1..n /\ Cardinality(From(S, u)) \in 1..n
      BY FromShrinks
    <3>3. /\ t < u => Cardinality(From(S, u)) < Cardinality(From(S, t))
          /\ u < t => Cardinality(From(S, t)) < Cardinality(From(S, u))
      BY FromShrinks
    <3>. QED BY <3>1, <3>2, <3>3
  <2>. QED BY <2>1, <2>2 DEF Injection, IsInjective
<1>5. IsFiniteSet(1..n) /\ Cardinality(1..n) = n
  BY <1>1, FS_Interval
<1>6. place \in Surjection(S, 1..n)
  <2>. HIDE DEF place
  <2>. QED BY <1>4, <1>5, FS_Injection
<1>. QED BY <1>6 DEF Surjection

\* The elements of a finite set of times in descending order, none twice, the
\* last one first.
LEMMA DescendingIsSorted ==
    ASSUME NEW S, S \subseteq Nat, IsFiniteSet(S)
    PROVE  /\ Cardinality(S) \in Nat
           /\ Descending(S) \in [1..Cardinality(S) -> S]
           /\ \A i, j \in 1..Cardinality(S) : i < j => Descending(S)[i] > Descending(S)[j]
           /\ \A t \in S : 1 \in 1..Cardinality(S) /\ t <= Descending(S)[1]
<1>. DEFINE n == Cardinality(S)
            d == Descending(S)
<1>1. n \in Nat
  BY FS_CardinalityType
<1>2. d = [i \in 1..n |-> CHOOSE t \in S : Cardinality(From(S, t)) = i]
  BY DEF Descending, From
<1>3. ASSUME NEW i \in 1..n PROVE d[i] \in S /\ d[i] \in Nat /\ Cardinality(From(S, d[i])) = i
  <2>1. \E t \in S : Cardinality(From(S, t)) = i
    BY PlacesAreTaken
  <2>2. d[i] = CHOOSE t \in S : Cardinality(From(S, t)) = i
    BY <1>2
  <2>. QED BY <2>1, <2>2
<1>4. d \in [1..n -> S]
  BY <1>2, <1>3
<1>. HIDE DEF d
<1>5. ASSUME NEW i \in 1..n, NEW j \in 1..n, i < j PROVE d[i] > d[j]
  <2>1. d[i] < d[j] => j < i
    BY <1>3, FromShrinks
  <2>2. d[i] # d[j]
    BY <1>3, <1>5
  <2>. QED BY <1>3, <1>5, <2>1, <2>2
<1>6. ASSUME NEW t \in S PROVE 1 \in 1..n /\ t <= d[1]
  <2>1. Cardinality(From(S, t)) \in 1..n
    BY FromShrinks
  <2>2. 1 \in 1..n
    BY <2>1, <1>1
  <2>3. d[1] < t => Cardinality(From(S, t)) < 1
    BY <1>3, <2>2, FromShrinks
  <2>. QED BY <1>3, <2>1, <2>2, <2>3
<1>. QED BY <1>1, <1>4, <1>5, <1>6 DEF d

-----------------------------------------------------------------------------
(* The deques *)

LEMMA UptoIsPrefix ==
    ASSUME NEW T, NEW seq \in Seq(T), NEW n \in Nat
    PROVE  /\ Upto(seq, n) \in Seq(T)
           /\ Len(Upto(seq, n)) = IF Len(seq) < n THEN Len(seq) ELSE n
           /\ \A i \in 1..Len(Upto(seq, n)) : Upto(seq, n)[i] = seq[i]
<1>. DEFINE k == IF Len(seq) < n THEN Len(seq) ELSE n
<1>1. Len(seq) \in Nat /\ k \in 0..Len(seq)
  OBVIOUS
<1>2. k \in Int /\ 1 \in Int /\ \A i \in 1..k : seq[i] \in T
  BY <1>1
<1>3. Upto(seq, n) = SubSeq(seq, 1, k)
  BY DEF Upto
<1>. HIDE DEF k
<1>4. /\ SubSeq(seq, 1, k) \in Seq(T)
      /\ Len(SubSeq(seq, 1, k)) = IF 1 <= k THEN k - 1 + 1 ELSE 0
      /\ \A i \in 1..(k - 1 + 1) : SubSeq(seq, 1, k)[i] = seq[1 + i - 1]
  BY <1>2, SubSeqProperties
<1>5. k - 1 + 1 = k /\ (IF 1 <= k THEN k - 1 + 1 ELSE 0) = k
  BY <1>1
<1>6. \A i \in 1..k : SubSeq(seq, 1, k)[i] = seq[i]
  BY <1>4, <1>5
<1>. QED BY <1>3, <1>4, <1>5, <1>6 DEF k

\* One more in front, as far as the window reaches.
LEMMA PushedInFront ==
    ASSUME NEW T, NEW deque \in Seq(T), NEW entry \in T
    PROVE  LET pushed == PushFront(deque, entry)
           IN  /\ pushed \in Seq(T)
               /\ Len(pushed) = IF Len(deque) < Window THEN Len(deque) + 1 ELSE Window
               /\ pushed[1] = entry
               /\ \A i \in 2..Len(pushed) : pushed[i] = deque[i - 1]
<1>. DEFINE all == <<entry>> \o deque
<1>1. Window \in Nat /\ Window >= 1 /\ Len(deque) \in Nat
  BY BoundsAssumption
<1>2. <<entry>> \in Seq(T) /\ Len(<<entry>>) = 1 /\ <<entry>>[1] = entry
  OBVIOUS
<1>3. /\ all \in Seq(T) /\ Len(all) = 1 + Len(deque)
      /\ \A i \in 1..(1 + Len(deque)) : all[i] = IF i <= 1 THEN <<entry>>[i] ELSE deque[i - 1]
  BY <1>2, ConcatProperties
<1>4. all[1] = entry /\ \A i \in 2..(1 + Len(deque)) : all[i] = deque[i - 1]
  BY <1>1, <1>2, <1>3
<1>. HIDE DEF all
<1>5. /\ Upto(all, Window) \in Seq(T)
      /\ Len(Upto(all, Window)) = IF Len(all) < Window THEN Len(all) ELSE Window
      /\ \A i \in 1..Len(Upto(all, Window)) : Upto(all, Window)[i] = all[i]
  BY <1>1, <1>3, UptoIsPrefix
<1>6. PushFront(deque, entry) = Upto(all, Window)
  BY DEF PushFront, all
<1>. QED BY <1>1, <1>3, <1>4, <1>5, <1>6

-----------------------------------------------------------------------------
(* The inductive invariant *)

Tables == UNION {[times -> Row] : times \in SUBSET Time}

Shape ==
    /\ now \in Time /\ started \in Time /\ started <= now
    /\ polled \subseteq Panes /\ replayed \subseteq Panes
    /\ seen \in [Panes -> {"unseen", "alive", "dead"}]
    /\ pre \in [Panes -> Seq(PreSample)] /\ post \in [Panes -> Seq(PostSample)]
    /\ table \in [Panes -> Tables]
    /\ respawn \in [Panes -> [at : Time \union {0}, hydrated : BOOLEAN]]
    /\ own \in [Panes -> 0..Window]
    /\ found \in [Panes -> SUBSET Time]

\* The deques are filled together, the session's own samples in front.
Filled(p) ==
    /\ Len(pre[p]) = Len(post[p]) /\ Len(post[p]) <= Window
    /\ own[p] <= Len(post[p]) /\ (own[p] = 0 => post[p] = <<>>)

\* Before its first observation in a session a pane has nothing but rows that
\* were written before the session began.
Untouched(p) ==
    p \notin replayed =>
        /\ pre[p] = <<>> /\ post[p] = <<>> /\ ~respawn[p].hydrated
        /\ \A t \in DOMAIN table[p] : t <= started

\* Nothing comes from the future, and only the front comes from this second.
Dated(p) ==
    /\ \A t \in DOMAIN table[p] : t <= now
    /\ respawn[p].at <= now
    /\ \A i \in DOMAIN post[p] :
           /\ post[p][i].obs <= now
           /\ (post[p][i].obs = now /\ now > started) => (p \in polled /\ i = 1)
    /\ (p \in polled /\ seen[p] = "alive") => (post[p] # <<>> /\ post[p][1].obs = now)

\* A finding of this second was made on a pane that has been polled.
Marked(p) ==
    \A t \in found[p] : t <= now /\ ((t = now /\ now > started) => p \in polled)

Sorted(p) == \A i, j \in DOMAIN post[p] : i < j => post[p][i].obs >= post[p][j].obs

Joined(p) ==
    own[p] \in 1..(Len(post[p]) - 1)
        => post[p][own[p]].obs - post[p][own[p] + 1].obs <= 2 * Window

Reborn(p) ==
    respawn[p].hydrated =>
        /\ \A i \in DOMAIN pre[p] : pre[p][i].obs >= respawn[p].at
        /\ \A i \in DOMAIN post[p] : post[p][i].obs >= respawn[p].at

Visible(p) ==
    \A i \in DOMAIN post[p] :
        (post[p][i].obs \in found[p] /\ post[p][i].obs > started) => post[p][i].edited

PaneInv(p) ==
    /\ Filled(p) /\ Untouched(p) /\ Dated(p) /\ Marked(p)
    /\ Sorted(p) /\ Joined(p) /\ Reborn(p) /\ Visible(p)

ReplayInv == Shape /\ \A p \in Panes : PaneInv(p)

-----------------------------------------------------------------------------
(* Replay *)

\* The rows that are replayed: some of the table's, from the newest on.
LEMMA RowsToReplay ==
    ASSUME Shape, NEW p \in Panes
    PROVE  LET ticks == RowsNewestFirst(p)
           IN  /\ ticks \in Seq(DOMAIN table[p]) /\ Len(ticks) <= Window
               /\ \A i, j \in 1..Len(ticks) : i < j => ticks[i] > ticks[j]
               /\ \A t \in DOMAIN table[p] : 1 \in 1..Len(ticks) /\ t <= ticks[1]
               /\ \A t \in DOMAIN table[p] : t \in Time /\ table[p][t] \in Row
<1>. DEFINE S == DOMAIN table[p]
            d == Descending(S)
            n == Cardinality(S)
<1>1. table[p] \in [S -> Row] /\ S \in SUBSET Time
  <2>1. table[p] \in Tables
    BY DEF Shape
  <2>2. PICK times \in SUBSET Time : table[p] \in [times -> Row]
    BY <2>1 DEF Tables
  <2>3. S = times
    BY <2>2
  <2>. QED BY <2>2, <2>3
<1>2. S \subseteq Nat /\ IsFiniteSet(S)
  BY <1>1, BoundsAssumption, FS_Subset
<1>. HIDE DEF S
<1>3. /\ n \in Nat /\ d \in [1..n -> S]
      /\ \A i, j \in 1..n : i < j => d[i] > d[j]
      /\ \A t \in S : 1 \in 1..n /\ t <= d[1]
  BY <1>2, DescendingIsSorted
<1>. HIDE DEF d, n
<1>4. d \in Seq(S) /\ Len(d) = n
  BY <1>3
<1>5. Window \in Nat /\ Window >= 1
  BY BoundsAssumption
<1>6. /\ Upto(d, Window) \in Seq(S)
      /\ Len(Upto(d, Window)) = IF n < Window THEN n ELSE Window
      /\ \A i \in 1..Len(Upto(d, Window)) : Upto(d, Window)[i] = d[i]
  BY <1>4, <1>5, UptoIsPrefix
<1>7. RowsNewestFirst(p) = Upto(d, Window)
  BY DEF RowsNewestFirst, d, S
<1>. HIDE DEF Upto
<1>. DEFINE ticks == Upto(d, Window)
<1>8. Len(ticks) <= Window /\ 1..Len(ticks) \subseteq 1..n
  BY <1>3, <1>5, <1>6
<1>9. \A i, j \in 1..Len(ticks) : i < j => ticks[i] > ticks[j]
  BY <1>3, <1>6, <1>8
<1>10. \A t \in S : 1 \in 1..Len(ticks) /\ t <= ticks[1]
  BY <1>3, <1>5, <1>6
<1>11. \A t \in S : t \in Time /\ table[p][t] \in Row
  BY <1>1
<1>. HIDE DEF ticks
<1>. QED BY <1>6, <1>7, <1>8, <1>9, <1>10, <1>11 DEF ticks, S

\* Replay fills the post-rule deque, which is empty then, with the rows.
LEMMA ReplayedPost ==
    ASSUME Shape, NEW p \in Panes
    PROVE  LET ticks == RowsNewestFirst(p)
               deque == HydratePost(p, <<>>)
           IN  /\ deque \in Seq(PostSample) /\ Len(deque) = Len(ticks)
               /\ \A i \in 1..Len(ticks) : deque[i].obs = ticks[i]
<1>. DEFINE ticks == RowsNewestFirst(p)
            stored == [i \in DOMAIN ticks |-> [obs |-> ticks[i], edited |-> table[p][ticks[i]].edited]]
<1>1. /\ ticks \in Seq(DOMAIN table[p]) /\ Len(ticks) <= Window
      /\ \A t \in DOMAIN table[p] : t \in Time /\ table[p][t] \in Row
  BY RowsToReplay
<1>. HIDE DEF ticks
<1>2. DOMAIN ticks = 1..Len(ticks) /\ Len(ticks) \in Nat
  BY <1>1
<1>3. \A i \in 1..Len(ticks) : stored[i] \in PostSample /\ stored[i].obs = ticks[i]
  BY <1>1, <1>2 DEF PostSample, Row
<1>4. stored \in Seq(PostSample) /\ Len(stored) = Len(ticks)
  BY <1>2, <1>3
<1>. HIDE DEF stored
<1>5. <<>> \in Seq(PostSample) /\ Len(<<>>) = 0
  OBVIOUS
<1>6. /\ stored \o <<>> \in Seq(PostSample) /\ Len(stored \o <<>>) = Len(ticks)
      /\ \A i \in 1..Len(ticks) : (stored \o <<>>)[i] = stored[i]
  <2>1. /\ stored \o <<>> \in Seq(PostSample)
        /\ Len(stored \o <<>>) = Len(stored) + Len(<<>>)
        /\ \A i \in 1..(Len(stored) + Len(<<>>)) :
              (stored \o <<>>)[i] = IF i <= Len(stored) THEN stored[i] ELSE <<>>[i - Len(stored)]
    BY <1>4, <1>5, ConcatProperties
  <2>. QED BY <2>1, <1>2, <1>4, <1>5
<1>7. HydratePost(p, <<>>) = Upto(stored \o <<>>, Window)
  BY DEF HydratePost, stored, ticks
<1>8. Window \in Nat
  BY BoundsAssumption
<1>9. /\ Upto(stored \o <<>>, Window) \in Seq(PostSample)
      /\ Len(Upto(stored \o <<>>, Window)) = Len(ticks)
      /\ \A i \in 1..Len(ticks) : Upto(stored \o <<>>, Window)[i] = stored[i]
  <2>. DEFINE all == stored \o <<>>
  <2>. HIDE DEF all
  <2>1. /\ Upto(all, Window) \in Seq(PostSample)
        /\ Len(Upto(all, Window)) = IF Len(all) < Window THEN Len(all) ELSE Window
        /\ \A i \in 1..Len(Upto(all, Window)) : Upto(all, Window)[i] = all[i]
    BY <1>6, <1>8, UptoIsPrefix DEF all
  <2>2. Len(all) = Len(ticks) /\ \A i \in 1..Len(ticks) : all[i] = stored[i]
    BY <1>6 DEF all
  <2>3. Len(Upto(all, Window)) = Len(ticks)
    BY <2>1, <2>2, <1>1, <1>2, <1>8
  <2>. QED BY <2>1, <2>2, <2>3 DEF all
<1>. QED BY <1>3, <1>7, <1>9 DEF ticks

\* Replay puts the rows before the first sample of the pre-rule deque.
LEMMA ReplayedPre ==
    ASSUME Shape, NEW p \in Panes, NEW deque \in Seq(PreSample), Len(deque) = 1
    PROVE  LET ticks == RowsNewestFirst(p)
               all == HydratePre(p, deque)
           IN  /\ all \in Seq(PreSample)
               /\ Len(all) = IF Len(ticks) < Window THEN Len(ticks) + 1 ELSE Window
<1>. DEFINE ticks == RowsNewestFirst(p)
            stored == [i \in DOMAIN ticks |-> [tick |-> ticks[i], obs |-> table[p][ticks[i]].obs]]
<1>1. /\ ticks \in Seq(DOMAIN table[p]) /\ Len(ticks) <= Window
      /\ \A t \in DOMAIN table[p] : t \in Time /\ table[p][t] \in Row
  BY RowsToReplay
<1>. HIDE DEF ticks
<1>2. DOMAIN ticks = 1..Len(ticks) /\ Len(ticks) \in Nat
  BY <1>1
<1>3. \A i \in 1..Len(ticks) : stored[i] \in PreSample
  BY <1>1, <1>2 DEF PreSample, Row
<1>4. stored \in Seq(PreSample) /\ Len(stored) = Len(ticks)
  BY <1>2, <1>3
<1>. HIDE DEF stored
<1>5. stored \o deque \in Seq(PreSample) /\ Len(stored \o deque) = Len(ticks) + 1
  BY <1>4, ConcatProperties, SMTT(30)
<1>6. HydratePre(p, deque) = Upto(stored \o deque, Window)
  BY DEF HydratePre, stored, ticks
<1>7. Window \in Nat
  BY BoundsAssumption
<1>8. /\ Upto(stored \o deque, Window) \in Seq(PreSample)
      /\ Len(Upto(stored \o deque, Window))
            = IF Len(stored \o deque) < Window THEN Len(stored \o deque) ELSE Window
  BY <1>5, <1>7, UptoIsPrefix
<1>9. (IF Len(ticks) + 1 < Window THEN Len(ticks) + 1 ELSE Window)
         = (IF Len(ticks) < Window THEN Len(ticks) + 1 ELSE Window)
  BY <1>2, <1>7
<1>. QED BY <1>5, <1>6, <1>8, <1>9 DEF ticks

-----------------------------------------------------------------------------
(* The observation of a live pane *)

\* The event of the observation, and the entry it adds.
EventAlive(p) == LifecycleEvent(seen[p], "alive")
NewEntry == [obs |-> now, edited |-> FALSE]

\* The deques start anew.
Begun(p) ==
    Evicts(EventAlive(p)) /\ Len(post'[p]) = 1 /\ pre'[p][1].obs = now

\* The deques move on by one entry.
Pushed(p) ==
    /\ ~Evicts(EventAlive(p))
    /\ Len(post'[p]) = IF Len(post[p]) < Window THEN Len(post[p]) + 1 ELSE Window
    /\ \A i \in 2..Len(post'[p]) : post'[p][i] = post[p][i - 1]
    /\ pre'[p][1].obs = now /\ \A i \in 2..Len(pre'[p]) : pre'[p][i] = pre[p][i - 1]

\* The deques are filled from the table.
Replayed(p) ==
    /\ p \notin replayed
    /\ \A i \in 2..Len(post'[p]) : post'[p][i].obs \in DOMAIN table[p]
    /\ \A i, j \in 2..Len(post'[p]) : i < j => post'[p][i].obs >= post'[p][j].obs
    /\ 2 \in 1..Len(post'[p]) => now - post'[p][2].obs <= 2 * Window

LEMMA DequesAfter ==
    ASSUME Shape, NEW p \in Panes, PaneInv(p), NEW saved \in BOOLEAN, ObserveAlive(p, saved)
    PROVE  /\ pre'[p] \in Seq(PreSample) /\ post'[p] \in Seq(PostSample)
           /\ pre' = [pre EXCEPT ![p] = pre'[p]] /\ post' = [post EXCEPT ![p] = post'[p]]
           /\ Len(pre'[p]) = Len(post'[p]) /\ Len(post'[p]) \in 1..Window
           /\ post'[p][1] = NewEntry
           /\ Begun(p) \/ Pushed(p) \/ Replayed(p)
<1>. DEFINE event == EventAlive(p)
            e     == [tick |-> now, obs |-> now]
            pre0  == IF Evicts(event) THEN <<>> ELSE pre[p]
            post0 == IF Evicts(event) THEN <<>> ELSE post[p]
            pre1  == PushFront(pre0, e)
            pre2  == IF Hydrates(p, event) THEN HydratePre(p, pre1) ELSE pre1
            post2 == IF Hydrates(p, event) THEN HydratePost(p, post0) ELSE post0
            post3 == PushFront(post2, NewEntry)
<1>1. pre'[p] = pre2 /\ post'[p] = post3
      /\ pre' = [pre EXCEPT ![p] = pre'[p]] /\ post' = [post EXCEPT ![p] = post'[p]]
  BY DEF ObserveAlive, Shape, EventAlive, NewEntry
<1>2. /\ e \in PreSample /\ e.obs = now /\ NewEntry \in PostSample /\ NewEntry.obs = now
      /\ now \in Nat /\ Window \in Nat /\ Window >= 1
  BY BoundsAssumption DEF Shape, PreSample, PostSample, NewEntry
<1>3. /\ pre0 \in Seq(PreSample) /\ post0 \in Seq(PostSample)
      /\ Len(pre0) = Len(post0) /\ Len(post0) \in 0..Window
  BY <1>2 DEF Shape, PaneInv, Filled
<1>. HIDE DEF e
<1>4. /\ pre1 \in Seq(PreSample)
      /\ Len(pre1) = IF Len(pre0) < Window THEN Len(pre0) + 1 ELSE Window
      /\ pre1[1] = e
      /\ \A i \in 2..Len(pre1) : pre1[i] = pre0[i - 1]
  <2>1. pre0 \in Seq(PreSample) /\ e \in PreSample
    BY <1>2, <1>3
  <2>2. \A d \in Seq(PreSample), x \in PreSample :
           /\ PushFront(d, x) \in Seq(PreSample)
           /\ Len(PushFront(d, x)) = IF Len(d) < Window THEN Len(d) + 1 ELSE Window
           /\ PushFront(d, x)[1] = x
           /\ \A i \in 2..Len(PushFront(d, x)) : PushFront(d, x)[i] = d[i - 1]
    BY ONLY PushedInFront
  <2>. HIDE DEF pre0
  <2>. QED BY ONLY <2>1, <2>2
<1>5. ASSUME ~Hydrates(p, event)
      PROVE  /\ pre2 \in Seq(PreSample) /\ post3 \in Seq(PostSample)
             /\ Len(pre2) = Len(post3) /\ Len(post3) \in 1..Window
             /\ post3[1] = NewEntry
             /\ Begun(p) \/ Pushed(p)
  <2>1. pre2 = pre1 /\ post2 = post0
    BY <1>5
  <2>2. /\ post3 \in Seq(PostSample)
        /\ Len(post3) = IF Len(post0) < Window THEN Len(post0) + 1 ELSE Window
        /\ post3[1] = NewEntry
        /\ \A i \in 2..Len(post3) : post3[i] = post0[i - 1]
    <3>. HIDE DEF post0, post2
    <3>. QED BY <2>1, <1>2, <1>3, PushedInFront
  <2>3. Len(pre1) = Len(post3) /\ Len(post3) \in 1..Window
    <3>. HIDE DEF pre0, post0, pre1, post3
    <3>. QED BY <2>2, <1>2, <1>3, <1>4
  <2>4. CASE Evicts(event)
    <3>1. Len(post3) = 1
      <4>1. Len(post0) = 0
        BY <2>4
      <4>. HIDE DEF post0, post3
      <4>. QED BY <4>1, <2>2, <1>2
    <3>. HIDE DEF pre1, pre2, post3
    <3>. QED BY <3>1, <1>1, <1>2, <1>4, <2>1, <2>2, <2>3, <2>4 DEF Begun
  <2>5. CASE ~Evicts(event)
    <3>1. pre0 = pre[p] /\ post0 = post[p]
      BY <2>5
    <3>. HIDE DEF pre0, post0, pre1, pre2, post2, post3
    <3>2. pre'[p] = pre1 /\ post'[p] = post3
      BY <1>1, <2>1
    <3>3. Len(post'[p]) = IF Len(post[p]) < Window THEN Len(post[p]) + 1 ELSE Window
      BY <3>1, <3>2, <2>2
    <3>4. \A i \in 2..Len(post'[p]) : post'[p][i] = post[p][i - 1]
      BY <3>1, <3>2, <2>2
    <3>5. pre'[p][1].obs = now /\ \A i \in 2..Len(pre'[p]) : pre'[p][i] = pre[p][i - 1]
      BY <3>1, <3>2, <1>2, <1>4
    <3>6. Pushed(p)
      BY <2>5, <3>3, <3>4, <3>5 DEF Pushed
    <3>. QED BY <3>6, <1>4, <2>1, <2>2, <2>3
  <2>. QED BY <2>4, <2>5
<1>6. ASSUME Hydrates(p, event)
      PROVE  /\ pre2 \in Seq(PreSample) /\ post3 \in Seq(PostSample)
             /\ Len(pre2) = Len(post3) /\ Len(post3) \in 1..Window
             /\ post3[1] = NewEntry
             /\ Replayed(p)
  <2>. DEFINE ticks == RowsNewestFirst(p)
  <2>1. p \notin replayed /\ Fresh(p)
    BY <1>6 DEF Hydrates
  <2>2. pre0 = <<>> /\ post0 = <<>>
    BY <2>1 DEF PaneInv, Untouched
  <2>3. pre2 = HydratePre(p, pre1) /\ post2 = HydratePost(p, <<>>)
    BY <1>6, <2>2
  <2>4. Len(pre1) = 1
    <3>1. Len(pre0) = 0
      BY <2>2
    <3>. HIDE DEF pre0, pre1
    <3>. QED BY <3>1, <1>2, <1>4
  <2>5. /\ ticks \in Seq(DOMAIN table[p]) /\ Len(ticks) <= Window
        /\ \A i, j \in 1..Len(ticks) : i < j => ticks[i] > ticks[j]
        /\ \A t \in DOMAIN table[p] : 1 \in 1..Len(ticks) /\ t <= ticks[1]
        /\ \A t \in DOMAIN table[p] : t \in Nat
    BY RowsToReplay, BoundsAssumption
  <2>. HIDE DEF ticks, pre0, pre1, post0
  <2>6. /\ post2 \in Seq(PostSample) /\ Len(post2) = Len(ticks)
        /\ \A i \in 1..Len(ticks) : post2[i].obs = ticks[i]
    BY <2>3, ReplayedPost DEF ticks
  <2>7. /\ pre2 \in Seq(PreSample)
        /\ Len(pre2) = IF Len(ticks) < Window THEN Len(ticks) + 1 ELSE Window
    BY <1>4, <2>3, <2>4, ReplayedPre DEF ticks
  <2>. HIDE DEF pre2, post2
  <2>8. /\ post3 \in Seq(PostSample)
        /\ Len(post3) = IF Len(post2) < Window THEN Len(post2) + 1 ELSE Window
        /\ post3[1] = NewEntry
        /\ \A i \in 2..Len(post3) : post3[i] = post2[i - 1]
    BY <1>2, <2>6, PushedInFront
  <2>. HIDE DEF post3
  <2>9. Len(ticks) \in Nat
    BY <2>5
  <2>10. Len(pre2) = Len(post3) /\ Len(post3) \in 1..Window /\ Len(post3) <= Len(ticks) + 1
    BY <1>2, <2>6, <2>7, <2>8, <2>9
  <2>11. \A i \in 2..Len(post3) : i - 1 \in 1..Len(ticks) /\ post3[i].obs = ticks[i - 1]
    BY <2>6, <2>8, <2>9, <2>10
  <2>12. \A i \in 1..Len(ticks) : ticks[i] \in DOMAIN table[p] /\ ticks[i] \in Nat
    BY <2>5
  <2>13. ASSUME NEW i \in 2..Len(post3), NEW j \in 2..Len(post3), i < j
         PROVE  post3[i].obs >= post3[j].obs
    <3>1. i - 1 \in 1..Len(ticks) /\ j - 1 \in 1..Len(ticks) /\ i - 1 < j - 1
      BY <2>11, <2>13
    <3>2. ticks[i - 1] > ticks[j - 1]
      BY <3>1, <2>5
    <3>3. ticks[i - 1] \in Nat /\ ticks[j - 1] \in Nat
      BY <3>1, <2>12
    <3>4. post3[i].obs = ticks[i - 1] /\ post3[j].obs = ticks[j - 1]
      BY <2>11
    <3>. QED BY <3>2, <3>3, <3>4
  <2>14. now - ticks[1] <= 2 * Window
    <3>1. PICK t \in DOMAIN table[p] : now - t <= 2 * Window
      BY <2>1 DEF Fresh
    <3>2. t <= ticks[1] /\ t \in Nat /\ ticks[1] \in Nat
      BY <2>5, <2>12
    <3>. QED BY <3>1, <3>2, <1>2
  <2>15. 2 \in 1..Len(post3) => now - post3[2].obs <= 2 * Window
    BY <2>11, <2>14
  <2>. QED BY <1>1, <2>1, <2>7, <2>8, <2>10, <2>11, <2>12, <2>13, <2>15 DEF Replayed
<1>. HIDE DEF pre2, post3, event
<1>. QED BY <1>1, <1>5, <1>6

\* What the observation does to the rest of what is kept of the pane.
LEMMA KeptAfter ==
    ASSUME Shape, NEW p \in Panes, PaneInv(p), NEW saved \in BOOLEAN, ObserveAlive(p, saved)
    PROVE  /\ p \notin polled /\ p \in polled' /\ p \in replayed' /\ seen'[p] = "alive"
           /\ UNCHANGED <<now, started, found>>
           /\ DOMAIN table'[p] \subseteq DOMAIN table[p] \union {now}
           /\ respawn'[p].at <= now /\ respawn'[p] \in [at : Time \union {0}, hydrated : BOOLEAN]
           /\ own'[p] \in 0..Window
           /\ Begun(p) => own'[p] = 1 /\ respawn'[p].at = now
           /\ Pushed(p) => /\ respawn'[p] = respawn[p]
                           /\ own'[p] = IF own[p] < Window THEN own[p] + 1 ELSE own[p]
           /\ Replayed(p) => own'[p] = 1 /\ ~respawn'[p].hydrated
<1>. DEFINE event == EventAlive(p)
<1>1. /\ p \notin polled /\ polled' = polled \union {p} /\ replayed' = replayed \union {p}
      /\ seen' = [seen EXCEPT ![p] = "alive"] /\ UNCHANGED <<now, started, found>>
      /\ respawn' = [respawn EXCEPT ![p] =
             IF event = "Reappeared" THEN [at |-> now, hydrated |-> p \in replayed] ELSE @]
      /\ own' = [own EXCEPT ![p] = IF Evicts(event) THEN 1 ELSE IF @ < Window THEN @ + 1 ELSE @]
      /\ DOMAIN table'[p] \subseteq DOMAIN table[p] \union {now}
  BY DEF ObserveAlive, EventAlive, Shape
<1>2. event = "Reappeared" \/ event = "Appeared" \/ event = "Unchanged"
  BY DEF EventAlive, LifecycleEvent, Shape
<1>3. Evicts(event) <=> event = "Reappeared"
  BY <1>2 DEF Evicts
<1>. HIDE DEF event
<1>4. respawn'[p] = IF event = "Reappeared" THEN [at |-> now, hydrated |-> p \in replayed]
                    ELSE respawn[p]
  BY <1>1 DEF Shape
<1>5. /\ own'[p] = IF Evicts(event) THEN 1 ELSE IF own[p] < Window THEN own[p] + 1 ELSE own[p]
      /\ own[p] \in 0..Window /\ Window \in Nat /\ Window >= 1
  BY <1>1, BoundsAssumption DEF Shape
<1>6. /\ now \in Time /\ now <= now /\ respawn[p].at <= now
      /\ respawn[p] \in [at : Time \union {0}, hydrated : BOOLEAN]
  BY BoundsAssumption DEF Shape, PaneInv, Dated
<1>7. respawn'[p].at <= now /\ respawn'[p] \in [at : Time \union {0}, hydrated : BOOLEAN]
  BY <1>4, <1>6
<1>8. own'[p] \in 0..Window
  BY <1>5
<1>9. Begun(p) => own'[p] = 1 /\ respawn'[p].at = now
  BY <1>3, <1>4, <1>5 DEF Begun, event
<1>10. Pushed(p) => /\ respawn'[p] = respawn[p]
                    /\ own'[p] = IF own[p] < Window THEN own[p] + 1 ELSE own[p]
  BY <1>3, <1>4, <1>5 DEF Pushed, event
<1>11. Replayed(p) => own'[p] = 1 /\ ~respawn'[p].hydrated
  <2>1. p \notin replayed => /\ post[p] = <<>> /\ ~respawn[p].hydrated
                             /\ own[p] <= Len(post[p])
    BY DEF PaneInv, Untouched, Filled
  <2>2. p \notin replayed => own[p] = 0
    BY <2>1, <1>5
  <2>3. p \notin replayed => own'[p] = 1
    BY <2>2, <1>5
  <2>4. p \notin replayed => ~respawn'[p].hydrated
    <3>1. [at |-> now, hydrated |-> p \in replayed].hydrated <=> p \in replayed
      BY Zenon
    <3>. QED BY <3>1, <2>1, <1>4
  <2>. QED BY <2>3, <2>4 DEF Replayed
<1>12. p \in polled' /\ p \in replayed' /\ seen'[p] = "alive"
  BY <1>1 DEF Shape
<1>. QED BY <1>1, <1>7, <1>8, <1>9, <1>10, <1>11, <1>12

\* The observation keeps the pane's part of the invariant.
LEMMA AliveKeepsPane ==
    ASSUME Shape, NEW p \in Panes, PaneInv(p), NEW saved \in BOOLEAN, ObserveAlive(p, saved)
    PROVE  PaneInv(p)'
<1>. DEFINE n == Len(post'[p])
<1>1. /\ pre'[p] \in Seq(PreSample) /\ post'[p] \in Seq(PostSample)
      /\ Len(pre'[p]) = n /\ n \in 1..Window /\ post'[p][1] = NewEntry
      /\ Begun(p) \/ Pushed(p) \/ Replayed(p)
  BY DequesAfter
<1>2. /\ p \notin polled /\ p \in polled' /\ p \in replayed' /\ seen'[p] = "alive"
      /\ UNCHANGED <<now, started, found>>
      /\ DOMAIN table'[p] \subseteq DOMAIN table[p] \union {now}
      /\ respawn'[p].at <= now /\ respawn'[p] \in [at : Time \union {0}, hydrated : BOOLEAN]
      /\ own'[p] \in 0..Window
      /\ Begun(p) => own'[p] = 1 /\ respawn'[p].at = now
      /\ Pushed(p) => /\ respawn'[p] = respawn[p]
                      /\ own'[p] = IF own[p] < Window THEN own[p] + 1 ELSE own[p]
      /\ Replayed(p) => own'[p] = 1 /\ ~respawn'[p].hydrated
  BY KeptAfter
<1>3. /\ now \in Nat /\ started \in Nat /\ started <= now /\ Window \in Nat /\ Window >= 1
      /\ \A t \in DOMAIN table[p] : t \in Nat /\ t <= now
      /\ \A t \in found[p] : t \in Nat /\ t <= now
      /\ respawn'[p].at \in Nat
      /\ NewEntry.obs = now
  <2>1. \A t \in DOMAIN table[p] : t \in Time
    BY RowsToReplay
  <2>2. now \in Nat /\ started \in Nat /\ started <= now /\ Window \in Nat /\ Window >= 1
    BY BoundsAssumption DEF Shape
  <2>3. \A t \in DOMAIN table[p] : t \in Nat /\ t <= now
    BY <2>1, BoundsAssumption DEF PaneInv, Dated
  <2>4. found[p] \in SUBSET Time
    BY DEF Shape
  <2>5. \A t \in found[p] : t \in Nat /\ t <= now
    BY <2>4, BoundsAssumption DEF PaneInv, Marked
  <2>6. respawn'[p].at \in Nat
    <3>1. Time \union {0} \subseteq Nat
      BY BoundsAssumption
    <3>2. respawn'[p].at \in Time \union {0}
      BY <1>2
    <3>. QED BY <3>1, <3>2
  <2>. QED BY <2>2, <2>3, <2>5, <2>6 DEF NewEntry
<1>4. /\ post[p] \in Seq(PostSample) /\ pre[p] \in Seq(PreSample)
      /\ Len(pre[p]) = Len(post[p]) /\ Len(post[p]) <= Window /\ Len(post[p]) \in Nat
      /\ \A i \in 1..Len(post[p]) : post[p][i].obs \in Nat
      /\ \A i \in 1..Len(pre[p]) : pre[p][i].obs \in Nat
      /\ own[p] \in Nat /\ own[p] <= Len(post[p]) /\ (own[p] = 0 => Len(post[p]) = 0)
  <2>1. /\ post[p] \in Seq(PostSample) /\ pre[p] \in Seq(PreSample)
        /\ own[p] \in 0..Window /\ Window \in Nat
    BY BoundsAssumption DEF Shape
  <2>2. /\ \A x \in PostSample : x.obs \in Nat
        /\ \A x \in PreSample : x.obs \in Nat
    BY BoundsAssumption DEF PostSample, PreSample
  <2>3. /\ Len(pre[p]) = Len(post[p]) /\ Len(post[p]) <= Window
        /\ own[p] <= Len(post[p]) /\ (own[p] = 0 => post[p] = <<>>)
    BY DEF PaneInv, Filled
  <2>. QED BY <2>1, <2>2, <2>3
<1>5. /\ DOMAIN post[p] = 1..Len(post[p]) /\ DOMAIN pre[p] = 1..Len(pre[p])
      /\ DOMAIN post'[p] = 1..n /\ DOMAIN pre'[p] = 1..n
  <2>. HIDE DEF n
  <2>. QED BY <1>1, <1>4 DEF n
\* Entries behind the front are older ones, or rows.
<1>6. \A i \in 2..n :
        \/ Pushed(p) /\ i - 1 \in 1..Len(post[p]) /\ post'[p][i] = post[p][i - 1]
        \/ Replayed(p) /\ post'[p][i].obs \in DOMAIN table[p]
  <2>. SUFFICES ASSUME NEW i \in 2..n
                PROVE  \/ Pushed(p) /\ i - 1 \in 1..Len(post[p]) /\ post'[p][i] = post[p][i - 1]
                       \/ Replayed(p) /\ post'[p][i].obs \in DOMAIN table[p]
    OBVIOUS
  <2>1. ~Begun(p)
    <3>1. n # 1
      <4>1. n \in Nat /\ 2..1 = {}
        BY <1>1, <1>3
      <4>. QED BY <4>1
    <3>. QED BY <3>1 DEF Begun
  <2>2. CASE Pushed(p)
    <3>1. n = IF Len(post[p]) < Window THEN Len(post[p]) + 1 ELSE Window
      BY <2>2 DEF Pushed
    <3>2. i - 1 \in 1..Len(post[p])
      BY <3>1, <1>3, <1>4
    <3>. QED BY <2>2, <3>2 DEF Pushed
  <2>3. CASE Replayed(p)
    BY <2>3 DEF Replayed
  <2>. QED BY <2>1, <2>2, <2>3, <1>1
<1>7. \A i \in 1..n : post'[p][i].obs \in Nat /\ post'[p][i].obs <= now
  <2>1. \A i \in 1..Len(post[p]) : post[p][i].obs \in Nat /\ post[p][i].obs <= now
    BY <1>4, <1>5 DEF PaneInv, Dated
  <2>2. \A i \in 1..n : i = 1 \/ i \in 2..n
    BY <1>1
  <2>3. post'[p][1].obs = now
    BY <1>1, <1>3
  <2>4. \A i \in 2..n : post'[p][i].obs \in Nat /\ post'[p][i].obs <= now
    BY <2>1, <1>3, <1>6
  <2>. QED BY <2>2, <2>3, <2>4, <1>3
<1>8. Filled(p)'
  <2>1. own'[p] <= n /\ own'[p] # 0
    <3>1. CASE Begun(p) \/ Replayed(p)
      BY <3>1, <1>1, <1>2
    <3>2. CASE Pushed(p)
      BY <3>2, <1>1, <1>2, <1>3, <1>4 DEF Pushed
    <3>. QED BY <3>1, <3>2, <1>1
  <2>. QED BY <2>1, <1>1 DEF Filled
<1>9. Untouched(p)'
  BY <1>2 DEF Untouched
<1>10. Dated(p)'
  <2>1. ASSUME NEW i \in 2..n, now > started PROVE post'[p][i].obs # now
    <3>1. CASE Pushed(p) /\ i - 1 \in 1..Len(post[p]) /\ post'[p][i] = post[p][i - 1]
      BY <3>1, <2>1, <1>2, <1>5 DEF PaneInv, Dated
    <3>2. CASE Replayed(p) /\ post'[p][i].obs \in DOMAIN table[p]
      BY <3>2, <2>1, <1>3, SMTT(30) DEF PaneInv, Untouched, Replayed
    <3>. QED BY <3>1, <3>2, <1>6
  <2>2. \A i \in 1..n : i = 1 \/ i \in 2..n
    BY <1>1
  <2>3. post'[p] # <<>>
    BY <1>1
  <2>. QED BY <2>1, <2>2, <2>3, <1>1, <1>2, <1>3, <1>5, <1>7 DEF Dated
<1>11. Marked(p)'
  BY <1>2 DEF PaneInv, Marked
<1>12. Sorted(p)'
  <2>. SUFFICES ASSUME NEW i \in 1..n, NEW j \in 1..n, i < j
                PROVE  post'[p][i].obs >= post'[p][j].obs
    BY <1>5 DEF Sorted
  <2>1. CASE i = 1
    BY <2>1, <1>1, <1>3, <1>7
  <2>2. CASE i # 1
    <3>1. i \in 2..n /\ j \in 2..n
      BY <2>2
    <3>2. CASE Pushed(p)
      <4>1. post'[p][i] = post[p][i - 1] /\ post'[p][j] = post[p][j - 1]
        BY <3>1, <3>2 DEF Pushed
      <4>2. i - 1 \in 1..Len(post[p]) /\ j - 1 \in 1..Len(post[p]) /\ i - 1 < j - 1
        BY <3>1, <3>2, <1>1, <1>3, <1>4 DEF Pushed
      <4>3. post[p][i - 1].obs >= post[p][j - 1].obs
        BY <4>2, <1>5 DEF PaneInv, Sorted
      <4>. QED BY <4>1, <4>3
    <3>3. CASE Replayed(p)
      BY <3>1, <3>3 DEF Replayed
    <3>4. CASE Begun(p)
      BY <3>1, <3>4 DEF Begun
    <3>. QED BY <3>2, <3>3, <3>4, <1>1
  <2>. QED BY <2>1, <2>2
<1>13. Joined(p)'
  <2>. SUFFICES ASSUME own'[p] \in 1..(n - 1)
                PROVE  post'[p][own'[p]].obs - post'[p][own'[p] + 1].obs <= 2 * Window
    BY <1>2 DEF Joined
  <2>1. CASE Begun(p)
    BY <2>1 DEF Begun
  <2>2. CASE Replayed(p)
    <3>1. own'[p] = 1 /\ own'[p] + 1 = 2 /\ 2 \in 1..n
      BY <2>2, <1>1, <1>2
    <3>2. post'[p][1].obs = now /\ now - post'[p][2].obs <= 2 * Window
      BY <2>2, <3>1, <1>1, <1>3 DEF Replayed
    <3>. QED BY <3>1, <3>2
  <2>3. CASE Pushed(p)
    <3>1. own'[p] = own[p] + 1 /\ own[p] \in 1..(Len(post[p]) - 1)
      BY <2>3, <1>1, <1>2, <1>3, <1>4, SMTT(30) DEF Pushed
    <3>2. own'[p] \in 2..n /\ own'[p] + 1 \in 2..n
      BY <3>1, <1>1
    <3>3. post'[p][own'[p]] = post[p][own'[p] - 1]
            /\ post'[p][own'[p] + 1] = post[p][own'[p] + 1 - 1]
      <4>1. \A i \in 2..n : post'[p][i] = post[p][i - 1]
        BY <2>3 DEF Pushed
      <4>. QED BY <3>2, <4>1
    <3>4. own'[p] - 1 = own[p] /\ own'[p] + 1 - 1 = own[p] + 1
      BY <3>1, <1>4
    <3>. QED BY <3>1, <3>3, <3>4 DEF PaneInv, Joined
  <2>. QED BY <2>1, <2>2, <2>3, <1>1
<1>14. Reborn(p)'
  <2>. SUFFICES ASSUME respawn'[p].hydrated, NEW i \in 1..n
                PROVE  pre'[p][i].obs >= respawn'[p].at /\ post'[p][i].obs >= respawn'[p].at
    BY <1>5 DEF Reborn
  <2>1. CASE i = 1
    <3>1. pre'[p][1].obs = now
      BY <1>1, <1>2 DEF Begun, Pushed
    <3>. QED BY <3>1, <2>1, <1>1, <1>2, <1>3
  <2>2. CASE i # 1
    <3>1. i \in 2..n /\ Pushed(p)
      <4>1. i \in 2..n
        BY <2>2, <1>1
      <4>2. ~Begun(p)
        <5>1. n # 1
          <6>1. n \in Nat /\ 2..1 = {}
            BY <1>1, <1>3
          <6>. QED BY <4>1, <6>1
        <5>. QED BY <5>1 DEF Begun
      <4>. QED BY <4>1, <4>2, <1>1, <1>2
    <3>2. post'[p][i] = post[p][i - 1] /\ pre'[p][i] = pre[p][i - 1]
      BY <3>1, <1>1 DEF Pushed
    <3>3. i - 1 \in 1..Len(post[p])
      BY <3>1, <1>6, <1>1, <1>3, <1>4 DEF Pushed
    <3>. QED BY <3>1, <3>2, <3>3, <1>2, <1>4, <1>5 DEF PaneInv, Reborn
  <2>. QED BY <2>1, <2>2
<1>15. Visible(p)'
  <2>. SUFFICES ASSUME NEW i \in 1..n, post'[p][i].obs \in found[p], post'[p][i].obs > started
                PROVE  post'[p][i].edited
    BY <1>2, <1>5 DEF Visible
  <2>1. CASE i = 1
    BY <2>1, <1>1, <1>2, <1>3 DEF PaneInv, Marked
  <2>2. CASE i # 1
    <3>1. i \in 2..n
      BY <2>2
    <3>2. CASE Pushed(p) /\ i - 1 \in 1..Len(post[p]) /\ post'[p][i] = post[p][i - 1]
      BY <3>2, <1>5 DEF PaneInv, Visible
    <3>3. CASE Replayed(p) /\ post'[p][i].obs \in DOMAIN table[p]
      BY <3>3, <1>3 DEF PaneInv, Untouched, Replayed
    <3>. QED BY <3>1, <3>2, <3>3, <1>6
  <2>. QED BY <2>1, <2>2
<1>. QED
  BY <1>8, <1>9, <1>10, <1>11, <1>12, <1>13, <1>14, <1>15 DEF PaneInv

\* A pane of which a step changes nothing keeps its part of the invariant.
LEMMA UntouchedPane ==
    ASSUME NEW q, PaneInv(q),
           UNCHANGED <<now, started, seen[q], pre[q], post[q], table[q], respawn[q], own[q], found[q]>>,
           q \in polled' <=> q \in polled, q \in replayed' <=> q \in replayed
    PROVE  PaneInv(q)'
<1>. USE DEF PaneInv
<1>1. Filled(q)' /\ Sorted(q)' /\ Joined(q)'
  BY DEF Filled, Sorted, Joined
<1>2. Untouched(q)' /\ Marked(q)'
  BY DEF Untouched, Marked
<1>3. Dated(q)'
  BY DEF Dated
<1>4. Reborn(q)' /\ Visible(q)'
  BY DEF Reborn, Visible
<1>. QED BY <1>1, <1>2, <1>3, <1>4

LEMMA AliveKeepsInv ==
    ASSUME ReplayInv, NEW p \in Panes, NEW saved \in BOOLEAN, ObserveAlive(p, saved)
    PROVE  ReplayInv'
<1>1. Shape /\ \A q \in Panes : PaneInv(q)
  BY DEF ReplayInv
<1>2. /\ pre'[p] \in Seq(PreSample) /\ post'[p] \in Seq(PostSample)
      /\ pre' = [pre EXCEPT ![p] = pre'[p]] /\ post' = [post EXCEPT ![p] = post'[p]]
      /\ Len(pre'[p]) = Len(post'[p]) /\ Len(post'[p]) \in 1..Window
  BY <1>1, DequesAfter
<1>3. /\ respawn'[p] \in [at : Time \union {0}, hydrated : BOOLEAN]
      /\ own'[p] \in 0..Window
      /\ UNCHANGED <<now, started, found>>
  BY <1>1, KeptAfter
<1>4. /\ polled' = polled \union {p} /\ replayed' = replayed \union {p}
      /\ seen' = [seen EXCEPT ![p] = "alive"]
      /\ respawn' = [respawn EXCEPT ![p] = respawn'[p]]
      /\ own' = [own EXCEPT ![p] = own'[p]]
      /\ \/ table' = table
         \/ table' = [table EXCEPT ![p] = [t \in DOMAIN table[p] \union {now} |->
                          IF t = now THEN CaptureTick(pre'[p], post'[p]) ELSE table[p][t]]]
  BY <1>1 DEF ObserveAlive, Shape
<1>5. table' \in [Panes -> Tables] /\ \A q \in Panes : q # p => table'[q] = table[q]
  <2>1. CaptureTick(pre'[p], post'[p]) \in Row
    <3>1. pre'[p][1] \in PreSample /\ post'[p][1] \in PostSample
      BY <1>2
    <3>. QED BY <3>1 DEF CaptureTick, Row, PreSample, PostSample
  <2>2. PICK times \in SUBSET Time : table[p] \in [times -> Row]
    BY <1>1 DEF Shape, Tables
  <2>. DEFINE row == CaptureTick(pre'[p], post'[p])
              filled == [t \in DOMAIN table[p] \union {now} |-> IF t = now THEN row ELSE table[p][t]]
  <2>. HIDE DEF row
  <2>3. filled \in [times \union {now} -> Row] /\ times \union {now} \in SUBSET Time
    BY <1>1, <2>1, <2>2 DEF row, Shape
  <2>4. filled \in Tables
    BY <2>3 DEF Tables
  <2>. HIDE DEF filled
  <2>5. table' = table \/ table' = [table EXCEPT ![p] = filled]
    BY <1>4 DEF filled, row
  <2>. QED BY <1>1, <2>4, <2>5 DEF Shape
<1>6. Shape'
  BY <1>1, <1>2, <1>3, <1>4, <1>5 DEF Shape
<1>7. ASSUME NEW q \in Panes, q # p PROVE PaneInv(q)'
  <2>1. UNCHANGED <<now, started, seen[q], pre[q], post[q], table[q], respawn[q], own[q], found[q]>>
    BY <1>1, <1>2, <1>3, <1>4, <1>5, <1>7 DEF Shape
  <2>2. (q \in polled' <=> q \in polled) /\ (q \in replayed' <=> q \in replayed)
    BY <1>4, <1>7
  <2>. QED BY <1>1, <2>1, <2>2, UntouchedPane
<1>8. PaneInv(p)'
  BY <1>1, AliveKeepsPane
<1>. QED BY <1>6, <1>7, <1>8 DEF ReplayInv

-----------------------------------------------------------------------------
(* The other steps *)

LEMMA ReplayInvInit == Init => ReplayInv
<1>. SUFFICES ASSUME Init PROVE ReplayInv
  OBVIOUS
<1>1. Time \subseteq Nat /\ Time # {} /\ Window \in Nat /\ Window >= 1
  BY BoundsAssumption
<1>2. now \in Time /\ started = now
  BY <1>1, EarliestIsFirst DEF Init
<1>3. <<>> \in Tables
  <2>1. \A t \in {} : <<>>[t] \in Row
    OBVIOUS
  <2>2. <<>> \in [{} -> Row] /\ {} \in SUBSET Time
    OBVIOUS
  <2>. QED BY <2>2 DEF Tables
<1>4. NoRespawn \in [at : Time \union {0}, hydrated : BOOLEAN]
  BY DEF NoRespawn
<1>5. Shape
  BY <1>1, <1>2, <1>3, <1>4 DEF Init, Shape
<1>6. ASSUME NEW p \in Panes PROVE PaneInv(p)
  <2>1. /\ pre[p] = <<>> /\ post[p] = <<>> /\ table[p] = <<>> /\ own[p] = 0 /\ found[p] = {}
        /\ respawn[p] = NoRespawn /\ p \notin polled
    BY <1>6 DEF Init
  <2>2. Len(<<>>) = 0 /\ DOMAIN <<>> = {} /\ ~NoRespawn.hydrated /\ NoRespawn.at = 0
    BY DEF NoRespawn
  <2>3. Filled(p) /\ Joined(p)
    BY <1>1, <2>1, <2>2 DEF Filled, Joined
  <2>4. Untouched(p) /\ Marked(p)
    BY <2>1, <2>2 DEF Untouched, Marked
  <2>5. Sorted(p) /\ Reborn(p) /\ Visible(p)
    BY <2>1, <2>2 DEF Sorted, Reborn, Visible
  <2>6. Dated(p)
    <3>1. now \in Nat /\ respawn[p].at <= now
      BY <1>1, <1>2, <2>1, <2>2
    <3>2. DOMAIN table[p] = {} /\ DOMAIN post[p] = {}
      BY <2>1, <2>2
    <3>. QED BY <2>1, <3>1, <3>2 DEF Dated
  <2>. QED BY <2>3, <2>4, <2>5, <2>6 DEF PaneInv
<1>. QED BY <1>5, <1>6 DEF ReplayInv

LEMMA DeadKeepsInv ==
    ASSUME ReplayInv, NEW p \in Panes, ObserveDead(p)
    PROVE  ReplayInv'
<1>. DEFINE evicts == Evicts(LifecycleEvent(seen[p], "dead"))
<1>1. Shape /\ \A q \in Panes : PaneInv(q)
  BY DEF ReplayInv
<1>2. /\ polled' = polled \union {p} /\ seen' = [seen EXCEPT ![p] = "dead"]
      /\ pre' = [pre EXCEPT ![p] = IF evicts THEN <<>> ELSE @]
      /\ post' = [post EXCEPT ![p] = IF evicts THEN <<>> ELSE @]
      /\ own' = [own EXCEPT ![p] = IF evicts THEN 0 ELSE @]
      /\ p \notin polled
      /\ UNCHANGED <<now, started, replayed, table, respawn, found>>
  BY DEF ObserveDead
<1>. HIDE DEF evicts
<1>3. Window \in Nat /\ Window >= 1
  BY BoundsAssumption
<1>4. Shape'
  BY <1>1, <1>2, <1>3 DEF Shape
<1>5. ASSUME NEW q \in Panes, q # p PROVE PaneInv(q)'
  <2>1. UNCHANGED <<now, started, seen[q], pre[q], post[q], table[q], respawn[q], own[q], found[q]>>
    BY <1>1, <1>2, <1>5 DEF Shape
  <2>2. (q \in polled' <=> q \in polled) /\ (q \in replayed' <=> q \in replayed)
    BY <1>2, <1>5
  <2>. QED BY <1>1, <2>1, <2>2, UntouchedPane
<1>6. PaneInv(p)'
  <2>1. /\ seen'[p] = "dead" /\ UNCHANGED <<now, started, replayed, table, respawn, found>>
        /\ p \in polled' /\ PaneInv(p)
        /\ \/ UNCHANGED <<pre[p], post[p], own[p]>>
           \/ pre'[p] = <<>> /\ post'[p] = <<>> /\ own'[p] = 0
    BY <1>1, <1>2 DEF Shape
  <2>2. Len(<<>>) = 0 /\ DOMAIN <<>> = {}
    OBVIOUS
  <2>3. Filled(p)'
    BY <2>1, <2>2, <1>3 DEF PaneInv, Filled
  <2>7. Sorted(p)'
    BY <2>1, <2>2 DEF PaneInv, Sorted
  <2>8. Joined(p)'
    BY <2>1, <2>2 DEF PaneInv, Joined
  <2>4. Untouched(p)' /\ Marked(p)'
    BY <2>1 DEF PaneInv, Untouched, Marked
  <2>5. Dated(p)'
    BY <2>1, <2>2 DEF PaneInv, Dated
  <2>6. Reborn(p)' /\ Visible(p)'
    BY <2>1, <2>2 DEF PaneInv, Reborn, Visible
  <2>. QED BY <2>3, <2>4, <2>5, <2>6, <2>7, <2>8 DEF PaneInv
<1>. QED BY <1>4, <1>5, <1>6 DEF ReplayInv

LEMMA VanishKeepsInv ==
    ASSUME ReplayInv, NEW p \in Panes, Vanish(p)
    PROVE  ReplayInv'
<1>1. Shape /\ \A q \in Panes : PaneInv(q)
  BY DEF ReplayInv
<1>2. /\ polled' = polled \union {p} /\ seen' = [seen EXCEPT ![p] = "dead"]
      /\ UNCHANGED <<now, started, replayed, pre, post, table, respawn, own, found>>
  BY DEF Vanish, Forgotten
<1>3. Shape'
  BY <1>1, <1>2 DEF Shape
<1>4. ASSUME NEW q \in Panes, q # p PROVE PaneInv(q)'
  <2>1. UNCHANGED <<now, started, seen[q], pre[q], post[q], table[q], respawn[q], own[q], found[q]>>
    BY <1>1, <1>2, <1>4 DEF Shape
  <2>2. (q \in polled' <=> q \in polled) /\ (q \in replayed' <=> q \in replayed)
    BY <1>2, <1>4
  <2>. QED BY <1>1, <2>1, <2>2, UntouchedPane
<1>5. PaneInv(p)'
  <2>1. seen'[p] = "dead" /\ p \in polled' /\ PaneInv(p)
    BY <1>1, <1>2 DEF Shape
  <2>2. Filled(p)' /\ Sorted(p)' /\ Joined(p)' /\ Untouched(p)' /\ Marked(p)'
    BY <2>1, <1>2 DEF PaneInv, Filled, Sorted, Joined, Untouched, Marked
  <2>3. Dated(p)' /\ Reborn(p)' /\ Visible(p)'
    BY <2>1, <1>2 DEF PaneInv, Dated, Reborn, Visible
  <2>. QED BY <2>2, <2>3 DEF PaneInv
<1>. QED BY <1>3, <1>4, <1>5 DEF ReplayInv

LEMMA FindingKeepsInv ==
    ASSUME ReplayInv, NEW p \in Panes, FoldFinding(p)
    PROVE  ReplayInv'
<1>1. Shape /\ \A q \in Panes : PaneInv(q)
  BY DEF ReplayInv
<1>2. /\ p \in polled /\ seen[p] = "alive"
      /\ post' = [post EXCEPT ![p][1].edited = TRUE]
      /\ found' = [found EXCEPT ![p] = @ \union {now}]
      /\ UNCHANGED <<now, started, polled, seen, replayed, pre, table, respawn, own>>
  BY DEF FoldFinding
<1>3. /\ post[p] \in Seq(PostSample) /\ post[p] # <<>> /\ post[p][1].obs = now
      /\ now \in Nat /\ started \in Nat
  BY <1>1, <1>2, BoundsAssumption DEF Shape, PaneInv, Dated
<1>4. 1 \in DOMAIN post[p] /\ post[p][1] \in PostSample
  BY <1>3
\* Only the mark of the front changes.
<1>5. /\ post'[p] \in Seq(PostSample) /\ DOMAIN post'[p] = DOMAIN post[p]
      /\ Len(post'[p]) = Len(post[p])
      /\ post'[p][1].obs = now /\ post'[p][1].edited
      /\ \A i \in DOMAIN post[p] : i # 1 => post'[p][i] = post[p][i]
  <2>. DEFINE front == [post[p][1] EXCEPT !.edited = TRUE]
  <2>1. front \in PostSample /\ front.obs = now /\ front.edited
    BY <1>3, <1>4 DEF PostSample
  <2>. HIDE DEF front
  <2>2. post'[p] = [post[p] EXCEPT ![1] = front]
    BY <1>1, <1>2 DEF Shape, front
  <2>. QED BY <1>3, <1>4, <2>1, <2>2
<1>6. \A i \in DOMAIN post[p] : post'[p][i].obs = post[p][i].obs
  BY <1>3, <1>5
<1>7. found'[p] = found[p] \union {now}
  BY <1>1, <1>2 DEF Shape
<1>8. post' = [post EXCEPT ![p] = post'[p]]
  BY <1>1, <1>2 DEF Shape
<1>9. Shape'
  BY <1>1, <1>2, <1>5, <1>8 DEF Shape
<1>10. ASSUME NEW q \in Panes, q # p PROVE PaneInv(q)'
  <2>1. UNCHANGED <<now, started, seen[q], pre[q], post[q], table[q], respawn[q], own[q], found[q]>>
    BY <1>1, <1>2, <1>8, <1>10 DEF Shape
  <2>2. (q \in polled' <=> q \in polled) /\ (q \in replayed' <=> q \in replayed)
    BY <1>2
  <2>. QED BY <1>1, <2>1, <2>2, UntouchedPane
<1>11. PaneInv(p)'
  <2>. USE DEF PaneInv
  <2>1. PaneInv(p)
    BY <1>1
  <2>2. Filled(p)'
    BY <2>1, <1>2, <1>3, <1>5 DEF Filled
  <2>3. p \in replayed
    BY <2>1, <1>3 DEF Untouched
  <2>4. Untouched(p)'
    BY <2>3, <1>2 DEF Untouched
  <2>5. Dated(p)'
    BY <2>1, <1>2, <1>3, <1>5, <1>6 DEF Dated
  <2>6. Marked(p)'
    BY <2>1, <1>2, <1>3, <1>7 DEF Marked
  <2>7. Sorted(p)'
    BY <2>1, <1>5, <1>6 DEF Sorted
  <2>8. Joined(p)'
    <3>1. own[p] \in 1..(Len(post[p]) - 1)
            => own[p] \in DOMAIN post[p] /\ own[p] + 1 \in DOMAIN post[p]
      BY <1>3
    <3>. QED BY <2>1, <3>1, <1>2, <1>5, <1>6 DEF Joined
  <2>9. Reborn(p)'
    BY <2>1, <1>2, <1>5, <1>6 DEF Reborn
  <2>10. Visible(p)'
    <3>. SUFFICES ASSUME NEW i \in DOMAIN post[p], post'[p][i].obs \in found'[p],
                         post'[p][i].obs > started
                  PROVE  post'[p][i].edited
      BY <1>2, <1>5 DEF Visible
    <3>1. CASE i = 1
      BY <3>1, <1>5
    <3>2. CASE i # 1
      <4>1. post'[p][i] = post[p][i]
        BY <3>2, <1>5
      <4>2. post[p][i].obs # now
        BY <2>1, <3>2, <4>1 DEF Dated
      <4>. QED BY <2>1, <4>1, <4>2, <1>7 DEF Visible
    <3>. QED BY <3>1, <3>2
  <2>. QED BY <2>2, <2>4, <2>5, <2>6, <2>7, <2>8, <2>9, <2>10
<1>. QED BY <1>9, <1>10, <1>11 DEF ReplayInv

LEMMA ClockKeepsInv ==
    ASSUME ReplayInv, ClockAdvances
    PROVE  ReplayInv'
<1>1. Shape /\ \A q \in Panes : PaneInv(q)
  BY DEF ReplayInv
<1>2. /\ polled' = {}
      /\ UNCHANGED <<started, seen, replayed, pre, post, table, respawn, own, found>>
  BY DEF ClockAdvances
<1>3. now' \in Time /\ now' > now /\ now' \in Nat /\ now \in Nat /\ started \in Nat
  <2>. DEFINE later == {t \in Time : t > now}
  <2>1. later \subseteq Nat /\ later # {} /\ now' = Earliest(later)
    BY BoundsAssumption DEF ClockAdvances
  <2>2. now' \in later
    <3>. HIDE DEF later
    <3>. QED BY <2>1, EarliestIsFirst
  <2>. QED BY <1>1, <2>2, BoundsAssumption DEF Shape
<1>4. Shape'
  BY <1>1, <1>2, <1>3 DEF Shape
<1>5. ASSUME NEW p \in Panes PROVE PaneInv(p)'
  <2>. USE DEF PaneInv
  <2>1. PaneInv(p) /\ respawn[p].at \in Nat
    <3>1. respawn[p].at \in Time \union {0} /\ Time \union {0} \subseteq Nat
      BY <1>1, BoundsAssumption DEF Shape
    <3>. QED BY <1>1, <3>1
  <2>2. Filled(p)' /\ Untouched(p)' /\ Sorted(p)'
    BY <2>1, <1>2 DEF Filled, Untouched, Sorted
  <2>3. Joined(p)' /\ Reborn(p)' /\ Visible(p)'
    BY <2>1, <1>2 DEF Joined, Reborn, Visible
  <2>4. /\ \A t \in DOMAIN table[p] : t \in Nat
        /\ \A t \in found[p] : t \in Nat
        /\ \A i \in DOMAIN post[p] : post[p][i].obs \in Nat
    <3>1. \A t \in DOMAIN table[p] : t \in Time
      BY <1>1, RowsToReplay
    <3>2. found[p] \in SUBSET Time /\ post[p] \in Seq(PostSample)
      BY <1>1 DEF Shape
    <3>3. \A x \in PostSample : x.obs \in Time
      BY DEF PostSample
    <3>4. \A i \in DOMAIN post[p] : post[p][i].obs \in Time
      <4>1. \A i \in DOMAIN post[p] : post[p][i] \in PostSample
        BY <3>2
      <4>. QED BY <3>3, <4>1
    <3>5. Time \subseteq Nat
      BY BoundsAssumption
    <3>. QED BY <3>1, <3>2, <3>4, <3>5
  <2>5. Dated(p)'
    BY <2>1, <2>4, <1>2, <1>3 DEF Dated
  <2>6. Marked(p)'
    BY <2>1, <2>4, <1>2, <1>3 DEF Marked
  <2>. QED BY <2>2, <2>3, <2>5, <2>6
<1>. QED BY <1>4, <1>5 DEF ReplayInv

LEMMA RestartKeepsInv ==
    ASSUME ReplayInv, NEW purged \in BOOLEAN, Restart(purged)
    PROVE  ReplayInv'
<1>1. Shape /\ \A q \in Panes : PaneInv(q)
  BY DEF ReplayInv
<1>2. /\ started' = now /\ polled' = {} /\ replayed' = {} /\ UNCHANGED <<now, found>>
      /\ seen' = [p \in Panes |-> "unseen"]
      /\ pre' = [p \in Panes |-> <<>>] /\ post' = [p \in Panes |-> <<>>]
      /\ respawn' = [p \in Panes |-> NoRespawn] /\ own' = [p \in Panes |-> 0]
      /\ table' = IF purged
                  THEN [p \in Panes |-> [t \in {u \in DOMAIN table[p] : now - u <= 4 * Window}
                                           |-> table[p][t]]]
                  ELSE table
  BY DEF Restart
<1>3. now \in Nat /\ now \in Time /\ Window \in Nat
  BY <1>1, BoundsAssumption DEF Shape
<1>4. ASSUME NEW p \in Panes
      PROVE  table'[p] \in Tables /\ DOMAIN table'[p] \subseteq DOMAIN table[p]
  <2>1. PICK times \in SUBSET Time : table[p] \in [times -> Row]
    BY <1>1 DEF Shape, Tables
  <2>. DEFINE recent == {u \in DOMAIN table[p] : now - u <= 4 * Window}
              left   == [t \in recent |-> table[p][t]]
  <2>2. recent \in SUBSET Time /\ recent \subseteq times /\ DOMAIN table[p] = times
    BY <2>1
  <2>3. table'[p] = left \/ table'[p] = table[p]
    BY <1>2
  <2>. HIDE DEF recent
  <2>4. left \in [recent -> Row]
    BY <2>1, <2>2
  <2>. QED BY <2>1, <2>2, <2>3, <2>4 DEF Tables
<1>5. table' = [p \in Panes |-> table'[p]]
  BY <1>1, <1>2 DEF Shape
<1>6. NoRespawn \in [at : Time \union {0}, hydrated : BOOLEAN] /\ now <= now
  BY <1>3 DEF NoRespawn
<1>7. Shape'
  <2>1. table' \in [Panes -> Tables]
    BY <1>4, <1>5
  <2>2. <<>> \in Seq(PreSample) /\ <<>> \in Seq(PostSample) /\ 0 \in 0..Window
    BY <1>3
  <2>3. pre' \in [Panes -> Seq(PreSample)] /\ post' \in [Panes -> Seq(PostSample)]
    BY <1>2, <2>2
  <2>4. /\ respawn' \in [Panes -> [at : Time \union {0}, hydrated : BOOLEAN]]
        /\ own' \in [Panes -> 0..Window]
    BY <1>2, <1>6, <2>2
  <2>5. found' \in [Panes -> SUBSET Time] /\ seen' \in [Panes -> {"unseen", "alive", "dead"}]
    BY <1>1, <1>2 DEF Shape
  <2>6. /\ now' \in Time /\ started' \in Time /\ started' <= now'
        /\ polled' \subseteq Panes /\ replayed' \subseteq Panes
    BY <1>2, <1>3, <1>6
  <2>. QED BY <2>1, <2>3, <2>4, <2>5, <2>6 DEF Shape
<1>8. ASSUME NEW p \in Panes PROVE PaneInv(p)'
  <2>1. /\ pre'[p] = <<>> /\ post'[p] = <<>> /\ own'[p] = 0 /\ respawn'[p] = NoRespawn
        /\ p \notin polled'
    BY <1>2
  <2>2. Len(<<>>) = 0 /\ DOMAIN <<>> = {} /\ ~NoRespawn.hydrated /\ NoRespawn.at = 0
    BY DEF NoRespawn
  <2>3. \A t \in DOMAIN table'[p] : t <= now
    BY <1>1, <1>4 DEF PaneInv, Dated
  <2>4. Filled(p)' /\ Joined(p)'
    BY <1>3, <2>1, <2>2 DEF Filled, Joined
  <2>5. Untouched(p)'
    BY <1>2, <2>1, <2>2, <2>3 DEF Untouched
  <2>6. Sorted(p)' /\ Reborn(p)' /\ Visible(p)'
    BY <2>1, <2>2 DEF Sorted, Reborn, Visible
  <2>7. Dated(p)'
    <3>1. DOMAIN post'[p] = {} /\ respawn'[p].at <= now
      BY <1>3, <2>1, <2>2
    <3>2. now' = now /\ p \notin polled'
      BY <1>2
    <3>. QED BY <2>3, <3>1, <3>2 DEF Dated
  <2>8. Marked(p)'
    BY <1>1, <1>2, <1>3 DEF PaneInv, Marked
  <2>. QED BY <2>4, <2>5, <2>6, <2>7, <2>8 DEF PaneInv
<1>. QED BY <1>7, <1>8 DEF ReplayInv

-----------------------------------------------------------------------------
(* The theorems *)

LEMMA ReplayInvStep == ReplayInv /\ [Next]_vars => ReplayInv'
<1>. SUFFICES ASSUME ReplayInv, [Next]_vars PROVE ReplayInv'
  OBVIOUS
<1>1. ASSUME NEW p \in Panes, NEW saved \in BOOLEAN, ObserveAlive(p, saved) PROVE ReplayInv'
  BY <1>1, AliveKeepsInv
<1>2. ASSUME NEW p \in Panes, ObserveDead(p) PROVE ReplayInv'
  BY <1>2, DeadKeepsInv
<1>3. ASSUME NEW p \in Panes, Vanish(p) PROVE ReplayInv'
  BY <1>3, VanishKeepsInv
<1>4. ASSUME NEW p \in Panes, FoldFinding(p) PROVE ReplayInv'
  BY <1>4, FindingKeepsInv
<1>5. CASE ClockAdvances
  BY <1>5, ClockKeepsInv
<1>6. ASSUME NEW purged \in BOOLEAN, Restart(purged) PROVE ReplayInv'
  BY <1>6, RestartKeepsInv
<1>7. CASE UNCHANGED vars
  <2>1. Shape'
    BY <1>7 DEF vars, ReplayInv, Shape
  <2>2. \A p \in Panes : PaneInv(p)'
    BY <1>7, UntouchedPane DEF vars, ReplayInv
  <2>. QED BY <2>1, <2>2 DEF ReplayInv
<1>. QED BY <1>1, <1>2, <1>3, <1>4, <1>5, <1>6, <1>7 DEF Next

\* The inductive invariant holds of every behaviour.
THEOREM ReplayInvariance == Spec => []ReplayInv
BY ReplayInvInit, ReplayInvStep, PTL DEF Spec

\* Every state has the types TypeOK names, and no deque outgrows the window,
\* however pushes, replays, deaths and restarts follow each other (trim).
THEOREM ReplayTypes == Spec => []TypeOK
<1>1. ReplayInv => TypeOK
  <2>. SUFFICES ASSUME ReplayInv PROVE TypeOK
    OBVIOUS
  <2>1. ASSUME NEW p \in Panes
        PROVE  /\ pre[p] \in Seq(PreSample) /\ Len(pre[p]) <= Window
               /\ post[p] \in Seq(PostSample) /\ Len(post[p]) <= Window
               /\ DOMAIN table[p] \subseteq Time
               /\ \A t \in DOMAIN table[p] : table[p][t] \in Row
    BY RowsToReplay DEF ReplayInv, Shape, PaneInv, Filled
  <2>. QED BY <2>1 DEF TypeOK, ReplayInv, Shape
<1>. QED BY <1>1, ReplayInvariance, PTL

\* Position i of the pre-rule and of the post-rule deques is the same tick, live
\* or replayed (WindowsAligned; push_snapshot_into_history_at).
THEOREM DequesAreAligned == Spec => []WindowsAligned
<1>1. ReplayInv => WindowsAligned
  BY DEF ReplayInv, PaneInv, Filled, WindowsAligned
<1>. QED BY <1>1, ReplayInvariance, PTL

\* The post-rule deques are newest first, through replay and restarts
\* (PostNewestFirst; fetch_recent_history_snapshots and the replay).
THEOREM NewestComesFirst == Spec => []PostNewestFirst
<1>1. ReplayInv => PostNewestFirst
  BY DEF ReplayInv, PaneInv, Sorted, PostNewestFirst
<1>. QED BY <1>1, ReplayInvariance, PTL

\* What a replay puts next to this session's oldest sample is at most two
\* windows older than it (NoReplayAcrossALongGap; the staleness gate).
THEOREM ReplayIsRecent == Spec => []NoReplayAcrossALongGap
<1>1. ReplayInv => NoReplayAcrossALongGap
  BY DEF ReplayInv, PaneInv, Joined, NoReplayAcrossALongGap
<1>. QED BY <1>1, ReplayInvariance, PTL

\* A pane that comes back has no sample of its former life, once it has been
\* hydrated (RespawnStaysFresh; anomaly_history_replayed).
THEOREM RespawnIsFresh == Spec => []RespawnStaysFresh
<1>1. ReplayInv => RespawnStaysFresh
  BY DEF ReplayInv, PaneInv, Reborn, RespawnStaysFresh
<1>. QED BY <1>1, ReplayInvariance, PTL

\* The mark of a concurrent edit stays with the entry of its second
\* (FindingsStayVisible; fold_finding_paths_into_history).
THEOREM FindingIsVisible == Spec => []FindingsStayVisible
<1>1. ReplayInv => FindingsStayVisible
  BY DEF ReplayInv, PaneInv, Visible, FindingsStayVisible
<1>. QED BY <1>1, ReplayInvariance, PTL
=============================================================================
