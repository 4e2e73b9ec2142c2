---------------------------- MODULE Parts_proofs ----------------------------
(***************************************************************************)
(* Proofs of the components that share nothing with the others: History,   *)
(* Permissions, Loading, Recorder, Subtitles and Presence. Each part has   *)
(* its inductive invariant, the lemmas about what its operations do to it, *)
(* one lemma or step per action, and the theorem.                          *)
(***************************************************************************)
EXTENDS History, Permissions, Loading, Recorder, Subtitles, Presence,
        FiniteSetTheorems, WellFoundedInduction, TLAPS

-------------------------------------------------------------------------------
(* History. The invariant says of every row what the theorem does and, so  *)
(* that it is inductive, that an address has one visit in a minute, none   *)
(* of the future, and no row without a visit.                              *)
VisitRecords == [whose : Profiles, where : Addresses, at : Minutes, title : Titles \cup {Untitled}]
Rows == [title : Titles \cup {Untitled}, last : 0 .. MaxMinutes, count : 0 .. MaxVisits]

RowIs(row, here, names) ==
  /\ row \in Rows
  /\ here = {} => row = NoRow
  /\ row.count = Cardinality(here)
  /\ \A v \in here : v.at <= row.last
  /\ here # {} => \E v \in here : v.at = row.last
  /\ row.title \in {v.title : v \in here} \cup names \cup {Untitled}

LogInv ==
  /\ log \subseteq VisitRecords /\ IsFiniteSet(log) /\ Cardinality(log) <= MaxVisits
  /\ \A v, w \in log : v.whose = w.whose /\ v.where = w.where /\ v.at = w.at => v = w
  /\ \A v \in log : v.at <= minute /\ v.whose \in living
TableInv ==
  /\ urls \in [Keys -> Rows]
  /\ \A k \in Keys : RowIs(urls[k], Visits(k), pruned[k])
ScopeInv ==
  /\ living \subseteq Profiles /\ living # {} /\ minute \in Minutes
  /\ chosen \in Profiles /\ cached \in Profiles \cup {0}
  /\ cached # 0 => cached = ReadScope

HistoryInductive == LogInv /\ TableInv /\ ScopeInv

(* A set of numbers has a least one, so that the latest of some visits is  *)
(* one of them.                                                            *)
LEMMA Least ==
  ASSUME NEW S, S \subseteq Nat, S # {}
  PROVE  \E m \in S : \A x \in S : m <= x
<1>. DEFINE less == {s \in Nat \X Nat : s[1] < s[2]}
<1>1. IsWellFoundedOn(less, Nat)
  BY NatLessThanWellFounded DEF OpToRel
<1>2. \A x, m \in Nat : x < m => <<x, m>> \in less
  OBVIOUS
<1>. HIDE DEF less
<1>3. \E m \in S : \A x \in S : ~(<<x, m>> \in less)
  BY <1>1, WFMin
<1>4. PICK m \in S : \A x \in S : ~(<<x, m>> \in less)
  BY <1>3
<1>5. ASSUME NEW x \in S PROVE m <= x
  <2>1. x \in Nat /\ m \in Nat /\ ~(x < m)
    BY <1>2, <1>4
  <2>. QED
    BY <2>1
<1>. QED
  BY <1>5

LEMMA FirstIs ==
  ASSUME NEW S, S \subseteq Profiles, S # {}
  PROVE  First(S) \in S
<1>1. \E p \in S : \A q \in S : p <= q
  BY Least, HistoryAssumption
<1>. QED
  BY <1>1 DEF First

LEMMA LatestIs ==
  ASSUME NEW S, S \subseteq VisitRecords, S # {}
  PROVE  Latest(S) \in S /\ \A w \in S : w.at <= Latest(S).at
<1>. DEFINE ages == {MaxMinutes - v.at : v \in S}
<1>1. \A v \in S : v.at \in 1 .. MaxMinutes
  BY DEF VisitRecords, Minutes
<1>2. ages \subseteq Nat /\ ages # {}
  BY <1>1, HistoryAssumption
<1>3. PICK m \in ages : \A x \in ages : m <= x
  BY <1>2, Least
<1>4. PICK v \in S : m = MaxMinutes - v.at
  OBVIOUS
<1>5. \A w \in S : w.at <= v.at
  <2>1. ASSUME NEW w \in S PROVE w.at <= v.at
    <3>1. m <= MaxMinutes - w.at
      BY <1>3
    <3>. QED
      BY <1>1, <1>4, <3>1, HistoryAssumption
  <2>. QED
    BY <2>1
<1>. QED
  BY <1>5 DEF Latest

LEMMA ScopeIs ==
  ASSUME ScopeInv
  PROVE  ReadScope \in living /\ Scope = ReadScope /\ Scope \in Profiles
<1>1. ReadScope \in living
  BY FirstIs DEF ScopeInv, ReadScope
<1>. QED
  BY <1>1 DEF ScopeInv, Scope

LEMMA VisitsAre ==
  ASSUME LogInv, NEW k \in Keys
  PROVE  /\ Visits(k) \subseteq log /\ Visits(k) \subseteq VisitRecords /\ IsFiniteSet(Visits(k))
         /\ Cardinality(Visits(k)) \in 0 .. MaxVisits
<1>1. Visits(k) \subseteq log /\ IsFiniteSet(log) /\ log \subseteq VisitRecords
  BY DEF Visits, LogInv
<1>2. IsFiniteSet(Visits(k)) /\ Cardinality(Visits(k)) <= Cardinality(log)
  BY <1>1, FS_Subset
<1>3. Cardinality(Visits(k)) \in Nat /\ Cardinality(log) \in Nat
  BY <1>1, <1>2, FS_CardinalityType
<1>. QED
  BY <1>1, <1>2, <1>3, HistoryAssumption DEF LogInv

(* A visit is filed: one more, and maybe a later one.                      *)
LEMMA RowFiled ==
  ASSUME NEW row, NEW here, NEW names, RowIs(row, here, names),
         here \subseteq VisitRecords, IsFiniteSet(here), Cardinality(here) < MaxVisits,
         NEW v \in VisitRecords, v \notin here, NEW row2,
         row2.title \in {row.title, v.title}, row2.count = row.count + 1,
         row2.last = (IF v.at > row.last THEN v.at ELSE row.last),
         row2 \in [title : Titles \cup {Untitled}, last : Int, count : Int]
  PROVE  RowIs(row2, here \cup {v}, names)
<1>1. Cardinality(here \cup {v}) = Cardinality(here) + 1 /\ Cardinality(here) \in Nat
  BY FS_AddElement, FS_CardinalityType
<1>2. row.last \in 0 .. MaxMinutes /\ v.at \in 1 .. MaxMinutes /\ row.count = Cardinality(here)
  BY DEF RowIs, Rows, VisitRecords, Minutes
<1>3. row2.last \in 0 .. MaxMinutes /\ row2.count \in 0 .. MaxVisits
  BY <1>1, <1>2, HistoryAssumption
<1>4. row2 \in Rows
  BY <1>3 DEF Rows
<1>5. \A w \in here : w.at \in 1 .. MaxMinutes /\ w.at <= row.last
  BY DEF RowIs, VisitRecords, Minutes
<1>6. here = {} => row.last = 0
  BY DEF RowIs, NoRow
<1>7. \A w \in here \cup {v} : w.at <= row2.last
  BY <1>2, <1>5, HistoryAssumption
<1>8. \E w \in here \cup {v} : w.at = row2.last
  <2>1. CASE v.at > row.last
    BY <2>1
  <2>2. CASE ~(v.at > row.last)
    BY <1>2, <1>6, <2>2, HistoryAssumption DEF RowIs
  <2>. QED
    BY <2>1, <2>2
<1>9. row2.title \in {w.title : w \in here \cup {v}} \cup names \cup {Untitled}
  BY DEF RowIs
<1>. QED
  BY <1>1, <1>2, <1>4, <1>7, <1>8, <1>9 DEF RowIs

LEMMA FileStep ==
  ASSUME LogInv, TableInv, NEW k \in Keys, NEW title \in Titles \cup {Untitled}, NEW time \in Minutes,
         time <= minute, k[1] \in living, \A v \in Visits(k) : v.at # time, File(k, title, time),
         minute' = minute, living' = living, pruned' = pruned
  PROVE  LogInv' /\ TableInv'
<1>. DEFINE v == [whose |-> k[1], where |-> k[2], at |-> time, title |-> title]
            row2 == [title |-> IF title # Untitled /\ (urls[k].title = Untitled \/ time >= urls[k].last)
                               THEN title ELSE urls[k].title,
                     last |-> IF time > urls[k].last THEN time ELSE urls[k].last,
                     count |-> urls[k].count + 1]
<1>1. Cardinality(log) < MaxVisits /\ log' = log \cup {v} /\ urls' = [urls EXCEPT ![k] = row2]
  BY DEF File, CountVisit
<1>2. v \in VisitRecords /\ v.whose = k[1] /\ v.where = k[2] /\ v.at = time /\ v.title = title
      /\ <<v.whose, v.where>> = k
  BY DEF VisitRecords, Keys
<1>3. RowIs(urls[k], Visits(k), pruned[k]) /\ urls[k] \in Rows
  BY DEF TableInv, RowIs
<1>4. /\ row2.title \in {urls[k].title, v.title} /\ row2.count = urls[k].count + 1
      /\ row2.last = (IF v.at > urls[k].last THEN v.at ELSE urls[k].last)
      /\ row2 \in [title : Titles \cup {Untitled}, last : Int, count : Int]
  BY <1>2, <1>3 DEF Rows, Minutes
<1>. HIDE DEF v, row2
<1>5. v \notin log /\ v \notin Visits(k)
  BY <1>2 DEF Visits
<1>6. Visits(k)' = Visits(k) \cup {v}
  BY <1>1, <1>2 DEF Visits
<1>7. ASSUME NEW q \in Keys, q # k PROVE Visits(q)' = Visits(q)
  BY <1>1, <1>2, <1>7 DEF Visits
<1>8. /\ Visits(k) \subseteq VisitRecords /\ IsFiniteSet(Visits(k))
      /\ Cardinality(Visits(k)) <= Cardinality(log) /\ Cardinality(log) \in Nat
      /\ Cardinality(Visits(k)) \in Nat
  BY VisitsAre, FS_Subset, FS_CardinalityType DEF LogInv
<1>9. RowIs(row2, Visits(k) \cup {v}, pruned[k])
  BY <1>1, <1>2, <1>3, <1>4, <1>5, <1>8, RowFiled, HistoryAssumption
<1>10. TableInv'
  <2>1. urls' \in [Keys -> Rows]
    BY <1>1, <1>9 DEF TableInv, RowIs
  <2>2. ASSUME NEW q \in Keys PROVE RowIs(urls[q], Visits(q), pruned[q])'
    <3>1. CASE q = k
      <4>1. urls'[q] = row2 /\ Visits(q)' = Visits(k) \cup {v} /\ pruned'[q] = pruned[k]
        BY <1>1, <1>6, <3>1 DEF TableInv
      <4>. QED
        BY <1>9, <4>1 DEF RowIs
    <3>2. CASE q # k
      <4>1. urls'[q] = urls[q] /\ Visits(q)' = Visits(q) /\ pruned'[q] = pruned[q]
        BY <1>1, <1>7, <3>2 DEF TableInv
      <4>2. RowIs(urls[q], Visits(q), pruned[q])
        BY DEF TableInv
      <4>. QED
        BY <4>1, <4>2 DEF RowIs
    <3>. QED
      BY <3>1, <3>2
  <2>. QED
    BY <2>1, <2>2 DEF TableInv
<1>11. LogInv'
  <2>1. IsFiniteSet(log') /\ Cardinality(log') = Cardinality(log) + 1 /\ log' \subseteq VisitRecords
    BY <1>1, <1>2, <1>5, FS_AddElement DEF LogInv
  <2>2. \A u, w \in log' : u.whose = w.whose /\ u.where = w.where /\ u.at = w.at => u = w
    <3>1. \A w \in log : w.whose = v.whose /\ w.where = v.where => w.at # v.at
      BY <1>2 DEF Visits
    <3>. QED
      BY <1>1, <3>1 DEF LogInv
  <2>3. \A u \in log' : u.at <= minute' /\ u.whose \in living'
    BY <1>1, <1>2 DEF LogInv
  <2>4. Cardinality(log') <= MaxVisits
    BY <1>1, <1>8, <2>1, HistoryAssumption
  <2>. QED
    BY <2>1, <2>2, <2>3, <2>4 DEF LogInv
<1>. QED
  BY <1>10, <1>11

(* A visit without a name is given one.                                    *)
LEMMA RowTitled ==
  ASSUME NEW row, NEW here, NEW names, RowIs(row, here, names), IsFiniteSet(here),
         NEW v \in here, NEW w, w \notin here, w.at = v.at, v.title = Untitled,
         w.title \in Titles \cup {Untitled}, NEW row2 \in Rows,
         row2.title = w.title, row2.last = row.last, row2.count = row.count
  PROVE  RowIs(row2, (here \ {v}) \cup {w}, names)
<1>. DEFINE there == (here \ {v}) \cup {w}
<1>1. Cardinality(here) \in Nat
  BY FS_CardinalityType
<1>2. IsFiniteSet(here \ {v}) /\ Cardinality(here \ {v}) = Cardinality(here) - 1
  BY FS_RemoveElement
<1>3. Cardinality(there) = Cardinality(here)
  <2>1. w \notin here \ {v}
    OBVIOUS
  <2>2. Cardinality((here \ {v}) \cup {w}) = Cardinality(here \ {v}) + 1
    BY <1>2, <2>1, FS_AddElement
  <2>. QED
    BY <1>1, <1>2, <2>2
<1>4. \A u \in there : u.at <= row2.last
  BY DEF RowIs
<1>5. \E u \in there : u.at = row2.last
  BY DEF RowIs
<1>6. row2.title \in {u.title : u \in there}
  OBVIOUS
<1>7. there # {} /\ row2.count = Cardinality(there)
  BY <1>3 DEF RowIs
<1>. HIDE DEF there
<1>8. RowIs(row2, there, names)
  BY <1>4, <1>5, <1>6, <1>7 DEF RowIs
<1>. QED
  BY <1>8 DEF there

LEMMA TitleStep ==
  ASSUME LogInv, TableInv, NEW k \in Keys, NEW title \in Titles \cup {Untitled},
         TitleVisit(k, title), minute' = minute, living' = living, pruned' = pruned
  PROVE  LogInv' /\ TableInv'
<1>1. CASE title # Untitled /\ Visits(k) # {} /\ Latest(Visits(k)).title = Untitled
  <2>. DEFINE v == Latest(Visits(k))
              w == [v EXCEPT !.title = title]
              row2 == [urls[k] EXCEPT !.title = title]
  <2>1. log' = (log \ {v}) \cup {w} /\ urls' = [urls EXCEPT ![k].title = title]
    BY <1>1 DEF TitleVisit
  <2>2. /\ v \in Visits(k) /\ v \in log /\ v \in VisitRecords /\ v.title = Untitled
        /\ <<v.whose, v.where>> = k
    <3>1. Visits(k) \subseteq VisitRecords /\ Visits(k) # {} /\ v.title = Untitled
      BY <1>1, VisitsAre
    <3>2. v \in Visits(k)
      BY <3>1, LatestIs
    <3>. QED
      BY <3>1, <3>2 DEF Visits
  <2>3. /\ w \in VisitRecords /\ w.whose = v.whose /\ w.where = v.where /\ w.at = v.at
        /\ w.title = title
    BY <2>2 DEF VisitRecords
  <2>4. RowIs(urls[k], Visits(k), pruned[k]) /\ urls[k] \in Rows
    BY DEF TableInv, RowIs
  <2>5. /\ row2 \in Rows /\ row2.title = title /\ row2.last = urls[k].last
        /\ row2.count = urls[k].count
    BY <2>4 DEF Rows
  <2>6. urls' = [urls EXCEPT ![k] = row2]
    BY <2>1 DEF TableInv
  <2>. HIDE DEF v, w, row2
  <2>7. w \notin log /\ w \notin Visits(k) /\ w # v
    BY <1>1, <2>2, <2>3 DEF LogInv, Visits
  <2>8. Visits(k)' = (Visits(k) \ {v}) \cup {w}
    BY <2>1, <2>2, <2>3 DEF Visits
  <2>9. ASSUME NEW q \in Keys, q # k PROVE Visits(q)' = Visits(q)
    BY <2>1, <2>2, <2>3, <2>9 DEF Visits
  <2>10. RowIs(row2, (Visits(k) \ {v}) \cup {w}, pruned[k])
    BY <2>2, <2>3, <2>4, <2>5, <2>7, VisitsAre, RowTitled
  <2>11. TableInv'
    <3>1. urls' \in [Keys -> Rows]
      BY <2>5, <2>6 DEF TableInv
    <3>2. ASSUME NEW q \in Keys PROVE RowIs(urls[q], Visits(q), pruned[q])'
      <4>1. CASE q = k
        <5>1. urls'[q] = row2 /\ Visits(q)' = (Visits(k) \ {v}) \cup {w} /\ pruned'[q] = pruned[k]
          BY <2>6, <2>8, <4>1 DEF TableInv
        <5>. QED
          BY <2>10, <5>1 DEF RowIs
      <4>2. CASE q # k
        <5>1. urls'[q] = urls[q] /\ Visits(q)' = Visits(q) /\ pruned'[q] = pruned[q]
          BY <2>6, <2>9, <4>2 DEF TableInv
        <5>2. RowIs(urls[q], Visits(q), pruned[q])
          BY DEF TableInv
        <5>. QED
          BY <5>1, <5>2 DEF RowIs
      <4>. QED
        BY <4>1, <4>2
    <3>. QED
      BY <3>1, <3>2 DEF TableInv
  <2>12. LogInv'
    <3>1. Cardinality(log) \in Nat /\ IsFiniteSet(log \ {v})
          /\ Cardinality(log \ {v}) = Cardinality(log) - 1
      BY <2>2, FS_CardinalityType, FS_RemoveElement DEF LogInv
    <3>2. IsFiniteSet(log') /\ Cardinality(log') = Cardinality(log) /\ log' \subseteq VisitRecords
      <4>1. w \notin log \ {v}
        BY <2>7
      <4>2. /\ IsFiniteSet((log \ {v}) \cup {w})
            /\ Cardinality((log \ {v}) \cup {w}) = Cardinality(log \ {v}) + 1
        BY <3>1, <4>1, FS_AddElement
      <4>. QED
        BY <2>1, <2>3, <3>1, <4>2 DEF LogInv
    <3>3. \A u, x \in log' : u.whose = x.whose /\ u.where = x.where /\ u.at = x.at => u = x
      BY <2>1, <2>2, <2>3 DEF LogInv
    <3>4. \A u \in log' : u.at <= minute' /\ u.whose \in living'
      BY <2>1, <2>2, <2>3 DEF LogInv
    <3>. QED
      BY <3>2, <3>3, <3>4 DEF LogInv
  <2>. QED
    BY <2>11, <2>12
<1>2. CASE ~(title # Untitled /\ Visits(k) # {} /\ Latest(Visits(k)).title = Untitled)
  <2>1. log' = log /\ urls' = urls
    BY <1>2 DEF TitleVisit
  <2>. QED
    BY <2>1 DEF LogInv, TableInv, Visits, RowIs
<1>. QED
  BY <1>1, <1>2

(* Visits go, and with each the row's claims about it.                     *)
LEMMA GoneStep ==
  ASSUME LogInv, TableInv, NEW gone, gone \subseteq log, log' = log \ gone,
         minute' = minute, \A v \in log' : v.whose \in living', urls' = [k \in Keys |-> urls'[k]],
         \A k \in Keys :
           /\ Visits(k) \cap gone = {} => urls'[k] = urls[k]
           /\ Visits(k) \cap gone = {} /\ Visits(k) # {} => pruned'[k] = pruned[k]
           /\ Visits(k) \cap gone # {} /\ Visits(k) \subseteq gone => urls'[k] = NoRow
           /\ Visits(k) \cap gone # {} /\ ~(Visits(k) \subseteq gone) =>
                \E title \in Titles \cup {Untitled} :
                  /\ urls'[k] = [title |-> title, last |-> Latest(Visits(k) \ gone).at,
                                 count |-> Cardinality(Visits(k) \ gone)]
                  /\ title \in {v.title : v \in Visits(k) \ gone} \cup pruned'[k] \cup {Untitled}
  PROVE  LogInv' /\ TableInv'
<1>1. ASSUME NEW k \in Keys PROVE RowIs(urls[k], Visits(k), pruned[k])'
  <2>. DEFINE left == Visits(k) \ gone
  <2>1. Visits(k)' = left
    BY DEF Visits
  <2>2. /\ left \subseteq VisitRecords /\ IsFiniteSet(left) /\ Cardinality(left) \in 0 .. MaxVisits
    <3>1. /\ Visits(k) \subseteq VisitRecords /\ IsFiniteSet(Visits(k))
          /\ Cardinality(Visits(k)) \in 0 .. MaxVisits
      BY VisitsAre
    <3>2. IsFiniteSet(left) /\ Cardinality(left) <= Cardinality(Visits(k))
      BY <3>1, FS_Subset
    <3>3. Cardinality(left) \in Nat
      BY <3>2, FS_CardinalityType
    <3>. QED
      BY <3>1, <3>2, <3>3, HistoryAssumption
  <2>3. RowIs(urls[k], Visits(k), pruned[k])
    BY DEF TableInv
  <2>4. CASE Visits(k) \cap gone = {} /\ Visits(k) # {}
    <3>1. left = Visits(k) /\ urls'[k] = urls[k] /\ pruned'[k] = pruned[k]
      BY <2>4
    <3>. QED
      BY <2>1, <2>3, <3>1 DEF RowIs
  <2>5. CASE left = {}
    <3>1. urls'[k] = NoRow
      BY <2>3, <2>5 DEF RowIs
    <3>2. NoRow \in Rows /\ NoRow.count = 0 /\ NoRow.title = Untitled
      BY HistoryAssumption DEF NoRow, Rows
    <3>3. Cardinality(left) = 0
      BY <2>5, FS_EmptySet
    <3>. QED
      BY <2>1, <2>5, <3>1, <3>2, <3>3 DEF RowIs
  <2>6. CASE Visits(k) \cap gone # {} /\ left # {}
    <3>1. PICK title \in Titles \cup {Untitled} :
            /\ urls'[k] = [title |-> title, last |-> Latest(left).at, count |-> Cardinality(left)]
            /\ title \in {v.title : v \in left} \cup pruned'[k] \cup {Untitled}
      BY <2>6
    <3>2. Latest(left) \in left /\ \A w \in left : w.at <= Latest(left).at
      BY <2>2, <2>6, LatestIs
    <3>3. Latest(left).at \in 0 .. MaxMinutes
      BY <2>2, <3>2, HistoryAssumption DEF VisitRecords, Minutes
    <3>4. /\ urls'[k] \in Rows /\ urls'[k].title = title /\ urls'[k].last = Latest(left).at
          /\ urls'[k].count = Cardinality(left)
      BY <2>2, <3>1, <3>3 DEF Rows
    <3>. HIDE DEF left
    <3>. QED
      BY <2>1, <2>6, <3>1, <3>2, <3>4 DEF RowIs
  <2>. QED
    BY <2>4, <2>5, <2>6
<1>2. TableInv'
  <2>1. \A k \in Keys : urls'[k] \in Rows
    BY <1>1 DEF RowIs
  <2>2. urls' \in [Keys -> Rows]
    BY <2>1
  <2>. QED
    BY <1>1, <2>2 DEF TableInv
<1>3. IsFiniteSet(log') /\ Cardinality(log') <= Cardinality(log)
  BY FS_Subset DEF LogInv
<1>4. Cardinality(log') \in Nat /\ Cardinality(log) \in Nat
  BY <1>3, FS_CardinalityType DEF LogInv
<1>5. LogInv'
  BY <1>3, <1>4, HistoryAssumption DEF LogInv
<1>. QED
  BY <1>2, <1>5

-------------------------------------------------------------------------------
(* Each operation is for the profile in use, which is there.               *)
LEMMA ScopedStep ==
  ASSUME ScopeInv, Scoped, UNCHANGED <<minute, ProfilesVars>>
  PROVE  ScopeInv'
<1>1. living' = living /\ chosen' = chosen /\ minute' = minute /\ ReadScope' = ReadScope
  BY DEF ProfilesVars, ReadScope
<1>2. cached' = ReadScope /\ ReadScope \in Profiles
  BY ScopeIs DEF Scoped, ScopeInv
<1>. QED
  BY <1>1, <1>2 DEF ScopeInv

LEMMA RecordStep ==
  ASSUME HistoryInductive, NEW where \in Addresses, NEW title \in Titles \cup {Untitled},
         Record(where, title)
  PROVE  HistoryInductive'
<1>. DEFINE k == <<Scope, where>>
<1>1. LogInv /\ TableInv /\ ScopeInv
  BY DEF HistoryInductive
<1>2. /\ Scoped /\ UNCHANGED <<minute, ProfilesVars>> /\ minute' = minute /\ living' = living
      /\ pruned' = pruned
      /\ IF urls[k].last = minute THEN TitleVisit(k, title) ELSE File(k, title, minute)
  BY DEF Record, ProfilesVars
<1>3. k \in Keys /\ k[1] \in living /\ minute \in Minutes /\ minute <= minute
  BY <1>1, ScopeIs DEF Keys, ScopeInv, Minutes
<1>. HIDE DEF k
<1>4. CASE urls[k].last = minute
  BY <1>1, <1>2, <1>3, <1>4, TitleStep, ScopedStep DEF HistoryInductive
<1>5. CASE urls[k].last # minute
  <2>1. \A v \in Visits(k) : v.at # minute
    <3>1. RowIs(urls[k], Visits(k), pruned[k])
      BY <1>1, <1>3 DEF TableInv
    <3>2. ASSUME NEW v \in Visits(k), v.at = minute PROVE FALSE
      <4>1. minute <= urls[k].last
        BY <3>1, <3>2 DEF RowIs
      <4>2. PICK w \in Visits(k) : w.at = urls[k].last
        BY <3>1, <3>2 DEF RowIs
      <4>3. urls[k].last <= minute
        BY <1>1, <4>2 DEF LogInv, Visits
      <4>4. urls[k].last \in Int /\ minute \in Int
        BY <1>3, <3>1 DEF RowIs, Rows, Minutes
      <4>. QED
        BY <1>5, <4>1, <4>3, <4>4
    <3>. QED
      BY <3>2
  <2>. QED
    BY <1>1, <1>2, <1>3, <1>5, <2>1, FileStep, ScopedStep DEF HistoryInductive
<1>. QED
  BY <1>4, <1>5

LEMMA RetitleStep ==
  ASSUME HistoryInductive, NEW where \in Addresses, NEW title \in Titles \cup {Untitled},
         Retitle(where, title)
  PROVE  HistoryInductive'
<1>1. LogInv /\ TableInv /\ ScopeInv
  BY DEF HistoryInductive
<1>2. <<Scope, where>> \in Keys
  BY <1>1, ScopeIs DEF Keys
<1>3. minute' = minute /\ living' = living /\ pruned' = pruned
  BY DEF Retitle, ProfilesVars
<1>4. LogInv' /\ TableInv'
  BY <1>1, <1>2, <1>3, TitleStep DEF Retitle
<1>. QED
  BY <1>1, <1>4, ScopedStep DEF HistoryInductive, Retitle

LEMMA ImportStep ==
  ASSUME HistoryInductive, NEW where \in Addresses, NEW title \in Titles \cup {Untitled},
         NEW time \in Minutes, Import(where, title, time)
  PROVE  HistoryInductive'
<1>. DEFINE k == <<Scope, where>>
<1>1. LogInv /\ TableInv /\ ScopeInv
  BY DEF HistoryInductive
<1>2. k \in Keys /\ k[1] \in living
  BY <1>1, ScopeIs DEF Keys
<1>3. /\ minute' = minute /\ living' = living /\ pruned' = pruned /\ time <= minute
      /\ IF \E v \in Visits(k) : v.at = time THEN UNCHANGED <<log, urls>> ELSE File(k, title, time)
  BY DEF Import, ProfilesVars
<1>. HIDE DEF k
<1>4. CASE \E v \in Visits(k) : v.at = time
  <2>1. log' = log /\ urls' = urls
    BY <1>3, <1>4
  <2>2. LogInv' /\ TableInv'
    BY <1>1, <1>3, <2>1 DEF LogInv, TableInv, Visits, RowIs
  <2>. QED
    BY <1>1, <2>2, ScopedStep DEF HistoryInductive, Import
<1>5. CASE ~\E v \in Visits(k) : v.at = time
  <2>1. LogInv' /\ TableInv'
    BY <1>1, <1>2, <1>3, <1>5, FileStep
  <2>. QED
    BY <1>1, <2>1, ScopedStep DEF HistoryInductive, Import
<1>. QED
  BY <1>4, <1>5

LEMMA RemoveAddressStep ==
  ASSUME HistoryInductive, RemoveAddress
  PROVE  HistoryInductive'
<1>. DEFINE gone == {v \in log : v.whose = Scope}
<1>1. LogInv /\ TableInv /\ ScopeInv
  BY DEF HistoryInductive
<1>2. /\ log' = log \ gone /\ gone \subseteq log /\ minute' = minute /\ living' = living
      /\ urls' = [k \in Keys |-> IF k[1] = Scope THEN NoRow ELSE urls[k]]
      /\ pruned' = [k \in Keys |-> IF k[1] = Scope THEN {} ELSE pruned[k]]
  BY DEF RemoveAddress, ProfilesVars
<1>3. urls' = [k \in Keys |-> urls'[k]] /\ \A v \in log' : v.whose \in living'
  BY <1>1, <1>2 DEF LogInv
<1>4. ASSUME NEW k \in Keys
      PROVE  /\ Visits(k) \cap gone = {} => urls'[k] = urls[k]
             /\ Visits(k) \cap gone = {} /\ Visits(k) # {} => pruned'[k] = pruned[k]
             /\ Visits(k) \cap gone # {} => urls'[k] = NoRow /\ Visits(k) \subseteq gone
  <2>1. \A v \in Visits(k) : v \in log /\ v.whose = k[1]
    BY DEF Visits, Keys
  <2>2. Visits(k) = {} => urls[k] = NoRow
    BY <1>1 DEF TableInv, RowIs
  <2>3. urls'[k] = (IF k[1] = Scope THEN NoRow ELSE urls[k])
        /\ pruned'[k] = (IF k[1] = Scope THEN {} ELSE pruned[k])
    BY <1>2
  <2>. QED
    BY <2>1, <2>2, <2>3
<1>. HIDE DEF gone
<1>5. LogInv' /\ TableInv'
  BY <1>1, <1>2, <1>3, <1>4, GoneStep
<1>. QED
  BY <1>1, <1>5, ScopedStep DEF RemoveAddress, HistoryInductive

LEMMA RemovesStep ==
  ASSUME HistoryInductive, NEW p \in Profiles, RemovesProfile(p)
  PROVE  HistoryInductive'
<1>. DEFINE gone == {v \in log : v.whose = p}
<1>1. LogInv /\ TableInv /\ ScopeInv
  BY DEF HistoryInductive
<1>2. /\ log' = log \ gone /\ gone \subseteq log /\ minute' = minute /\ living' = living \ {p}
      /\ urls' = [k \in Keys |-> IF k[1] = p THEN NoRow ELSE urls[k]]
      /\ pruned' = [k \in Keys |-> IF k[1] = p THEN {} ELSE pruned[k]]
  BY DEF RemovesProfile
<1>3. urls' = [k \in Keys |-> urls'[k]] /\ \A v \in log' : v.whose \in living'
  BY <1>1, <1>2 DEF LogInv
<1>4. ASSUME NEW k \in Keys
      PROVE  /\ Visits(k) \cap gone = {} => urls'[k] = urls[k]
             /\ Visits(k) \cap gone = {} /\ Visits(k) # {} => pruned'[k] = pruned[k]
             /\ Visits(k) \cap gone # {} => urls'[k] = NoRow /\ Visits(k) \subseteq gone
  <2>1. \A v \in Visits(k) : v \in log /\ v.whose = k[1]
    BY DEF Visits, Keys
  <2>2. Visits(k) = {} => urls[k] = NoRow
    BY <1>1 DEF TableInv, RowIs
  <2>3. urls'[k] = (IF k[1] = p THEN NoRow ELSE urls[k])
        /\ pruned'[k] = (IF k[1] = p THEN {} ELSE pruned[k])
    BY <1>2
  <2>. QED
    BY <2>1, <2>2, <2>3
<1>. HIDE DEF gone
<1>5. LogInv' /\ TableInv'
  BY <1>1, <1>2, <1>3, <1>4, GoneStep
<1>6. ScopeInv'
  BY <1>1, <1>2 DEF RemovesProfile, ForgetScope, ScopeInv
<1>. QED
  BY <1>5, <1>6 DEF HistoryInductive

(* Retention leaves a row its name, and remembers it.                      *)
LEMMA PruneStep ==
  ASSUME HistoryInductive, NEW cutoff \in Minutes, Prune(cutoff)
  PROVE  HistoryInductive'
<1>. DEFINE gone == {v \in log : v.at < cutoff}
<1>1. LogInv /\ TableInv /\ ScopeInv
  BY DEF HistoryInductive
<1>2. /\ log' = log \ gone /\ gone \subseteq log /\ minute' = minute /\ living' = living
      /\ chosen' = chosen /\ cached' = cached
  BY DEF Prune, Recount, ProfilesVars
<1>3. urls' = [k \in Keys |->
         IF Visits(k) \cap gone = {} THEN urls[k]
         ELSE IF Visits(k) \ gone = {} THEN NoRow
         ELSE [title |-> urls[k].title, last |-> Latest(Visits(k) \ gone).at,
               count |-> Cardinality(Visits(k) \ gone)]]
  BY DEF Prune, Recount
<1>4. pruned' = [k \in Keys |->
         IF Visits(k) \subseteq gone THEN {}
         ELSE pruned[k] \cup {v.title : v \in Titled(Visits(k) \cap gone)}]
  BY DEF Prune
<1>5. urls' = [k \in Keys |-> urls'[k]] /\ \A v \in log' : v.whose \in living'
  BY <1>1, <1>2, <1>3 DEF LogInv
<1>. HIDE DEF gone
<1>6. ASSUME NEW k \in Keys
      PROVE  /\ Visits(k) \cap gone = {} => urls'[k] = urls[k]
             /\ Visits(k) \cap gone = {} /\ Visits(k) # {} => pruned'[k] = pruned[k]
             /\ Visits(k) \cap gone # {} /\ Visits(k) \subseteq gone => urls'[k] = NoRow
             /\ Visits(k) \cap gone # {} /\ ~(Visits(k) \subseteq gone) =>
                  \E title \in Titles \cup {Untitled} :
                    /\ urls'[k] = [title |-> title, last |-> Latest(Visits(k) \ gone).at,
                                   count |-> Cardinality(Visits(k) \ gone)]
                    /\ title \in {v.title : v \in Visits(k) \ gone} \cup pruned'[k] \cup {Untitled}
  <2>. DEFINE here == Visits(k)
              counted == [title |-> urls[k].title, last |-> Latest(here \ gone).at,
                          count |-> Cardinality(here \ gone)]
  <2>1. /\ here \cap gone = {} => urls'[k] = urls[k]
        /\ here \cap gone # {} /\ here \subseteq gone => urls'[k] = NoRow
        /\ here \cap gone # {} /\ ~(here \subseteq gone) => urls'[k] = counted
    BY <1>3
  <2>2. pruned'[k] = (IF here \subseteq gone THEN {}
                      ELSE pruned[k] \cup {v.title : v \in Titled(here \cap gone)})
    BY <1>4
  <2>3. RowIs(urls[k], here, pruned[k])
    BY <1>1 DEF TableInv
  <2>. HIDE DEF here
  <2>4. here \cap gone = {} /\ here # {} => pruned'[k] = pruned[k]
    BY <2>2 DEF Titled
  <2>5. ASSUME ~(here \subseteq gone)
        PROVE  urls[k].title \in {v.title : v \in here \ gone} \cup pruned'[k] \cup {Untitled}
    <3>1. CASE urls[k].title = Untitled \/ urls[k].title \in pruned[k]
      BY <2>2, <2>5, <3>1
    <3>2. ASSUME NEW v \in here, urls[k].title = v.title, v.title # Untitled
          PROVE  urls[k].title \in {u.title : u \in here \ gone} \cup pruned'[k]
      <4>1. CASE v \in gone
        BY <2>2, <2>5, <3>2, <4>1 DEF Titled
      <4>2. CASE v \notin gone
        BY <3>2, <4>2
      <4>. QED
        BY <4>1, <4>2
    <3>. QED
      BY <2>3, <3>1, <3>2 DEF RowIs
  <2>6. urls[k].title \in Titles \cup {Untitled}
    BY <2>3 DEF RowIs, Rows
  <2>. QED
    BY <2>1, <2>4, <2>5, <2>6 DEF here
<1>7. LogInv' /\ TableInv'
  BY <1>1, <1>2, <1>5, <1>6, GoneStep
<1>8. ScopeInv'
  BY <1>1, <1>2 DEF ScopeInv, ReadScope
<1>. QED
  BY <1>7, <1>8 DEF HistoryInductive

(* A cleared hour leaves a row a name that a visit still has.              *)
LEMMA ClearStep ==
  ASSUME HistoryInductive, NEW since \in Minutes, ClearSince(since)
  PROVE  HistoryInductive'
<1>. DEFINE gone == {v \in log : v.whose = Scope /\ v.at >= since}
            titleOf(left) == IF Titled(left) = {} THEN Untitled ELSE Latest(Titled(left)).title
<1>1. LogInv /\ TableInv /\ ScopeInv
  BY DEF HistoryInductive
<1>2. /\ log' = log \ gone /\ gone \subseteq log /\ minute' = minute /\ living' = living
  BY DEF ClearSince, Recount, ProfilesVars
<1>3. urls' = [k \in Keys |->
         IF Visits(k) \cap gone = {} THEN urls[k]
         ELSE IF Visits(k) \ gone = {} THEN NoRow
         ELSE [title |-> titleOf(Visits(k) \ gone), last |-> Latest(Visits(k) \ gone).at,
               count |-> Cardinality(Visits(k) \ gone)]]
  BY DEF ClearSince, Recount
<1>4. pruned' = [k \in Keys |-> IF Visits(k) \cap gone = {} THEN pruned[k] ELSE {}]
  BY DEF ClearSince
<1>5. urls' = [k \in Keys |-> urls'[k]] /\ \A v \in log' : v.whose \in living'
  BY <1>1, <1>2, <1>3 DEF LogInv
<1>6. ASSUME NEW left, left \subseteq VisitRecords
      PROVE  /\ titleOf(left) \in Titles \cup {Untitled}
             /\ titleOf(left) \in {v.title : v \in left} \cup {Untitled}
  <2>1. CASE Titled(left) = {}
    BY <2>1
  <2>2. CASE Titled(left) # {}
    <3>1. Titled(left) \subseteq left
      BY DEF Titled
    <3>2. Latest(Titled(left)) \in left
      BY <1>6, <2>2, <3>1, LatestIs
    <3>. QED
      BY <1>6, <2>2, <3>2 DEF VisitRecords
  <2>. QED
    BY <2>1, <2>2
<1>. HIDE DEF gone, titleOf
<1>7. ASSUME NEW k \in Keys
      PROVE  /\ Visits(k) \cap gone = {} => urls'[k] = urls[k] /\ pruned'[k] = pruned[k]
             /\ Visits(k) \cap gone # {} /\ Visits(k) \subseteq gone => urls'[k] = NoRow
             /\ Visits(k) \cap gone # {} /\ ~(Visits(k) \subseteq gone) =>
                  \E title \in Titles \cup {Untitled} :
                    /\ urls'[k] = [title |-> title, last |-> Latest(Visits(k) \ gone).at,
                                   count |-> Cardinality(Visits(k) \ gone)]
                    /\ title \in {v.title : v \in Visits(k) \ gone} \cup pruned'[k] \cup {Untitled}
  <2>1. Visits(k) \ gone \subseteq VisitRecords
    BY <1>1, VisitsAre
  <2>2. /\ titleOf(Visits(k) \ gone) \in Titles \cup {Untitled}
        /\ titleOf(Visits(k) \ gone) \in {v.title : v \in Visits(k) \ gone} \cup {Untitled}
    BY <1>6, <2>1
  <2>3. /\ Visits(k) \cap gone = {} => urls'[k] = urls[k] /\ pruned'[k] = pruned[k]
        /\ Visits(k) \cap gone # {} /\ Visits(k) \subseteq gone => urls'[k] = NoRow
        /\ Visits(k) \cap gone # {} /\ ~(Visits(k) \subseteq gone) =>
             urls'[k] = [title |-> titleOf(Visits(k) \ gone), last |-> Latest(Visits(k) \ gone).at,
                         count |-> Cardinality(Visits(k) \ gone)]
    BY <1>3, <1>4
  <2>. QED
    BY <2>2, <2>3
<1>8. LogInv' /\ TableInv'
  BY <1>1, <1>2, <1>5, <1>7, GoneStep
<1>. QED
  BY <1>1, <1>8, ScopedStep DEF ClearSince, HistoryInductive

LEMMA HistoryInvariance == HistorySafety => []HistoryInductive
<1>1. HistoryInit => HistoryInductive
  <2>. SUFFICES ASSUME HistoryInit PROVE HistoryInductive
    OBVIOUS
  <2>1. LogInv
    BY FS_EmptySet, HistoryAssumption DEF HistoryInit, LogInv
  <2>2. TableInv
    <3>1. \A k \in Keys : Visits(k) = {} /\ urls[k] = NoRow
      BY DEF HistoryInit, Visits
    <3>2. NoRow \in Rows /\ NoRow.count = 0 /\ NoRow.title = Untitled /\ Cardinality({}) = 0
      BY HistoryAssumption, FS_EmptySet DEF NoRow, Rows
    <3>. QED
      BY <3>1, <3>2 DEF TableInv, RowIs, HistoryInit
  <2>3. ScopeInv
    BY FirstIs, HistoryAssumption DEF HistoryInit, ScopeInv, Minutes
  <2>. QED
    BY <2>1, <2>2, <2>3 DEF HistoryInductive
<1>2. ASSUME HistoryInductive, NEW p \in Profiles, SwitchesTo(p) PROVE HistoryInductive'
  <2>1. LogInv' /\ TableInv'
    BY <1>2 DEF SwitchesTo, HistoryInductive, LogInv, TableInv, Visits, RowIs
  <2>2. ScopeInv'
    BY <1>2 DEF SwitchesTo, HistoryInductive, ScopeInv, ForgetScope
  <2>. QED
    BY <2>1, <2>2 DEF HistoryInductive
<1>3. ASSUME HistoryInductive, Tick PROVE HistoryInductive'
  <2>1. /\ minute' = minute + 1 /\ minute < MaxMinutes /\ log' = log /\ urls' = urls
        /\ pruned' = pruned /\ living' = living /\ chosen' = chosen /\ cached' = cached
    BY <1>3 DEF Tick, ProfilesVars
  <2>2. minute \in 1 .. MaxMinutes /\ \A v \in log : v.at \in 1 .. MaxMinutes /\ v.at <= minute
    BY <1>3 DEF HistoryInductive, ScopeInv, LogInv, VisitRecords, Minutes
  <2>3. minute' \in Minutes /\ \A v \in log : v.at <= minute'
    BY <2>1, <2>2, HistoryAssumption DEF Minutes
  <2>4. LogInv'
    BY <1>3, <2>1, <2>3 DEF HistoryInductive, LogInv
  <2>5. TableInv'
    BY <1>3, <2>1 DEF HistoryInductive, TableInv, Visits, RowIs
  <2>6. ScopeInv'
    BY <1>3, <2>1, <2>3 DEF HistoryInductive, ScopeInv, ReadScope
  <2>. QED
    BY <2>4, <2>5, <2>6 DEF HistoryInductive
<1>4. HistoryInductive /\ UNCHANGED hVars => HistoryInductive'
  BY DEF HistoryInductive, LogInv, TableInv, ScopeInv, ReadScope, Visits, RowIs, hVars
<1>5. HistoryInductive /\ [HistoryNext]_hVars => HistoryInductive'
  BY <1>2, <1>3, <1>4, RecordStep, RetitleStep, ImportStep, RemoveAddressStep, RemovesStep,
     PruneStep, ClearStep DEF HistoryNext
<1>. QED
  BY <1>1, <1>5, PTL DEF HistorySafety

(* The table that searches read says of every address what the log does,   *)
(* and nothing is in either that a person cleared or that another, or a    *)
(* removed, profile visited; whatever imports, late names, retention and   *)
(* clearing came in between (store.rs: record_visit, import_history,       *)
(* title_visit_in, prune_history, clear_history_since, scope).             *)
THEOREM HistoryIsExact == HistorySafety => []HistoryExact
<1>1. HistoryInductive => HistoryExact
  <2>. SUFFICES ASSUME HistoryInductive PROVE HistoryExact
    OBVIOUS
  <2>1. LogInv /\ TableInv /\ ScopeInv
    BY DEF HistoryInductive
  <2>2. ASSUME NEW k \in Keys PROVE TableTrue(k)
    <3>1. RowIs(urls[k], Visits(k), pruned[k]) /\ Visits(k) \subseteq VisitRecords
      BY <2>1, VisitsAre DEF TableInv
    <3>2. ASSUME Visits(k) # {} PROVE urls[k].last = Latest(Visits(k)).at
      <4>1. /\ Latest(Visits(k)) \in Visits(k)
            /\ \A w \in Visits(k) : w.at <= Latest(Visits(k)).at
        BY <3>1, <3>2, LatestIs
      <4>2. /\ Latest(Visits(k)).at <= urls[k].last
            /\ urls[k].last <= Latest(Visits(k)).at
        BY <3>1, <3>2, <4>1 DEF RowIs
      <4>3. Latest(Visits(k)).at \in Int /\ urls[k].last \in Int
        BY <3>1, <4>1 DEF RowIs, Rows, VisitRecords, Minutes
      <4>. QED
        BY <4>2, <4>3
    <3>. QED
      BY <3>1, <3>2 DEF TableTrue, RowIs
  <2>3. HistoryTypeOK
    <3>1. urls \in [Keys -> Rows]
      BY <2>1 DEF TableInv
    <3>. QED
      BY <2>1, <3>1 DEF HistoryTypeOK, LogInv, ScopeInv, VisitRecords, Rows
  <2>. QED
    BY <2>1, <2>2, <2>3 DEF HistoryExact, ScopeInv, LogInv
<1>. QED
  BY HistoryInvariance, <1>1, PTL

-------------------------------------------------------------------------------
(* Permissions. What is said to a page, and what the registry has of it.   *)
Said == [PageKeys -> Words \cup {"none"}]
Blank == [k \in PageKeys |-> "none"]
Asking == [n : Nat, of : Nat \ {0}, frame : Frames \cup {NoFrame}, kinds : Groups,
           at : {"sent", "asked"}]
SessionRecords == [of : Nat, scope : Scopes \cup {0}, temporary : Said]

PermissionsShapes ==
  /\ label \in Nat /\ labels \in Nat /\ label <= labels /\ asks \in Nat
  /\ bridged \subseteq 1 .. labels
  /\ scope \in Scopes
  /\ session \in SessionRecords /\ session.of <= labels
  /\ session.of = 0 <=> session.scope = 0
  /\ said \in [Scopes -> Said]
  /\ asking \subseteq Asking

(* The session of the tab's view has what was said to the page, and it is  *)
(* the first that the view gets; a request the person is asked is its.     *)
SessionInv ==
  /\ label # 0 /\ session.of = label =>
       /\ label \in bridged
       /\ said[session.scope] = session.temporary
       /\ \A s \in Scopes : s # session.scope => said[s] = Blank
  /\ label \notin bridged => said = Unsaid
  /\ \A r \in asking : r.at = "asked" => r.of = session.of

PermissionsInductive == PermissionsShapes /\ SessionInv

(* What forgetting and telling leave of what was said.                     *)
LEMMA Spoken ==
  ASSUME NEW m \in Said
  PROVE  /\ \A frame : Forgets(m, frame) \in Said
         /\ \A kind : Without(m, kind) \in Said
         /\ \A r : \A word \in Words : Tell(m, r, word) \in Said
  BY DEF Said, Forgets, Without, Tell

LEMMA BlankStays ==
  /\ Blank \in Said
  /\ \A frame : Forgets(Blank, frame) = Blank
  /\ \A kind : Without(Blank, kind) = Blank
  BY DEF Said, Blank, Forgets, Without

LEMMA UnsaidBlank == Unsaid \in [Scopes -> Said] /\ \A s \in Scopes : Unsaid[s] = Blank
  BY BlankStays DEF Unsaid, Blank

LEMMA NoSessionShape ==
  /\ NoSession \in SessionRecords /\ NoSession.of = 0 /\ NoSession.scope = 0
  /\ NoSession.temporary = Blank
  BY BlankStays DEF NoSession, SessionRecords, Blank

(* The session after one of its fields has changed.                        *)
LEMMA Temporary ==
  ASSUME NEW m \in Said, NEW c \in SessionRecords
  PROVE  /\ [c EXCEPT !.temporary = m] \in SessionRecords
         /\ [c EXCEPT !.temporary = m].of = c.of
         /\ [c EXCEPT !.temporary = m].scope = c.scope
         /\ [c EXCEPT !.temporary = m].temporary = m
  BY DEF SessionRecords

LEMMA PermissionsStep ==
  PermissionsInductive /\ [PermissionsNext]_pVars => PermissionsInductive'
<1>. SUFFICES ASSUME PermissionsShapes, SessionInv, [PermissionsNext]_pVars
              PROVE  PermissionsShapes' /\ SessionInv'
  BY DEF PermissionsInductive
<1>. USE PermissionsAssumption
<1>1. ASSUME NEW v \in bridged, NEW frame \in Frames \cup {NoFrame}, NEW kinds \in Groups,
             Ask(v, frame, kinds)
      PROVE  PermissionsShapes' /\ SessionInv'
  <2>. DEFINE q == [n |-> asks', of |-> v, frame |-> frame, kinds |-> kinds, at |-> "sent"]
  <2>1. asking' = asking \cup {q} /\ asks' = asks + 1
        /\ UNCHANGED <<label, labels, bridged, scope, session, said>>
    BY <1>1 DEF Ask
  <2>2. q \in Asking /\ q.at = "sent"
    BY <2>1 DEF Asking, PermissionsShapes
  <2>. HIDE DEF q
  <2>. QED
    BY <2>1, <2>2 DEF PermissionsShapes, SessionInv
<1>2. ASSUME NEW r \in asking, GivesUp(r) PROVE PermissionsShapes' /\ SessionInv'
  BY <1>2 DEF GivesUp, PermissionsShapes, SessionInv
<1>3. ASSUME NEW v \in bridged, NEW frame \in Frames, Navigating(v, frame)
      PROVE  PermissionsShapes' /\ SessionInv'
  <2>1. asking' \subseteq asking /\ UNCHANGED <<label, labels, bridged, scope, asks>>
    BY <1>3 DEF Navigating
  <2>2. /\ session.temporary \in Said
        /\ session' = IF session.of = v
                      THEN [session EXCEPT !.temporary = Forgets(session.temporary, frame)]
                      ELSE session
    BY <1>3 DEF Navigating, PermissionsShapes, SessionRecords
  <2>3. session' \in SessionRecords /\ session'.of = session.of /\ session'.scope = session.scope
        /\ (session.of = v => session'.temporary = Forgets(session.temporary, frame))
        /\ (session.of # v => session' = session)
    BY <2>2, Spoken, Temporary DEF PermissionsShapes
  <2>4. said' = IF v = label THEN [s \in Scopes |-> Forgets(said[s], frame)] ELSE said
    BY <1>3 DEF Navigating
  <2>5. said' \in [Scopes -> Said]
    BY <2>4, Spoken DEF PermissionsShapes
  <2>6. PermissionsShapes'
    BY <2>1, <2>3, <2>5 DEF PermissionsShapes
  <2>7. CASE v = label
    <3>1. \A s \in Scopes : said'[s] = Forgets(said[s], frame)
      BY <2>4, <2>7
    <3>2. session.of = label => /\ session.scope \in Scopes
                                /\ session'.temporary = Forgets(session.temporary, frame)
      BY <2>3, <2>7 DEF PermissionsShapes, SessionRecords
    <3>. QED
      BY <2>1, <2>3, <2>6, <2>7, <3>1, <3>2, BlankStays DEF SessionInv
  <2>8. CASE v # label
    BY <2>1, <2>3, <2>4, <2>6, <2>8 DEF SessionInv
  <2>. QED
    BY <2>7, <2>8
<1>4. ASSUME NEW v \in bridged, ViewCloses(v) PROVE PermissionsShapes' /\ SessionInv'
  <2>1. asking' \subseteq asking /\ bridged' = bridged \ {v} /\ v # label
        /\ UNCHANGED <<label, labels, scope, asks, said>>
    BY <1>4 DEF ViewCloses
  <2>2. /\ session.temporary \in Said
        /\ session' = IF session.of = v
                      THEN [session EXCEPT !.temporary = Forgets(session.temporary, Top)]
                      ELSE session
    BY <1>4 DEF ViewCloses, PermissionsShapes, SessionRecords
  <2>3. session' \in SessionRecords /\ session'.of = session.of /\ session'.scope = session.scope
        /\ (session.of # v => session' = session)
    BY <2>2, Spoken, Temporary DEF PermissionsShapes
  <2>. QED
    BY <2>1, <2>3 DEF PermissionsShapes, SessionInv
<1>5. CASE HostForgets
  <2>1. label' = 0 /\ said' = Unsaid
        /\ UNCHANGED <<labels, bridged, scope, session, asking, asks>>
    BY <1>5 DEF HostForgets
  <2>. QED
    BY <2>1, UnsaidBlank DEF PermissionsShapes, SessionInv
<1>6. CASE Reopen
  <2>1. label = 0 /\ labels' = labels + 1 /\ label' = labels + 1
        /\ UNCHANGED <<bridged, scope, session, asking, asks, said>>
    BY <1>6 DEF Reopen
  <2>2. said = Unsaid /\ session.of # label' /\ label' # 0
    BY <2>1 DEF PermissionsShapes, SessionInv
  <2>3. PermissionsShapes'
    <3>1. bridged' \subseteq 1 .. labels' /\ labels' \in Nat /\ label' \in Nat /\ label' <= labels'
      BY <2>1 DEF PermissionsShapes
    <3>2. session'.of <= labels'
      BY <2>1 DEF PermissionsShapes, SessionRecords
    <3>. QED
      BY <2>1, <3>1, <3>2 DEF PermissionsShapes
  <2>4. SessionInv'
    BY <2>1, <2>2 DEF SessionInv
  <2>. QED
    BY <2>3, <2>4
<1>7. ASSUME NEW s \in Scopes, MovesTo(s) PROVE PermissionsShapes' /\ SessionInv'
  BY <1>7 DEF MovesTo, PermissionsShapes, SessionInv
<1>8. CASE BeginCurrent(label)
  <2>. DEFINE c == [NoSession EXCEPT !.of = label, !.scope = scope]
  <2>1. label # 0 /\ label \notin bridged /\ session' = c /\ bridged' = bridged \cup {label}
        /\ asking' = {r \in asking : r.at = "sent" \/ r.of # session.of}
        /\ UNCHANGED <<label, labels, scope, asks, said>>
    BY <1>8 DEF BeginCurrent, ClosePending
  <2>2. c \in SessionRecords /\ c.of = label /\ c.scope = scope /\ c.temporary = Blank
    BY NoSessionShape DEF PermissionsShapes, SessionRecords
  <2>. HIDE DEF c
  <2>3. asking' \subseteq asking /\ \A r \in asking' : r.at # "asked"
    BY <2>1 DEF SessionInv
  <2>4. said = Unsaid /\ 0 \notin Scopes
    BY <2>1 DEF SessionInv
  <2>. QED
    BY <2>1, <2>2, <2>3, <2>4, UnsaidBlank DEF PermissionsShapes, SessionInv
<1>9. CASE DropSession
  <2>1. session' = NoSession
        /\ asking' = {r \in asking : r.at = "sent" \/ r.of # session.of}
        /\ UNCHANGED <<label, labels, bridged, scope, asks, said>>
    BY <1>9 DEF DropSession, ClosePending
  <2>2. asking' \subseteq asking /\ \A r \in asking' : r.at # "asked"
    BY <2>1 DEF SessionInv
  <2>. QED
    BY <2>1, <2>2, NoSessionShape DEF PermissionsShapes, SessionInv
<1>10. ASSUME NEW r \in asking, Received(r) PROVE PermissionsShapes' /\ SessionInv'
  <2>. DEFINE q == [r EXCEPT !.at = "asked"]
  <2>1. UNCHANGED <<label, labels, bridged, scope, session, asks, said>>
    BY <1>10 DEF Received
  <2>2. q \in Asking /\ q.of = r.of
    BY DEF PermissionsShapes, Asking
  <2>3. \/ asking' \subseteq asking
        \/ asking' = (asking \ {r}) \cup {q} /\ r.of = session.of
    BY <1>10 DEF Received, Current
  <2>. HIDE DEF q
  <2>. QED
    BY <2>1, <2>2, <2>3 DEF PermissionsShapes, SessionInv
<1>11. ASSUME NEW r \in asking, NEW word \in Words, NEW forPage \in BOOLEAN,
              Answers(r, word, forPage)
       PROVE  PermissionsShapes' /\ SessionInv'
  <2>1. asking' \subseteq asking /\ UNCHANGED <<label, labels, bridged, scope, asks>>
        /\ session.of = label /\ session.scope = scope /\ r.at = "asked"
    BY <1>11 DEF Answers, Current
  <2>2. session.temporary \in Said /\ label # 0
    BY <2>1 DEF PermissionsShapes, SessionRecords
  <2>3. CASE forPage
    <3>1. /\ session' = [session EXCEPT !.temporary = Tell(session.temporary, r, word)]
          /\ said' = [said EXCEPT ![scope] = Tell(said[scope], r, word)]
      BY <1>11, <2>3 DEF Answers, PermissionsShapes, SessionRecords
    <3>2. /\ session' \in SessionRecords /\ session'.of = session.of
          /\ session'.scope = session.scope
          /\ session'.temporary = Tell(session.temporary, r, word)
      <4>1. Tell(session.temporary, r, word) \in Said
        BY <2>2, Spoken
      <4>. QED
        BY <3>1, <4>1, Temporary DEF PermissionsShapes
    <3>3. /\ said' \in [Scopes -> Said] /\ said'[scope] = Tell(said[scope], r, word)
          /\ \A s \in Scopes : s # scope => said'[s] = said[s]
      <4>1. said[scope] \in Said /\ scope \in Scopes
        BY DEF PermissionsShapes
      <4>2. Tell(said[scope], r, word) \in Said
        BY <4>1, Spoken
      <4>. QED
        BY <3>1, <4>1, <4>2 DEF PermissionsShapes
    <3>4. label \in bridged
      BY <2>1, <2>2 DEF SessionInv
    <3>. QED
      BY <2>1, <2>2, <3>2, <3>3, <3>4 DEF PermissionsShapes, SessionInv
  <2>4. CASE ~forPage
    <3>1. UNCHANGED <<session, said>>
      BY <1>11, <2>4 DEF Answers
    <3>. QED
      BY <2>1, <3>1 DEF PermissionsShapes, SessionInv
  <2>. QED
    BY <2>3, <2>4
<1>12. ASSUME NEW s \in Scopes, NEW kind \in Kinds, NEW word \in Words \cup {"ask"},
              NEW reset \in BOOLEAN, SetPermission(s, kind, word, reset)
       PROVE  PermissionsShapes' /\ SessionInv'
  <2>1. UNCHANGED <<label, labels, bridged, scope, asks>> /\ asking' \subseteq asking
    BY <1>12 DEF SetPermission
  <2>2. said' = [said EXCEPT ![s] = Without(said[s], kind)]
    BY <1>12 DEF SetPermission, PermissionsShapes
  <2>3. /\ said' \in [Scopes -> Said] /\ said'[s] = Without(said[s], kind)
        /\ \A t \in Scopes : t # s => said'[t] = said[t]
    BY <2>2, Spoken DEF PermissionsShapes
  <2>4. session.temporary \in Said
    BY DEF PermissionsShapes, SessionRecords
  <2>5. /\ session' \in SessionRecords /\ session'.of = session.of
        /\ session'.scope = session.scope
        /\ session.scope = s => session'.temporary = Without(session.temporary, kind)
        /\ session.scope # s => session' = session
    <3>1. Without(session.temporary, kind) \in Said
      BY <2>4, Spoken
    <3>2. session' = IF session.scope = s
                     THEN [session EXCEPT !.temporary = Without(session.temporary, kind)]
                     ELSE session
      BY <1>12, <2>4 DEF SetPermission, PermissionsShapes, SessionRecords
    <3>. QED
      BY <3>1, <3>2, Temporary DEF PermissionsShapes
  <2>6. PermissionsShapes'
    BY <2>1, <2>3, <2>5 DEF PermissionsShapes
  <2>7. ASSUME label \notin bridged PROVE said' = Unsaid
    <3>1. said = Unsaid
      BY <2>7 DEF SessionInv
    <3>2. Without(said[s], kind) = Unsaid[s]
      BY <3>1, UnsaidBlank, BlankStays
    <3>3. Unsaid \in [Scopes -> Said]
      BY UnsaidBlank
    <3>. QED
      BY <2>2, <3>1, <3>2, <3>3
  <2>8. ASSUME label # 0, session.of = label
        PROVE  /\ said'[session.scope] = session'.temporary
               /\ \A t \in Scopes : t # session.scope => said'[t] = Blank
    <3>1. session.scope \in Scopes
      BY <2>8 DEF PermissionsShapes, SessionRecords
    <3>. QED
      BY <2>3, <2>5, <2>8, <3>1, BlankStays DEF SessionInv
  <2>. QED
    BY <2>1, <2>5, <2>6, <2>7, <2>8 DEF SessionInv
<1>13. CASE UNCHANGED pVars
  BY <1>13 DEF pVars, PermissionsShapes, SessionInv
<1>. QED
  BY <1>1, <1>2, <1>3, <1>4, <1>5, <1>6, <1>7, <1>8, <1>9, <1>10, <1>11, <1>12, <1>13
     DEF PermissionsNext

LEMMA PermissionsInvariance == PermissionsSafety => []PermissionsInductive
<1>1. PermissionsInit => PermissionsInductive
  BY UnsaidBlank, NoSessionShape, PermissionsAssumption
     DEF PermissionsInit, PermissionsInductive, PermissionsShapes, SessionInv
<1>. QED
  BY <1>1, PermissionsStep, PTL DEF PermissionsSafety

LEMMA GrantsHaveReasons ==
  ASSUME PermissionsInductive, [PermissionsNext]_pVars, granted' # granted
  PROVE  /\ granted'.of = label
         /\ \/ granted'.at = "asked" /\ session.scope = scope
            \/ \A k \in granted'.kinds : WordOf(said[scope], granted'.frame, k) = "allow"
<1>. USE DEF PermissionsInductive
<1>1. ASSUME NEW r \in asking, Received(r)
      PROVE  /\ granted'.of = label
             /\ \A k \in granted'.kinds : WordOf(said[scope], granted'.frame, k) = "allow"
  <2>1. /\ r.of = label /\ Current /\ granted' = r
        /\ {WordOf(session.temporary, r.frame, k) : k \in r.kinds} = {"allow"}
    BY <1>1 DEF Received
  <2>2. r.of # 0
    BY DEF PermissionsShapes, Asking
  <2>3. said[scope] = session.temporary
    BY <2>1, <2>2 DEF SessionInv, Current
  <2>. QED
    BY <2>1, <2>3
<1>2. ASSUME NEW r \in asking, NEW word \in Words, NEW forPage \in BOOLEAN,
             Answers(r, word, forPage)
      PROVE  granted'.of = label /\ granted'.at = "asked" /\ session.scope = scope
  BY <1>2 DEF Answers, Current, SessionInv
<1>. QED
  BY <1>1, <1>2
     DEF PermissionsNext, pVars, ViewCloses, Navigating, Ask, GivesUp, HostForgets, Reopen,
         BeginCurrent, DropSession, MovesTo, SetPermission

(* A request is granted only to the view the tab has, and only for what    *)
(* the person just answered or had said before, to this page or for good,  *)
(* whatever navigated or moved meanwhile (receive in permissions.rs and    *)
(* answer in permission_requests.rs).                                      *)
THEOREM GrantsAreJustified == PermissionsSafety => GrantJustified
  BY PermissionsInvariance, GrantsHaveReasons, PTL DEF PermissionsSafety, GrantJustified

-------------------------------------------------------------------------------
(* Failures. An event on its way to the listener, and what the listener    *)
(* follows once it has taken it: the main frame's last request before it.  *)
Events ==
  [what : {"sent"}, id : 1 .. MaxLoads, frame : {"main", "child"}, url : Urls]
    \cup [what : {"ended", "failed"}, id : 1 .. MaxLoads]
    \cup [what : {"committed"}]

OfMain(e) == e.what = "sent" /\ e.frame = "main"
Names(e) == [id |-> e.id, url |-> e.url]
LastBefore(n, q, p) ==
  OfMain(n[q]) /\ \A x \in 1 .. Len(n) : q < x /\ x < p => ~OfMain(n[x])
NoneBefore(n, p) == \A x \in 1 .. Len(n) : x < p => ~OfMain(n[x])

(* What is followed when a failure is taken, and when all is taken.        *)
SentHonest(n, failed) ==
  \A p, q \in 1 .. Len(n) :
    q < p /\ n[p].what = "failed" /\ LastBefore(n, q, p) /\ n[q].id = n[p].id
      => Names(n[q]) \in failed
SentLast(n, now) ==
  \A q \in 1 .. Len(n) : LastBefore(n, q, Len(n) + 1) => Names(n[q]) = now
HeldHonest(n, f, failed) ==
  \A p \in 1 .. Len(n) :
    n[p].what = "failed" /\ NoneBefore(n, p) /\ f.id = n[p].id => f \in failed
HeldLast(n, f, now) == NoneBefore(n, Len(n) + 1) /\ f.id # 0 => f = now

LEMMA TailOf ==
  ASSUME NEW n \in Seq(Events), n # <<>>
  PROVE  /\ Len(n) \in Nat \ {0} /\ Tail(n) \in Seq(Events) /\ Len(Tail(n)) = Len(n) - 1
         /\ \A x \in 1 .. Len(Tail(n)) : Tail(n)[x] = n[x + 1] /\ x + 1 \in 1 .. Len(n)
         /\ Head(n) = n[1] /\ n[1] \in Events
  OBVIOUS

LEMMA AppendOf ==
  ASSUME NEW n \in Seq(Events), NEW e \in Events
  PROVE  /\ Len(n) \in Nat /\ Append(n, e) \in Seq(Events) /\ Len(Append(n, e)) = Len(n) + 1
         /\ \A x \in 1 .. Len(n) : Append(n, e)[x] = n[x]
         /\ Append(n, e)[Len(n) + 1] = e
  OBVIOUS

(* The oldest event is dropped, or taken.                                  *)
LEMMA TailKeepsSent ==
  ASSUME NEW n \in Seq(Events), n # <<>>, NEW failed, NEW now,
         SentHonest(n, failed), SentLast(n, now)
  PROVE  SentHonest(Tail(n), failed) /\ SentLast(Tail(n), now)
<1>. DEFINE t == Tail(n)
<1>1. /\ Len(n) \in Nat \ {0} /\ Len(t) = Len(n) - 1
      /\ \A x \in 1 .. Len(t) : t[x] = n[x + 1] /\ x + 1 \in 1 .. Len(n)
  BY TailOf
<1>2. ASSUME NEW q \in 1 .. Len(t), NEW p \in 1 .. Len(t) + 1, q < p, LastBefore(t, q, p)
      PROVE  LastBefore(n, q + 1, p + 1) /\ t[q] = n[q + 1] /\ q + 1 \in 1 .. Len(n)
  <2>1. ASSUME NEW x \in 1 .. Len(n), q + 1 < x, x < p + 1 PROVE ~OfMain(n[x])
    <3>1. x - 1 \in 1 .. Len(t) /\ q < x - 1 /\ x - 1 < p /\ (x - 1) + 1 = x
      BY <1>1, <2>1
    <3>2. t[x - 1] = n[x] /\ ~OfMain(t[x - 1])
      BY <1>1, <1>2, <3>1 DEF LastBefore
    <3>. QED
      BY <3>2
  <2>. QED
    BY <1>1, <1>2, <2>1 DEF LastBefore
<1>. HIDE DEF t
<1>3. SentHonest(t, failed)
  <2>1. ASSUME NEW p \in 1 .. Len(t), NEW q \in 1 .. Len(t), q < p, t[p].what = "failed",
               LastBefore(t, q, p), t[q].id = t[p].id
        PROVE  Names(t[q]) \in failed
    <3>1. LastBefore(n, q + 1, p + 1) /\ t[q] = n[q + 1] /\ q + 1 \in 1 .. Len(n)
      BY <1>1, <1>2, <2>1
    <3>2. t[p] = n[p + 1] /\ p + 1 \in 1 .. Len(n) /\ q + 1 < p + 1
      BY <1>1, <2>1
    <3>. QED
      BY <2>1, <3>1, <3>2 DEF SentHonest
  <2>. QED
    BY <2>1 DEF SentHonest
<1>4. SentLast(t, now)
  <2>1. ASSUME NEW q \in 1 .. Len(t), LastBefore(t, q, Len(t) + 1) PROVE Names(t[q]) = now
    <3>1. LastBefore(n, q + 1, Len(n) + 1) /\ t[q] = n[q + 1] /\ q + 1 \in 1 .. Len(n)
      BY <1>1, <1>2, <2>1
    <3>. QED
      BY <3>1 DEF SentLast
  <2>. QED
    BY <2>1 DEF SentLast
<1>. QED
  BY <1>3, <1>4 DEF t

(* What is not a request of the main frame is taken: what is followed      *)
(* stays, or is let go.                                                    *)
LEMMA TailKeepsHeld ==
  ASSUME NEW n \in Seq(Events), n # <<>>, NEW failed, NEW now, NEW f,
         HeldHonest(n, f, failed), HeldLast(n, f, now), ~OfMain(Head(n))
  PROVE  HeldHonest(Tail(n), f, failed) /\ HeldLast(Tail(n), f, now)
<1>. DEFINE t == Tail(n)
<1>1. /\ Len(n) \in Nat \ {0} /\ Len(t) = Len(n) - 1 /\ Head(n) = n[1]
      /\ \A x \in 1 .. Len(t) : t[x] = n[x + 1] /\ x + 1 \in 1 .. Len(n)
  BY TailOf
<1>2. ASSUME NEW p \in 1 .. Len(t) + 1, NoneBefore(t, p) PROVE NoneBefore(n, p + 1)
  <2>1. ASSUME NEW x \in 1 .. Len(n), x < p + 1 PROVE ~OfMain(n[x])
    <3>1. CASE x = 1
      BY <1>1, <3>1
    <3>2. CASE x # 1
      <4>1. x - 1 \in 1 .. Len(t) /\ x - 1 < p /\ (x - 1) + 1 = x
        BY <1>1, <2>1, <3>2
      <4>. QED
        BY <1>1, <1>2, <4>1 DEF NoneBefore
    <3>. QED
      BY <3>1, <3>2
  <2>. QED
    BY <2>1 DEF NoneBefore
<1>. HIDE DEF t
<1>3. HeldHonest(t, f, failed)
  BY <1>1, <1>2 DEF HeldHonest
<1>4. HeldLast(t, f, now)
  BY <1>1, <1>2 DEF HeldLast
<1>. QED
  BY <1>3, <1>4 DEF t

(* A request of the main frame is taken: it is what is followed.           *)
LEMMA TailHolds ==
  ASSUME NEW n \in Seq(Events), n # <<>>, NEW failed, NEW now,
         SentHonest(n, failed), SentLast(n, now), OfMain(Head(n))
  PROVE  HeldHonest(Tail(n), Names(Head(n)), failed) /\ HeldLast(Tail(n), Names(Head(n)), now)
<1>. DEFINE t == Tail(n)
<1>1. /\ Len(n) \in Nat \ {0} /\ Len(t) = Len(n) - 1 /\ Head(n) = n[1] /\ n[1] \in Events
      /\ \A x \in 1 .. Len(t) : t[x] = n[x + 1] /\ x + 1 \in 1 .. Len(n)
  BY TailOf
<1>2. ASSUME NEW p \in 1 .. Len(t) + 1, NoneBefore(t, p) PROVE LastBefore(n, 1, p + 1)
  <2>1. ASSUME NEW x \in 1 .. Len(n), 1 < x, x < p + 1 PROVE ~OfMain(n[x])
    <3>1. x - 1 \in 1 .. Len(t) /\ x - 1 < p /\ (x - 1) + 1 = x
      BY <1>1, <2>1
    <3>. QED
      BY <1>1, <1>2, <3>1 DEF NoneBefore
  <2>. QED
    BY <1>1, <2>1 DEF LastBefore
<1>. HIDE DEF t
<1>3. HeldHonest(t, Names(n[1]), failed)
  <2>1. ASSUME NEW p \in 1 .. Len(t), t[p].what = "failed", NoneBefore(t, p), Names(n[1]).id = t[p].id
        PROVE  Names(n[1]) \in failed
    <3>1. LastBefore(n, 1, p + 1) /\ t[p] = n[p + 1] /\ p + 1 \in 1 .. Len(n) /\ 1 \in 1 .. Len(n)
      BY <1>1, <1>2, <2>1
    <3>2. n[1].id = n[p + 1].id /\ 1 < p + 1
      BY <2>1, <3>1 DEF Names
    <3>. QED
      BY <2>1, <3>1, <3>2 DEF SentHonest
  <2>. QED
    BY <2>1 DEF HeldHonest
<1>4. HeldLast(t, Names(n[1]), now)
  BY <1>1, <1>2 DEF HeldLast, SentLast
<1>. QED
  BY <1>1, <1>3, <1>4 DEF t

(* An event is reported: a failure of the latest request is one, and a     *)
(* request of the main frame is the latest.                                *)
LEMMA AppendKeepsSent ==
  ASSUME NEW n \in Seq(Events), NEW e \in Events,
         NEW failed, NEW failed2, NEW now, NEW now2,
         SentHonest(n, failed), SentLast(n, now), failed \subseteq failed2,
         e.what = "failed" /\ e.id = now.id => now \in failed2,
         OfMain(e) => now2 = Names(e), ~OfMain(e) => now2 = now
  PROVE  SentHonest(Append(n, e), failed2) /\ SentLast(Append(n, e), now2)
<1>. DEFINE m == Append(n, e)
<1>1. /\ Len(n) \in Nat /\ Len(m) = Len(n) + 1 /\ m[Len(n) + 1] = e
      /\ \A x \in 1 .. Len(n) : m[x] = n[x]
  BY AppendOf
<1>. HIDE DEF m
<1>2. ASSUME NEW q \in 1 .. Len(n), NEW p \in 1 .. Len(n) + 1, LastBefore(m, q, p)
      PROVE  LastBefore(n, q, p)
  <2>1. ASSUME NEW x \in 1 .. Len(n), q < x, x < p PROVE ~OfMain(n[x])
    BY <1>1, <1>2, <2>1 DEF LastBefore
  <2>. QED
    BY <1>1, <1>2, <2>1 DEF LastBefore
<1>3. SentHonest(m, failed2)
  <2>1. ASSUME NEW p \in 1 .. Len(m), NEW q \in 1 .. Len(m), q < p, m[p].what = "failed",
               LastBefore(m, q, p), m[q].id = m[p].id
        PROVE  Names(m[q]) \in failed2
    <3>1. q \in 1 .. Len(n) /\ p \in 1 .. Len(n) + 1 /\ m[q] = n[q]
      BY <1>1, <2>1
    <3>2. LastBefore(n, q, p)
      BY <1>2, <2>1, <3>1
    <3>3. CASE p \in 1 .. Len(n)
      BY <1>1, <2>1, <3>1, <3>2, <3>3 DEF SentHonest
    <3>4. CASE p = Len(n) + 1
      <4>1. Names(n[q]) = now
        BY <3>1, <3>2, <3>4 DEF SentLast
      <4>2. e.what = "failed" /\ e.id = now.id
        BY <1>1, <2>1, <3>1, <3>4, <4>1 DEF Names
      <4>. QED
        BY <3>1, <4>1, <4>2
    <3>. QED
      BY <1>1, <3>1, <3>3, <3>4
  <2>. QED
    BY <2>1 DEF SentHonest
<1>4. SentLast(m, now2)
  <2>1. ASSUME NEW q \in 1 .. Len(m), LastBefore(m, q, Len(m) + 1) PROVE Names(m[q]) = now2
    <3>1. CASE q = Len(n) + 1
      BY <1>1, <2>1, <3>1 DEF LastBefore
    <3>2. CASE q \in 1 .. Len(n)
      <4>1. ~OfMain(e) /\ LastBefore(m, q, Len(n) + 1)
        BY <1>1, <2>1, <3>2 DEF LastBefore
      <4>. QED
        BY <1>1, <1>2, <3>2, <4>1 DEF SentLast
    <3>. QED
      BY <1>1, <3>1, <3>2
  <2>. QED
    BY <2>1 DEF SentLast
<1>. QED
  BY <1>3, <1>4 DEF m

LEMMA AppendKeepsHeld ==
  ASSUME NEW n \in Seq(Events), NEW e \in Events, NEW f,
         NEW failed, NEW failed2, NEW now, NEW now2,
         HeldHonest(n, f, failed), HeldLast(n, f, now), failed \subseteq failed2,
         e.what = "failed" /\ e.id = now.id => now \in failed2,
         e.what = "failed" => e.id # 0, ~OfMain(e) => now2 = now
  PROVE  HeldHonest(Append(n, e), f, failed2) /\ HeldLast(Append(n, e), f, now2)
<1>. DEFINE m == Append(n, e)
<1>1. /\ Len(n) \in Nat /\ Len(m) = Len(n) + 1 /\ m[Len(n) + 1] = e
      /\ \A x \in 1 .. Len(n) : m[x] = n[x]
  BY AppendOf
<1>. HIDE DEF m
<1>2. ASSUME NEW p \in 1 .. Len(m) + 1, NoneBefore(m, p) PROVE NoneBefore(n, p)
  BY <1>1, <1>2 DEF NoneBefore
<1>3. HeldHonest(m, f, failed2)
  <2>1. ASSUME NEW p \in 1 .. Len(m), m[p].what = "failed", NoneBefore(m, p), f.id = m[p].id
        PROVE  f \in failed2
    <3>1. NoneBefore(n, p) /\ p \in 1 .. Len(n) + 1
      BY <1>1, <1>2, <2>1
    <3>2. CASE p \in 1 .. Len(n)
      BY <1>1, <2>1, <3>1, <3>2 DEF HeldHonest
    <3>3. CASE p = Len(n) + 1
      BY <1>1, <2>1, <3>1, <3>3 DEF HeldLast
    <3>. QED
      BY <1>1, <3>1, <3>2, <3>3
  <2>. QED
    BY <2>1 DEF HeldHonest
<1>4. HeldLast(m, f, now2)
  <2>1. ASSUME NoneBefore(m, Len(m) + 1), f.id # 0 PROVE f = now2
    <3>1. ~OfMain(e) /\ NoneBefore(n, Len(n) + 1)
      BY <1>1, <2>1 DEF NoneBefore
    <3>. QED
      BY <2>1, <3>1 DEF HeldLast
  <2>. QED
    BY <2>1 DEF HeldLast
<1>. QED
  BY <1>3, <1>4 DEF m

-------------------------------------------------------------------------------
Loads == [frame : {"main", "child"}, url : Urls, going : BOOLEAN]
Now == IF latest = 0 THEN Nothing ELSE [id |-> latest, url |-> loads[latest].url]

LoadingShapes ==
  /\ loads \in Seq(Loads) /\ Len(loads) <= MaxLoads
  /\ latest \in 0 .. Len(loads) /\ (latest # 0 => loads[latest].frame = "main")
  /\ news \in Seq(Events) /\ Len(news) <= Buffer
  /\ {lagged, known} \subseteq BOOLEAN
  /\ follows \in {Nothing} \cup [id : 1 .. MaxLoads, url : Urls]
  /\ ~known => follows = Nothing

HonestNews == SentHonest(news, failures) /\ SentLast(news, Now)
HonestFollow == ~lagged => HeldHonest(news, follows, failures) /\ HeldLast(news, follows, Now)
HonestShown == shown # Nothing => shown \in failures

LoadingInductive == LoadingShapes /\ HonestNews /\ HonestFollow /\ HonestShown

(* The channel loses nothing unless it is full, and says that it did.      *)
LEMMA ReportsStep ==
  ASSUME LoadingInductive, NEW e \in Events, Reports(e), failures \subseteq failures',
         e.what = "failed" /\ e.id = Now.id => Now \in failures',
         e.what = "failed" => e.id # 0,
         OfMain(e) => Now' = Names(e), ~OfMain(e) => Now' = Now
  PROVE  /\ news' \in Seq(Events) /\ Len(news') <= Buffer /\ lagged' \in BOOLEAN
         /\ HonestNews' /\ HonestFollow' /\ HonestShown'
<1>0. /\ news \in Seq(Events) /\ Len(news) <= Buffer /\ lagged \in BOOLEAN /\ Len(news) \in Nat
      /\ SentHonest(news, failures) /\ SentLast(news, Now) /\ HonestFollow /\ HonestShown
  BY DEF LoadingInductive, LoadingShapes, HonestNews
<1>1. follows' = follows /\ shown' = shown /\ HonestShown'
  BY <1>0 DEF Reports, HonestShown
<1>2. CASE Len(news) = Buffer
  <2>1. news' = Append(Tail(news), e) /\ lagged'
    BY <1>2 DEF Reports
  <2>2. news # <<>> /\ Tail(news) \in Seq(Events) /\ Len(Tail(news)) = Len(news) - 1
    BY <1>0, <1>2, LoadingAssumption
  <2>3. SentHonest(Tail(news), failures) /\ SentLast(Tail(news), Now)
    BY <1>0, <2>2, TailKeepsSent
  <2>4. SentHonest(news', failures') /\ SentLast(news', Now')
    BY <2>1, <2>2, <2>3, AppendKeepsSent
  <2>5. news' \in Seq(Events) /\ Len(news') = Len(news) - 1 + 1
    BY <1>0, <2>1, <2>2, AppendOf
  <2>. QED
    BY <1>0, <1>1, <1>2, <2>1, <2>4, <2>5, LoadingAssumption DEF HonestNews, HonestFollow
<1>3. CASE Len(news) # Buffer
  <2>1. news' = Append(news, e) /\ (lagged' <=> lagged)
    BY <1>0, <1>3 DEF Reports
  <2>2. SentHonest(news', failures') /\ SentLast(news', Now')
    BY <1>0, <2>1, AppendKeepsSent
  <2>3. ~lagged => HeldHonest(news', follows, failures') /\ HeldLast(news', follows, Now')
    BY <1>0, <2>1, AppendKeepsHeld DEF HonestFollow
  <2>4. news' \in Seq(Events) /\ Len(news') = Len(news) + 1
    BY <1>0, <2>1, AppendOf
  <2>5. lagged' \in BOOLEAN
    BY <1>0, <1>3 DEF Reports
  <2>. QED
    BY <1>0, <1>1, <1>3, <2>1, <2>2, <2>3, <2>4, <2>5, LoadingAssumption DEF HonestNews, HonestFollow
<1>. QED
  BY <1>2, <1>3

LEMMA RequestsStep ==
  ASSUME LoadingInductive, NEW url \in Urls, NEW frame \in {"main", "child"}, Requests(frame, url)
  PROVE  LoadingInductive'
<1>. DEFINE i == Len(loads) + 1
            e == Sent(i, frame, url)
            load == [frame |-> frame, url |-> url, going |-> TRUE]
<1>0. /\ loads \in Seq(Loads) /\ Len(loads) \in Nat /\ latest \in 0 .. Len(loads)
      /\ (latest # 0 => loads[latest].frame = "main")
  BY DEF LoadingInductive, LoadingShapes
<1>1. /\ Len(loads) < MaxLoads /\ loads' = Append(loads, load) /\ Reports(e)
      /\ latest' = (IF frame = "main" THEN i ELSE latest) /\ failures' = failures
      /\ follows' = follows /\ (known' <=> known)
  BY DEF Requests, Reports
<1>2. e \in Events /\ e.what = "sent" /\ e.frame = frame /\ e.id = i /\ e.url = url
  BY <1>0, <1>1, LoadingAssumption DEF Events, Sent
<1>3. load \in Loads /\ load.frame = frame /\ load.url = url
  BY DEF Loads
<1>. HIDE DEF e, load
<1>4. /\ loads' \in Seq(Loads) /\ Len(loads') = i /\ loads'[i] = load
      /\ \A x \in 1 .. Len(loads) : loads'[x] = loads[x]
  BY <1>0, <1>1, <1>3
<1>5. (OfMain(e) <=> frame = "main") /\ (frame = "main" => Now' = Names(e))
  BY <1>0, <1>1, <1>2, <1>3, <1>4 DEF OfMain, Names, Now
<1>6. frame # "main" => Now' = Now
  BY <1>0, <1>1, <1>4 DEF Now
<1>7. /\ news' \in Seq(Events) /\ Len(news') <= Buffer /\ lagged' \in BOOLEAN
      /\ HonestNews' /\ HonestFollow' /\ HonestShown'
  BY <1>1, <1>2, <1>5, <1>6, ReportsStep
<1>8. latest' \in 0 .. Len(loads') /\ (latest' # 0 => loads'[latest'].frame = "main")
  BY <1>0, <1>1, <1>3, <1>4
<1>9. follows' \in {Nothing} \cup [id : 1 .. MaxLoads, url : Urls] /\ (~known' => follows' = Nothing)
  BY <1>1 DEF LoadingInductive, LoadingShapes
<1>10. known' \in BOOLEAN
  BY DEF Requests, Reports, LoadingInductive, LoadingShapes
<1>. QED
  BY <1>0, <1>1, <1>4, <1>7, <1>8, <1>9, <1>10, LoadingAssumption DEF LoadingInductive, LoadingShapes

LEMMA RedirectsStep ==
  ASSUME LoadingInductive, NEW i \in DOMAIN loads, NEW url \in Urls, Redirects(i, url)
  PROVE  LoadingInductive'
<1>. DEFINE e == Sent(i, loads[i].frame, url)
            load == [loads[i] EXCEPT !.url = url]
<1>0. /\ loads \in Seq(Loads) /\ Len(loads) \in Nat /\ Len(loads) <= MaxLoads
      /\ latest \in 0 .. Len(loads) /\ (latest # 0 => loads[latest].frame = "main")
      /\ i \in 1 .. Len(loads) /\ loads[i] \in Loads
  BY DEF LoadingInductive, LoadingShapes
<1>1. /\ (loads[i].frame = "main" => i = latest)
      /\ loads' = [loads EXCEPT ![i] = load] /\ Reports(e)
      /\ latest' = latest /\ failures' = failures /\ follows' = follows /\ (known' <=> known)
  BY <1>0 DEF Redirects, Reports
<1>2. e \in Events /\ e.what = "sent" /\ e.frame = loads[i].frame /\ e.id = i /\ e.url = url
  BY <1>0, LoadingAssumption DEF Events, Sent, Loads
<1>3. load \in Loads /\ load.frame = loads[i].frame /\ load.url = url
  BY <1>0 DEF Loads
<1>. HIDE DEF e, load
<1>4. /\ loads' \in Seq(Loads) /\ Len(loads') = Len(loads) /\ loads'[i] = load
      /\ \A x \in 1 .. Len(loads) : x # i => loads'[x] = loads[x]
  BY <1>0, <1>1, <1>3
<1>5. OfMain(e) => Now' = Names(e)
  BY <1>0, <1>1, <1>2, <1>3, <1>4 DEF OfMain, Names, Now
<1>6. ~OfMain(e) => Now' = Now
  BY <1>0, <1>1, <1>2, <1>4 DEF OfMain, Now
<1>7. /\ news' \in Seq(Events) /\ Len(news') <= Buffer /\ lagged' \in BOOLEAN
      /\ HonestNews' /\ HonestFollow' /\ HonestShown'
  BY <1>1, <1>2, <1>5, <1>6, ReportsStep
<1>8. latest' \in 0 .. Len(loads') /\ (latest' # 0 => loads'[latest'].frame = "main")
  BY <1>0, <1>1, <1>3, <1>4
<1>9. follows' \in {Nothing} \cup [id : 1 .. MaxLoads, url : Urls] /\ (~known' => follows' = Nothing)
  BY <1>1 DEF LoadingInductive, LoadingShapes
<1>10. known' \in BOOLEAN
  BY DEF Redirects, Reports, LoadingInductive, LoadingShapes
<1>. QED
  BY <1>0, <1>4, <1>7, <1>8, <1>9, <1>10 DEF LoadingInductive, LoadingShapes

LEMMA FinishesStep ==
  ASSUME LoadingInductive, NEW i \in DOMAIN loads, NEW how \in {"ended", "failed"}, Finishes(i, how)
  PROVE  LoadingInductive'
<1>. DEFINE e == Over(i, how)
            load == [loads[i] EXCEPT !.going = FALSE]
<1>0. /\ loads \in Seq(Loads) /\ Len(loads) \in Nat /\ Len(loads) <= MaxLoads
      /\ latest \in 0 .. Len(loads) /\ (latest # 0 => loads[latest].frame = "main")
      /\ i \in 1 .. Len(loads) /\ loads[i] \in Loads
  BY DEF LoadingInductive, LoadingShapes
<1>1. /\ failures' = (IF how = "failed" /\ i = latest
                      THEN failures \cup {[id |-> i, url |-> loads[i].url]} ELSE failures)
      /\ loads' = [loads EXCEPT ![i] = load] /\ Reports(e)
      /\ latest' = latest /\ follows' = follows /\ (known' <=> known)
  BY <1>0 DEF Finishes, Reports
<1>2. e \in Events /\ e.what = how /\ e.id = i /\ ~OfMain(e)
  BY <1>0, LoadingAssumption DEF Events, Over, OfMain
<1>3. load \in Loads /\ load.frame = loads[i].frame /\ load.url = loads[i].url
  BY <1>0 DEF Loads
<1>. HIDE DEF e, load
<1>4. /\ loads' \in Seq(Loads) /\ Len(loads') = Len(loads) /\ loads'[i] = load
      /\ \A x \in 1 .. Len(loads) : x # i => loads'[x] = loads[x]
  BY <1>0, <1>1, <1>3
<1>5. latest # 0 => loads'[latest].url = loads[latest].url /\ loads'[latest].frame = loads[latest].frame
  BY <1>0, <1>3, <1>4
<1>6. Now' = Now
  BY <1>1, <1>5 DEF Now
<1>7. e.what = "failed" /\ e.id = Now.id => Now \in failures'
  BY <1>0, <1>1, <1>2 DEF Now, Nothing
<1>8. /\ news' \in Seq(Events) /\ Len(news') <= Buffer /\ lagged' \in BOOLEAN
      /\ HonestNews' /\ HonestFollow' /\ HonestShown'
  BY <1>0, <1>1, <1>2, <1>6, <1>7, ReportsStep
<1>9. latest' \in 0 .. Len(loads') /\ (latest' # 0 => loads'[latest'].frame = "main")
  BY <1>0, <1>1, <1>4, <1>5
<1>10. follows' \in {Nothing} \cup [id : 1 .. MaxLoads, url : Urls] /\ (~known' => follows' = Nothing)
  BY <1>1 DEF LoadingInductive, LoadingShapes
<1>11. known' \in BOOLEAN
  BY DEF Finishes, Reports, LoadingInductive, LoadingShapes
<1>. QED
  BY <1>0, <1>4, <1>8, <1>9, <1>10, <1>11 DEF LoadingInductive, LoadingShapes

LEMMA CommitsStep ==
  ASSUME LoadingInductive, Commits
  PROVE  LoadingInductive'
<1>. DEFINE e == [what |-> "committed"]
<1>1. Reports(e) /\ failures' = failures /\ Now' = Now
  BY DEF Commits, Now
<1>2. e \in Events /\ e.what = "committed" /\ ~OfMain(e)
  BY DEF Events, OfMain
<1>. HIDE DEF e
<1>3. /\ news' \in Seq(Events) /\ Len(news') <= Buffer /\ lagged' \in BOOLEAN
      /\ HonestNews' /\ HonestFollow' /\ HonestShown'
  BY <1>1, <1>2, ReportsStep
<1>4. loads' = loads /\ latest' = latest /\ follows' = follows /\ known' = known
  BY <1>1 DEF Commits, Reports
<1>. QED
  BY <1>3, <1>4 DEF LoadingInductive, LoadingShapes

(* What is taken is the oldest event, and nothing was lost before it.      *)
LEMMA TakesStep ==
  ASSUME LoadingInductive, NEW what, Takes(what)
  PROVE  /\ ~lagged /\ Head(news) \in Events /\ Head(news).what \in what
         /\ news \in Seq(Events) /\ news # <<>> /\ news' = Tail(news)
         /\ news' \in Seq(Events) /\ Len(news') <= Buffer
         /\ loads' = loads /\ latest' = latest /\ lagged' = lagged /\ failures' = failures
         /\ Now' = Now /\ HonestNews'
<1>1. /\ ~lagged /\ Head(news).what \in what /\ news # <<>> /\ news' = Tail(news)
      /\ loads' = loads /\ latest' = latest /\ lagged' = lagged /\ failures' = failures
  BY DEF Takes, engine
<1>2. news \in Seq(Events) /\ Len(news) <= Buffer /\ SentHonest(news, failures) /\ SentLast(news, Now)
  BY DEF LoadingInductive, LoadingShapes, HonestNews
<1>3. Now' = Now
  BY <1>1 DEF Now
<1>4. HonestNews'
  BY <1>1, <1>2, <1>3, TailKeepsSent DEF HonestNews
<1>5. /\ Head(news) \in Events /\ news' \in Seq(Events) /\ Len(news') = Len(news) - 1
      /\ Len(news) \in Nat
  BY <1>1, <1>2, TailOf
<1>. QED
  BY <1>1, <1>2, <1>3, <1>4, <1>5, LoadingAssumption

(* Nothing is no request, so that no failure is of it.                     *)
LEMMA NothingIsHonest ==
  ASSUME NEW n \in Seq(Events), NEW failed, NEW now
  PROVE  HeldHonest(n, Nothing, failed) /\ HeldLast(n, Nothing, now)
<1>1. \A p \in 1 .. Len(n) : n[p] \in Events
  OBVIOUS
<1>2. \A x \in Events : x.what = "failed" => x.id # 0
  BY LoadingAssumption DEF Events
<1>3. HeldHonest(n, Nothing, failed)
  BY <1>1, <1>2 DEF HeldHonest, Nothing
<1>. QED
  BY <1>3 DEF HeldLast, Nothing

LEMMA NotesStep ==
  ASSUME LoadingInductive, NotesCommit
  PROVE  LoadingInductive'
<1>1. Takes({"committed"}) /\ known' /\ shown' = shown
      /\ follows' \in {follows, Nothing}
  BY DEF NotesCommit
<1>2. /\ news \in Seq(Events) /\ news # <<>> /\ news' = Tail(news) /\ news' \in Seq(Events)
      /\ Len(news') <= Buffer /\ loads' = loads /\ latest' = latest /\ lagged' = lagged
      /\ failures' = failures /\ Now' = Now /\ HonestNews' /\ Head(news).what = "committed" /\ ~lagged
  BY <1>1, TakesStep
<1>3. HeldHonest(news', follows', failures') /\ HeldLast(news', follows', Now')
  <2>1. CASE follows' = follows
    BY <1>2, <2>1, TailKeepsHeld DEF LoadingInductive, HonestFollow, OfMain
  <2>2. CASE follows' = Nothing
    BY <1>2, <2>2, NothingIsHonest
  <2>. QED
    BY <1>1, <2>1, <2>2
<1>4. known' \in BOOLEAN
  BY DEF NotesCommit
<1>5. LoadingShapes'
  BY <1>1, <1>2, <1>4 DEF LoadingInductive, LoadingShapes
<1>. QED
  BY <1>1, <1>2, <1>3, <1>5 DEF LoadingInductive, HonestFollow, HonestShown

LEMMA FollowsStep ==
  ASSUME LoadingInductive, FollowsRequest
  PROVE  LoadingInductive'
<1>1. /\ Takes({"sent"}) /\ known' = known /\ shown' = shown
      /\ follows' = IF known /\ Head(news).frame = "main" THEN Names(Head(news)) ELSE follows
  BY DEF FollowsRequest, Names
<1>2. /\ news \in Seq(Events) /\ news # <<>> /\ news' = Tail(news) /\ news' \in Seq(Events)
      /\ Len(news') <= Buffer /\ loads' = loads /\ latest' = latest /\ lagged' = lagged
      /\ failures' = failures /\ Now' = Now /\ HonestNews' /\ Head(news).what = "sent" /\ ~lagged
      /\ Head(news) \in Events
  BY <1>1, TakesStep
<1>3. HeldHonest(news', follows', failures') /\ HeldLast(news', follows', Now')
  <2>1. CASE Head(news).frame # "main"
    BY <1>1, <1>2, <2>1, TailKeepsHeld DEF LoadingInductive, HonestFollow, OfMain
  <2>2. CASE known /\ Head(news).frame = "main"
    BY <1>1, <1>2, <2>2, TailHolds DEF LoadingInductive, HonestNews, OfMain
  <2>3. CASE ~known
    BY <1>1, <1>2, <2>3, NothingIsHonest DEF LoadingInductive, LoadingShapes
  <2>. QED
    BY <2>1, <2>2, <2>3
<1>4. Names(Head(news)) \in [id : 1 .. MaxLoads, url : Urls]
  BY <1>2 DEF Events, Names
<1>5. LoadingShapes'
  BY <1>1, <1>2, <1>4 DEF LoadingInductive, LoadingShapes
<1>. QED
  BY <1>1, <1>2, <1>3, <1>5 DEF LoadingInductive, HonestFollow, HonestShown

(* A failure that is shown is of what was the latest request when it       *)
(* failed.                                                                 *)
LEMMA OversStep ==
  ASSUME LoadingInductive, Unfollows \/ ShowsFailure
  PROVE  LoadingInductive'
<1>1. /\ Takes({"ended", "failed"}) /\ known' = known /\ follows' \in {follows, Nothing}
  BY DEF Unfollows, ShowsFailure, Takes
<1>2. /\ news \in Seq(Events) /\ news # <<>> /\ news' = Tail(news) /\ news' \in Seq(Events)
      /\ Len(news') <= Buffer /\ loads' = loads /\ latest' = latest /\ lagged' = lagged
      /\ failures' = failures /\ Now' = Now /\ HonestNews' /\ Head(news).what # "sent" /\ ~lagged
      /\ Head(news) \in Events
  BY <1>1, TakesStep
<1>3. HeldHonest(news', follows', failures') /\ HeldLast(news', follows', Now')
  <2>1. CASE follows' = follows
    BY <1>2, <2>1, TailKeepsHeld DEF LoadingInductive, HonestFollow, OfMain
  <2>2. CASE follows' = Nothing
    BY <1>2, <2>2, NothingIsHonest
  <2>. QED
    BY <1>1, <2>1, <2>2
<1>4. HonestShown'
  <2>1. CASE shown' = shown
    BY <1>2, <2>1 DEF LoadingInductive, HonestShown
  <2>2. CASE shown' = follows /\ Head(news).what = "failed" /\ follows.id = Head(news).id
    <3>1. Head(news) = news[1] /\ 1 \in 1 .. Len(news)
      BY <1>2, TailOf
    <3>2. NoneBefore(news, 1)
      BY <3>1 DEF NoneBefore
    <3>. QED
      BY <1>2, <2>2, <3>1, <3>2 DEF LoadingInductive, HonestFollow, HeldHonest, HonestShown
  <2>. QED
    BY <2>1, <2>2 DEF Unfollows, ShowsFailure, Takes
<1>5. LoadingShapes'
  BY <1>1, <1>2 DEF LoadingInductive, LoadingShapes
<1>. QED
  BY <1>2, <1>3, <1>4, <1>5 DEF LoadingInductive, HonestFollow

LEMMA ListensStep ==
  ASSUME LoadingInductive, Lags \/ \E answered \in BOOLEAN : Refreshes(answered)
  PROVE  LoadingInductive'
<1>0. \/ ~lagged' /\ follows' = Nothing
      \/ (lagged' <=> lagged) /\ follows' \in {follows, Nothing}
  <2>1. Lags => ~lagged' /\ follows' = Nothing
    BY DEF Lags
  <2>2. ASSUME NEW answered \in BOOLEAN, Refreshes(answered)
        PROVE  (lagged' <=> lagged) /\ follows' \in {follows, Nothing}
    BY <2>2 DEF Refreshes
  <2>. QED
    BY <2>1, <2>2
<1>1. /\ news' = news /\ loads' = loads /\ latest' = latest /\ failures' = failures /\ shown' = shown
      /\ follows' \in {follows, Nothing}
  BY DEF Lags, Refreshes, engine
<1>2. Now' = Now /\ HonestNews' /\ HonestShown'
  BY <1>1 DEF LoadingInductive, HonestNews, HonestShown, Now
<1>3. {lagged', known'} \subseteq BOOLEAN /\ (~known' => follows' = Nothing)
  BY DEF Lags, Refreshes, LoadingInductive, LoadingShapes
<1>4. LoadingShapes'
  BY <1>1, <1>3 DEF LoadingInductive, LoadingShapes
<1>5. HonestFollow'
  <2>1. CASE follows' = Nothing
    BY <1>1, <1>2, <2>1, NothingIsHonest DEF HonestFollow, LoadingInductive, LoadingShapes
  <2>2. CASE follows' = follows /\ (lagged' <=> lagged)
    BY <1>1, <1>2, <2>2 DEF HonestFollow, LoadingInductive
  <2>. QED
    BY <1>0, <2>1, <2>2
<1>. QED
  BY <1>2, <1>4, <1>5 DEF LoadingInductive

LEMMA LoadingInvariance == LoadingSafety => []LoadingInductive
<1>1. LoadingInit => LoadingInductive
  <2>. SUFFICES ASSUME LoadingInit PROVE LoadingInductive
    OBVIOUS
  <2>1. LoadingShapes
    <3>1. loads \in Seq(Loads) /\ Len(loads) = 0 /\ news \in Seq(Events) /\ Len(news) = 0
      BY DEF LoadingInit
    <3>2. latest = 0 /\ ~lagged /\ ~known /\ follows = Nothing
      BY DEF LoadingInit
    <3>3. {lagged, known} \subseteq BOOLEAN
      BY DEF LoadingInit
    <3>. QED
      BY <3>1, <3>2, <3>3, LoadingAssumption DEF LoadingShapes
  <2>2. HonestNews /\ HonestFollow /\ HonestShown
    BY DEF LoadingInit, HonestNews, HonestFollow, HonestShown, SentHonest, SentLast,
           HeldHonest, HeldLast, Nothing
  <2>. QED
    BY <2>1, <2>2 DEF LoadingInductive
<1>2. LoadingInductive /\ [LoadingNext]_lVars => LoadingInductive'
  <2>1. LoadingInductive /\ LoadingNext => LoadingInductive'
    BY RequestsStep, RedirectsStep, FinishesStep, CommitsStep, NotesStep, FollowsStep,
       OversStep, ListensStep DEF LoadingNext
  <2>2. LoadingInductive /\ UNCHANGED lVars => LoadingInductive'
    BY DEF LoadingInductive, LoadingShapes, HonestNews, HonestFollow, HonestShown, Now, lVars
  <2>. QED
    BY <2>1, <2>2
<1>. QED
  BY <1>1, <1>2, PTL DEF LoadingSafety

(* The failure a tab shows did happen, to the main frame's request that    *)
(* was then the latest, and names where that request had come to; although *)
(* events are dropped, redirected and superseded on their way              *)
(* (loading.rs: map_event, attach).                                        *)
THEOREM FailuresAreHonest == LoadingSafety => []ErrorHonest
<1>1. LoadingInductive => ErrorHonest
  <2>. SUFFICES ASSUME LoadingInductive PROVE ErrorHonest
    OBVIOUS
  <2>1. \A i \in DOMAIN loads : loads[i] \in Loads
    BY DEF LoadingInductive, LoadingShapes
  <2>2. \A i \in DOMAIN loads : loads[i].going \in BOOLEAN /\ loads[i].url \in Urls
    BY <2>1 DEF Loads
  <2>3. Len(loads) \in Nat /\ Len(loads) <= MaxLoads /\ latest \in 0 .. Len(loads)
    BY DEF LoadingInductive, LoadingShapes
  <2>4. follows.id \in 0 .. MaxLoads
    BY LoadingAssumption DEF LoadingInductive, LoadingShapes, Nothing
  <2>5. latest \in 0 .. MaxLoads
    BY <2>3, LoadingAssumption
  <2>. QED
    BY <2>2, <2>4, <2>5 DEF LoadingInductive, LoadingShapes, HonestShown, ErrorHonest, LoadingTypeOK
<1>. QED
  BY LoadingInvariance, <1>1, PTL

-------------------------------------------------------------------------------
(* Recordings.                                                             *)
RecRecords ==
  [mode : {"window", "page"}, stopped : BOOLEAN, paused : BOOLEAN, limit : BOOLEAN,
   finishing : BOOLEAN, child : {"none", "live", "dead"}, kept : BOOLEAN, dir : BOOLEAN]

RecorderShapes ==
  /\ made \in 0 .. Len(Modes) /\ recording \in 0 .. made
  /\ rec \in [Recs -> RecRecords]
  /\ start \in [Recs -> {"none", "begins", "settles", "asks", "pictured", "blank", "over"}]
  /\ watch \in [Recs -> {"off", "on", "cap"}]
  /\ pauser \in [of : 0 .. made, to : BOOLEAN]
  /\ stopper \in [Stoppers -> [at : {"idle", "found", "begun", "encoding", "saved", "failed"},
                               of : 0 .. made]]
  /\ \A k \in Stoppers : stopper[k].at # "idle" => stopper[k].of # 0
  /\ tossing \subseteq settled /\ settled \subseteq 1 .. made
  /\ \A r \in Recs : start[r] = "none" <=> r > made

Registered(r) == recording = r /\ rec[r].dir

(* A recording is in the registry until it is stopped, and one that did    *)
(* start until it is settled, if there is or will be something to save.    *)
RecordedAt(r) ==
  /\ start[r] # "none" /\ r \notin settled /\ ~rec[r].stopped => Registered(r)
  /\ start[r] = "over" /\ r \notin settled /\ rec[r].kept => Registered(r)
  /\ start[r] = "over" /\ r \notin settled /\ rec[r].mode = "window" =>
       Registered(r) /\ (rec[r].kept \/ rec[r].child # "none")
  /\ start[r] \in {"asks", "pictured", "blank"} => rec[r].mode = "page"
RecordedInv == \A r \in Recs : RecordedAt(r)

(* A stop under way has stopped its recording; once it encodes, a window's *)
(* last stretch is kept.                                                   *)
StopAt(k) ==
  LET r == stopper[k].of IN
  /\ stopper[k].at \in {"begun", "encoding", "saved", "failed"} => rec[r].stopped
  /\ stopper[k].at \in {"encoding", "saved", "failed"} =>
       (start[r] = "over" /\ r \notin settled /\ rec[r].mode = "window" => rec[r].kept)
  /\ stopper[k].at = "saved" => r \in settled
StopInv == \A k \in Stoppers : StopAt(k)

RecorderInductive == RecorderShapes /\ RecordedInv /\ StopInv

LEMMA RecsAre == Recs = 1 .. Len(Modes) /\ Len(Modes) \in Nat
  BY RecorderAssumption DEF Recs

(* What a step does to a recording, field by field.                        *)
Only(r) ==
  rec' \in [Recs -> RecRecords] /\ \A q \in Recs : q # r => rec'[q] = rec[q]

LEMMA PutRec ==
  ASSUME RecorderShapes, NEW r \in Recs, NEW v \in RecRecords, rec' = [rec EXCEPT ![r] = v]
  PROVE  Only(r) /\ rec'[r] = v
  BY DEF Only, RecorderShapes

LEMMA StoppedEffect ==
  ASSUME RecorderShapes, NEW r \in Recs, rec' = [rec EXCEPT ![r].stopped = TRUE]
  PROVE  /\ Only(r)
         /\ rec'[r].mode = rec[r].mode /\ rec'[r].stopped
         /\ rec'[r].child = rec[r].child /\ (rec'[r].kept <=> rec[r].kept) /\ (rec'[r].dir <=> rec[r].dir)
<1>. DEFINE v == [rec[r] EXCEPT !.stopped = TRUE]
<1>1. rec[r] \in RecRecords
  BY DEF RecorderShapes
<1>2. v \in RecRecords
  BY <1>1 DEF RecRecords
<1>3. rec' = [rec EXCEPT ![r] = v]
  BY DEF RecorderShapes
<1>4. v.mode = rec[r].mode /\ v.stopped /\ v.child = rec[r].child /\ (v.kept <=> rec[r].kept) /\ (v.dir <=> rec[r].dir)
  BY <1>1 DEF RecRecords
<1>. HIDE DEF v
<1>. QED
  BY <1>2, <1>3, <1>4, PutRec

LEMMA ChildEffect ==
  ASSUME RecorderShapes, NEW r \in Recs, NEW c \in {"none", "live", "dead"}, rec' = [rec EXCEPT ![r].child = c]
  PROVE  /\ Only(r)
         /\ rec'[r].mode = rec[r].mode /\ (rec'[r].stopped <=> rec[r].stopped)
         /\ rec'[r].child = c /\ (rec'[r].kept <=> rec[r].kept) /\ (rec'[r].dir <=> rec[r].dir)
<1>. DEFINE v == [rec[r] EXCEPT !.child = c]
<1>1. rec[r] \in RecRecords
  BY DEF RecorderShapes
<1>2. v \in RecRecords
  BY <1>1 DEF RecRecords
<1>3. rec' = [rec EXCEPT ![r] = v]
  BY DEF RecorderShapes
<1>4. v.mode = rec[r].mode /\ (v.stopped <=> rec[r].stopped) /\ v.child = c /\ (v.kept <=> rec[r].kept) /\ (v.dir <=> rec[r].dir)
  BY <1>1 DEF RecRecords
<1>. HIDE DEF v
<1>. QED
  BY <1>2, <1>3, <1>4, PutRec

LEMMA KeptEffect ==
  ASSUME RecorderShapes, NEW r \in Recs, rec' = [rec EXCEPT ![r].kept = TRUE]
  PROVE  /\ Only(r)
         /\ rec'[r].mode = rec[r].mode /\ (rec'[r].stopped <=> rec[r].stopped)
         /\ rec'[r].child = rec[r].child /\ rec'[r].kept /\ (rec'[r].dir <=> rec[r].dir)
<1>. DEFINE v == [rec[r] EXCEPT !.kept = TRUE]
<1>1. rec[r] \in RecRecords
  BY DEF RecorderShapes
<1>2. v \in RecRecords
  BY <1>1 DEF RecRecords
<1>3. rec' = [rec EXCEPT ![r] = v]
  BY DEF RecorderShapes
<1>4. v.mode = rec[r].mode /\ (v.stopped <=> rec[r].stopped) /\ v.child = rec[r].child /\ v.kept /\ (v.dir <=> rec[r].dir)
  BY <1>1 DEF RecRecords
<1>. HIDE DEF v
<1>. QED
  BY <1>2, <1>3, <1>4, PutRec

LEMMA LimitEffect ==
  ASSUME RecorderShapes, NEW r \in Recs, rec' = [rec EXCEPT ![r].limit = TRUE]
  PROVE  /\ Only(r)
         /\ rec'[r].mode = rec[r].mode /\ (rec'[r].stopped <=> rec[r].stopped)
         /\ rec'[r].child = rec[r].child /\ (rec'[r].kept <=> rec[r].kept) /\ (rec'[r].dir <=> rec[r].dir)
<1>. DEFINE v == [rec[r] EXCEPT !.limit = TRUE]
<1>1. rec[r] \in RecRecords
  BY DEF RecorderShapes
<1>2. v \in RecRecords
  BY <1>1 DEF RecRecords
<1>3. rec' = [rec EXCEPT ![r] = v]
  BY DEF RecorderShapes
<1>4. v.mode = rec[r].mode /\ (v.stopped <=> rec[r].stopped) /\ v.child = rec[r].child /\ (v.kept <=> rec[r].kept) /\ (v.dir <=> rec[r].dir)
  BY <1>1 DEF RecRecords
<1>. HIDE DEF v
<1>. QED
  BY <1>2, <1>3, <1>4, PutRec

LEMMA PausedEffect ==
  ASSUME RecorderShapes, NEW r \in Recs, NEW to \in BOOLEAN, rec' = [rec EXCEPT ![r].paused = to]
  PROVE  /\ Only(r)
         /\ rec'[r].mode = rec[r].mode /\ (rec'[r].stopped <=> rec[r].stopped)
         /\ rec'[r].child = rec[r].child /\ (rec'[r].kept <=> rec[r].kept) /\ (rec'[r].dir <=> rec[r].dir)
<1>. DEFINE v == [rec[r] EXCEPT !.paused = to]
<1>1. rec[r] \in RecRecords
  BY DEF RecorderShapes
<1>2. v \in RecRecords
  BY <1>1 DEF RecRecords
<1>3. rec' = [rec EXCEPT ![r] = v]
  BY DEF RecorderShapes
<1>4. v.mode = rec[r].mode /\ (v.stopped <=> rec[r].stopped) /\ v.child = rec[r].child /\ (v.kept <=> rec[r].kept) /\ (v.dir <=> rec[r].dir)
  BY <1>1 DEF RecRecords
<1>. HIDE DEF v
<1>. QED
  BY <1>2, <1>3, <1>4, PutRec

LEMMA SegmentEffect ==
  ASSUME RecorderShapes, NEW r \in Recs, rec' = [rec EXCEPT ![r] = SegmentEnded(r)]
  PROVE  /\ Only(r)
         /\ rec'[r].mode = rec[r].mode /\ (rec'[r].stopped <=> rec[r].stopped)
         /\ rec'[r].child = "none" /\ (rec'[r].kept <=> rec[r].kept \/ (rec[r].mode = "window" /\ rec[r].child # "none")) /\ (rec'[r].dir <=> rec[r].dir)
<1>. DEFINE v == SegmentEnded(r)
<1>1. rec[r] \in RecRecords
  BY DEF RecorderShapes
<1>2. v \in RecRecords
  BY <1>1 DEF RecRecords, SegmentEnded
<1>3. rec' = [rec EXCEPT ![r] = v]
  BY DEF RecorderShapes
<1>4. v.mode = rec[r].mode /\ (v.stopped <=> rec[r].stopped) /\ v.child = "none" /\ (v.kept <=> rec[r].kept \/ (rec[r].mode = "window" /\ rec[r].child # "none")) /\ (v.dir <=> rec[r].dir)
  BY <1>1 DEF RecRecords, SegmentEnded
<1>. HIDE DEF v
<1>. QED
  BY <1>2, <1>3, <1>4, PutRec

LEMMA BegunEffect ==
  ASSUME RecorderShapes, NEW r \in Recs, rec' = [rec EXCEPT ![r].finishing = TRUE, ![r].stopped = TRUE]
  PROVE  /\ Only(r)
         /\ rec'[r].mode = rec[r].mode /\ rec'[r].stopped
         /\ rec'[r].child = rec[r].child /\ (rec'[r].kept <=> rec[r].kept) /\ (rec'[r].dir <=> rec[r].dir)
<1>. DEFINE v == [rec[r] EXCEPT !.finishing = TRUE, !.stopped = TRUE]
<1>1. rec[r] \in RecRecords
  BY DEF RecorderShapes
<1>2. v \in RecRecords
  BY <1>1 DEF RecRecords
<1>3. rec' = [rec EXCEPT ![r] = v]
  BY DEF RecorderShapes
<1>4. v.mode = rec[r].mode /\ v.stopped /\ v.child = rec[r].child /\ (v.kept <=> rec[r].kept) /\ (v.dir <=> rec[r].dir)
  BY <1>1 DEF RecRecords
<1>. HIDE DEF v
<1>. QED
  BY <1>2, <1>3, <1>4, PutRec

LEMMA DirEffect ==
  ASSUME RecorderShapes, NEW r \in Recs, rec' = [rec EXCEPT ![r].dir = FALSE]
  PROVE  /\ Only(r)
         /\ rec'[r].mode = rec[r].mode /\ (rec'[r].stopped <=> rec[r].stopped)
         /\ rec'[r].child = rec[r].child /\ (rec'[r].kept <=> rec[r].kept) /\ ~rec'[r].dir
<1>. DEFINE v == [rec[r] EXCEPT !.dir = FALSE]
<1>1. rec[r] \in RecRecords
  BY DEF RecorderShapes
<1>2. v \in RecRecords
  BY <1>1 DEF RecRecords
<1>3. rec' = [rec EXCEPT ![r] = v]
  BY DEF RecorderShapes
<1>4. v.mode = rec[r].mode /\ (v.stopped <=> rec[r].stopped) /\ v.child = rec[r].child /\ (v.kept <=> rec[r].kept) /\ ~v.dir
  BY <1>1 DEF RecRecords
<1>. HIDE DEF v
<1>. QED
  BY <1>2, <1>3, <1>4, PutRec

LEMMA FinishedEffect ==
  ASSUME RecorderShapes, NEW r \in Recs, rec' = [rec EXCEPT ![r].finishing = FALSE]
  PROVE  /\ Only(r)
         /\ rec'[r].mode = rec[r].mode /\ (rec'[r].stopped <=> rec[r].stopped)
         /\ rec'[r].child = rec[r].child /\ (rec'[r].kept <=> rec[r].kept) /\ (rec'[r].dir <=> rec[r].dir)
<1>. DEFINE v == [rec[r] EXCEPT !.finishing = FALSE]
<1>1. rec[r] \in RecRecords
  BY DEF RecorderShapes
<1>2. v \in RecRecords
  BY <1>1 DEF RecRecords
<1>3. rec' = [rec EXCEPT ![r] = v]
  BY DEF RecorderShapes
<1>4. v.mode = rec[r].mode /\ (v.stopped <=> rec[r].stopped) /\ v.child = rec[r].child /\ (v.kept <=> rec[r].kept) /\ (v.dir <=> rec[r].dir)
  BY <1>1 DEF RecRecords
<1>. HIDE DEF v
<1>. QED
  BY <1>2, <1>3, <1>4, PutRec

LEMMA TossedEffect ==
  ASSUME RecorderShapes, NEW r \in Recs, rec' = [rec EXCEPT ![r] = [SegmentEnded(r) EXCEPT !.dir = FALSE]]
  PROVE  /\ Only(r)
         /\ rec'[r].mode = rec[r].mode /\ (rec'[r].stopped <=> rec[r].stopped)
         /\ ~rec'[r].dir
<1>. DEFINE v == [SegmentEnded(r) EXCEPT !.dir = FALSE]
<1>1. rec[r] \in RecRecords
  BY DEF RecorderShapes
<1>2. v \in RecRecords
  BY <1>1 DEF RecRecords, SegmentEnded
<1>3. rec' = [rec EXCEPT ![r] = v]
  BY DEF RecorderShapes
<1>4. v.mode = rec[r].mode /\ (v.stopped <=> rec[r].stopped) /\ ~v.dir
  BY <1>1 DEF RecRecords, SegmentEnded
<1>. HIDE DEF v
<1>. QED
  BY <1>2, <1>3, <1>4, PutRec

LEMMA ReleasedEffect ==
  ASSUME RecorderShapes, NEW r \in Recs, rec' = [rec EXCEPT ![r] = Released]
  PROVE  /\ Only(r)
         /\ rec'[r].mode = "page" /\ rec'[r].stopped
         /\ rec'[r].child = "none" /\ ~rec'[r].kept /\ ~rec'[r].dir
<1>. DEFINE v == Released
<1>1. rec[r] \in RecRecords
  BY DEF RecorderShapes
<1>2. v \in RecRecords
  BY <1>1 DEF RecRecords, Released, Fresh
<1>3. rec' = [rec EXCEPT ![r] = v]
  BY DEF RecorderShapes
<1>4. v.mode = "page" /\ v.stopped /\ v.child = "none" /\ ~v.kept /\ ~v.dir
  BY <1>1 DEF RecRecords, Released, Fresh
<1>. HIDE DEF v
<1>. QED
  BY <1>2, <1>3, <1>4, PutRec

LEMMA FreshEffect ==
  ASSUME RecorderShapes, NEW r \in Recs, NEW m \in {"window", "page"}, rec' = [rec EXCEPT ![r] = Fresh(m)]
  PROVE  /\ Only(r)
         /\ rec'[r].mode = m /\ ~rec'[r].stopped
         /\ rec'[r].child = "none" /\ ~rec'[r].kept /\ rec'[r].dir
<1>. DEFINE v == Fresh(m)
<1>1. rec[r] \in RecRecords
  BY DEF RecorderShapes
<1>2. v \in RecRecords
  BY <1>1 DEF RecRecords, Fresh
<1>3. rec' = [rec EXCEPT ![r] = v]
  BY DEF RecorderShapes
<1>4. v.mode = m /\ ~v.stopped /\ v.child = "none" /\ ~v.kept /\ v.dir
  BY <1>1 DEF RecRecords, Fresh
<1>. HIDE DEF v
<1>. QED
  BY <1>2, <1>3, <1>4, PutRec

(* The start's devices.                                                    *)
LEMMA CapturesStep ==
  ASSUME RecorderInductive, NEW r \in Recs, StartCaptures(r)
  PROVE  RecorderInductive'
<1>. USE DEF RecorderInductive
<1>0. RecorderShapes /\ RecordedInv /\ StopInv
  OBVIOUS
<1>1. CASE /\ rec' = [rec EXCEPT ![r].child = "live"]
       /\ start' = [start EXCEPT ![r] = "settles"] /\ UNCHANGED <<recording, watch, settled>>
  <2>1. /\ Only(r)
        /\ rec'[r].mode = rec[r].mode /\ (rec'[r].stopped <=> rec[r].stopped)
        /\ rec'[r].child = "live" /\ (rec'[r].kept <=> rec[r].kept) /\ (rec'[r].dir <=> rec[r].dir)
        /\ start' = [start EXCEPT ![r] = "settles"]
        /\ recording' = recording /\ made' = made /\ watch' = watch /\ pauser' = pauser /\ stopper' = stopper
        /\ tossing' = tossing /\ settled' = settled
        /\ start[r] = "begins"
    BY <1>1, ChildEffect DEF StartCaptures
  <2>2. RecorderShapes'
    BY <2>1, <1>0, RecsAre DEF RecorderShapes, Only, NotPausing, NotStopping
  <2>3. RecordedInv'
    BY <2>1, <1>0, RecsAre DEF RecorderShapes, RecordedInv, RecordedAt, StopInv, StopAt, Registered, Only
  <2>4. StopInv'
    BY <2>1, <1>0, RecsAre DEF RecorderShapes, RecordedInv, RecordedAt, StopInv, StopAt, Registered, Only, NotStopping
  <2>. QED
    BY <2>2, <2>3, <2>4
<1>2. CASE Fails(r)
  <2>1. /\ Only(r)
        /\ rec'[r].mode = rec[r].mode /\ rec'[r].stopped
        /\ rec'[r].child = rec[r].child /\ (rec'[r].kept <=> rec[r].kept) /\ (rec'[r].dir <=> rec[r].dir)
        /\ start' = [start EXCEPT ![r] = "over"]
        /\ recording' = IF recording = r THEN 0 ELSE recording
        /\ settled' = settled \cup {r}
        /\ made' = made /\ watch' = watch /\ pauser' = pauser /\ stopper' = stopper /\ tossing' = tossing
        /\ start[r] = "begins"
    BY <1>2, StoppedEffect DEF StartCaptures, Fails, Refused, Gone, Forget
  <2>2. RecorderShapes'
    BY <2>1, <1>0, RecsAre DEF RecorderShapes, Only, NotPausing, NotStopping
  <2>3. RecordedInv'
    BY <2>1, <1>0, RecsAre DEF RecorderShapes, RecordedInv, RecordedAt, StopInv, StopAt, Registered, Only
  <2>4. StopInv'
    BY <2>1, <1>0, RecsAre DEF RecorderShapes, RecordedInv, RecordedAt, StopInv, StopAt, Registered, Only, NotStopping
  <2>. QED
    BY <2>2, <2>3, <2>4
<1>3. CASE start' = [start EXCEPT ![r] = "settles"] /\ UNCHANGED <<recording, rec, watch, settled>>
  <2>1. /\ start' = [start EXCEPT ![r] = "settles"]
        /\ recording' = recording /\ made' = made /\ rec' = rec /\ watch' = watch /\ pauser' = pauser
        /\ stopper' = stopper /\ tossing' = tossing /\ settled' = settled
        /\ start[r] = "begins"
    BY <1>3, ChildEffect DEF StartCaptures
  <2>2. RecorderShapes'
    BY <2>1, <1>0, RecsAre DEF RecorderShapes, Only, NotPausing, NotStopping
  <2>3. RecordedInv'
    BY <2>1, <1>0, RecsAre DEF RecorderShapes, RecordedInv, RecordedAt, StopInv, StopAt, Registered, Only
  <2>4. StopInv'
    BY <2>1, <1>0, RecsAre DEF RecorderShapes, RecordedInv, RecordedAt, StopInv, StopAt, Registered, Only, NotStopping
  <2>. QED
    BY <2>2, <2>3, <2>4
<1>. QED
  BY <1>1, <1>2, <1>3 DEF StartCaptures

(* Almost a second on.                                                     *)
LEMMA SettlesStep ==
  ASSUME RecorderInductive, NEW r \in Recs, StartSettles(r)
  PROVE  RecorderInductive'
<1>. USE DEF RecorderInductive
<1>0. RecorderShapes /\ RecordedInv /\ StopInv
  OBVIOUS
<1>1. CASE rec[r].mode = "window" /\ rec[r].stopped /\ Refused(r) /\ UNCHANGED <<recording, rec, watch>>
  <2>1. /\ start' = [start EXCEPT ![r] = "over"]
        /\ settled' = settled \cup {r}
        /\ recording' = recording /\ made' = made /\ rec' = rec /\ watch' = watch /\ pauser' = pauser
        /\ stopper' = stopper /\ tossing' = tossing
        /\ start[r] = "settles"
    BY <1>1, <1>0 DEF StartSettles, Refused, Gone
  <2>2. RecorderShapes'
    BY <2>1, <1>0, RecsAre DEF RecorderShapes, Only, NotPausing, NotStopping
  <2>3. RecordedInv'
    BY <2>1, <1>0, RecsAre DEF RecorderShapes, RecordedInv, RecordedAt, StopInv, StopAt, Registered, Only
  <2>4. StopInv'
    BY <2>1, <1>0, RecsAre DEF RecorderShapes, RecordedInv, RecordedAt, StopInv, StopAt, Registered, Only, NotStopping
  <2>. QED
    BY <2>2, <2>3, <2>4
<1>2. CASE Fails(r)
  <2>1. /\ Only(r)
        /\ rec'[r].mode = rec[r].mode /\ rec'[r].stopped
        /\ rec'[r].child = rec[r].child /\ (rec'[r].kept <=> rec[r].kept) /\ (rec'[r].dir <=> rec[r].dir)
        /\ start' = [start EXCEPT ![r] = "over"]
        /\ recording' = IF recording = r THEN 0 ELSE recording
        /\ settled' = settled \cup {r}
        /\ made' = made /\ watch' = watch /\ pauser' = pauser /\ stopper' = stopper /\ tossing' = tossing
        /\ start[r] = "settles"
    BY <1>2, StoppedEffect DEF StartSettles, Fails, Refused, Gone, Forget
  <2>2. RecorderShapes'
    BY <2>1, <1>0, RecsAre DEF RecorderShapes, Only, NotPausing, NotStopping
  <2>3. RecordedInv'
    BY <2>1, <1>0, RecsAre DEF RecorderShapes, RecordedInv, RecordedAt, StopInv, StopAt, Registered, Only
  <2>4. StopInv'
    BY <2>1, <1>0, RecsAre DEF RecorderShapes, RecordedInv, RecordedAt, StopInv, StopAt, Registered, Only, NotStopping
  <2>. QED
    BY <2>2, <2>3, <2>4
<1>3. CASE /\ rec[r].mode = "window" /\ ~rec[r].stopped /\ rec[r].child = "live"
       /\ watch' = [watch EXCEPT ![r] = "on"]
       /\ Gone(r) /\ UNCHANGED <<recording, rec, settled>>
  <2>1. /\ start' = [start EXCEPT ![r] = "over"]
        /\ watch' = [watch EXCEPT ![r] = "on"]
        /\ recording' = recording /\ made' = made /\ rec' = rec /\ pauser' = pauser /\ stopper' = stopper
        /\ tossing' = tossing /\ settled' = settled
        /\ start[r] = "settles"
        /\ ~rec[r].stopped /\ rec[r].child = "live"
    BY <1>3 DEF StartSettles, Gone
  <2>2. RecorderShapes'
    BY <2>1, <1>0, RecsAre DEF RecorderShapes, Only, NotPausing, NotStopping
  <2>3. RecordedInv'
    BY <2>1, <1>0, RecsAre DEF RecorderShapes, RecordedInv, RecordedAt, StopInv, StopAt, Registered, Only
  <2>4. StopInv'
    BY <2>1, <1>0, RecsAre DEF RecorderShapes, RecordedInv, RecordedAt, StopInv, StopAt, Registered, Only, NotStopping
  <2>. QED
    BY <2>2, <2>3, <2>4
<1>4. CASE /\ rec[r].mode = "page"
       /\ start' = [start EXCEPT ![r] = "asks"] /\ UNCHANGED <<recording, rec, watch, settled>>
  <2>1. /\ start' = [start EXCEPT ![r] = "asks"]
        /\ recording' = recording /\ made' = made /\ rec' = rec /\ watch' = watch /\ pauser' = pauser
        /\ stopper' = stopper /\ tossing' = tossing /\ settled' = settled
        /\ start[r] = "settles"
        /\ rec[r].mode = "page"
    BY <1>4 DEF StartSettles
  <2>2. RecorderShapes'
    BY <2>1, <1>0, RecsAre DEF RecorderShapes, Only, NotPausing, NotStopping
  <2>3. RecordedInv'
    BY <2>1, <1>0, RecsAre DEF RecorderShapes, RecordedInv, RecordedAt, StopInv, StopAt, Registered, Only
  <2>4. StopInv'
    BY <2>1, <1>0, RecsAre DEF RecorderShapes, RecordedInv, RecordedAt, StopInv, StopAt, Registered, Only, NotStopping
  <2>. QED
    BY <2>2, <2>3, <2>4
<1>. QED
  BY <1>1, <1>2, <1>3, <1>4 DEF StartSettles

(* The first picture.                                                      *)
LEMMA ShowsStep ==
  ASSUME RecorderInductive, NEW r \in Recs, NEW pictured \in BOOLEAN, StartShows(r, pictured)
  PROVE  RecorderInductive'
<1>. USE DEF RecorderInductive
<1>0. RecorderShapes /\ RecordedInv /\ StopInv
  OBVIOUS
<1>1. CASE pictured /\ Filming(r)
  <2>1. /\ Only(r)
        /\ rec'[r].mode = rec[r].mode /\ (rec'[r].stopped <=> rec[r].stopped)
        /\ rec'[r].child = rec[r].child /\ rec'[r].kept /\ (rec'[r].dir <=> rec[r].dir)
        /\ start' = [start EXCEPT ![r] = "pictured"]
        /\ recording' = recording /\ made' = made /\ watch' = watch /\ pauser' = pauser /\ stopper' = stopper
        /\ tossing' = tossing /\ settled' = settled
        /\ start[r] = "asks"
    BY <1>1, KeptEffect DEF StartShows
  <2>2. RecorderShapes'
    BY <2>1, <1>0, RecsAre DEF RecorderShapes, Only, NotPausing, NotStopping
  <2>3. RecordedInv'
    BY <2>1, <1>0, RecsAre DEF RecorderShapes, RecordedInv, RecordedAt, StopInv, StopAt, Registered, Only
  <2>4. StopInv'
    BY <2>1, <1>0, RecsAre DEF RecorderShapes, RecordedInv, RecordedAt, StopInv, StopAt, Registered, Only, NotStopping
  <2>. QED
    BY <2>2, <2>3, <2>4
<1>2. CASE ~(pictured /\ Filming(r))
  <2>1. /\ start' = [start EXCEPT ![r] = start'[r]]
        /\ start'[r] \in {"pictured", "blank"}
        /\ recording' = recording /\ made' = made /\ rec' = rec /\ watch' = watch /\ pauser' = pauser
        /\ stopper' = stopper /\ tossing' = tossing /\ settled' = settled
        /\ start[r] = "asks"
    BY <1>2, <1>0 DEF StartShows, RecorderShapes
  <2>2. RecorderShapes'
    BY <2>1, <1>0, RecsAre DEF RecorderShapes, Only, NotPausing, NotStopping
  <2>3. RecordedInv'
    BY <2>1, <1>0, RecsAre DEF RecorderShapes, RecordedInv, RecordedAt, StopInv, StopAt, Registered, Only
  <2>4. StopInv'
    BY <2>1, <1>0, RecsAre DEF RecorderShapes, RecordedInv, RecordedAt, StopInv, StopAt, Registered, Only, NotStopping
  <2>. QED
    BY <2>2, <2>3, <2>4
<1>. QED
  BY <1>1, <1>2 DEF StartShows

(* The start comes back.                                                   *)
LEMMA EndsStep ==
  ASSUME RecorderInductive, NEW r \in Recs, StartEnds(r)
  PROVE  RecorderInductive'
<1>. USE DEF RecorderInductive
<1>0. RecorderShapes /\ RecordedInv /\ StopInv
  OBVIOUS
<1>1. CASE rec[r].stopped /\ Refused(r) /\ UNCHANGED <<recording, rec, watch>>
  <2>1. /\ start' = [start EXCEPT ![r] = "over"]
        /\ settled' = settled \cup {r}
        /\ recording' = recording /\ made' = made /\ rec' = rec /\ watch' = watch /\ pauser' = pauser
        /\ stopper' = stopper /\ tossing' = tossing
        /\ start[r] \in {"pictured", "blank"}
    BY <1>1 DEF StartEnds, Refused, Gone
  <2>2. RecorderShapes'
    BY <2>1, <1>0, RecsAre DEF RecorderShapes, Only, NotPausing, NotStopping
  <2>3. RecordedInv'
    BY <2>1, <1>0, RecsAre DEF RecorderShapes, RecordedInv, RecordedAt, StopInv, StopAt, Registered, Only
  <2>4. StopInv'
    BY <2>1, <1>0, RecsAre DEF RecorderShapes, RecordedInv, RecordedAt, StopInv, StopAt, Registered, Only, NotStopping
  <2>. QED
    BY <2>2, <2>3, <2>4
<1>2. CASE Fails(r)
  <2>1. /\ Only(r)
        /\ rec'[r].mode = rec[r].mode /\ rec'[r].stopped
        /\ rec'[r].child = rec[r].child /\ (rec'[r].kept <=> rec[r].kept) /\ (rec'[r].dir <=> rec[r].dir)
        /\ start' = [start EXCEPT ![r] = "over"]
        /\ recording' = IF recording = r THEN 0 ELSE recording
        /\ settled' = settled \cup {r}
        /\ made' = made /\ watch' = watch /\ pauser' = pauser /\ stopper' = stopper /\ tossing' = tossing
        /\ start[r] \in {"pictured", "blank"}
    BY <1>2, StoppedEffect DEF StartEnds, Fails, Refused, Gone, Forget
  <2>2. RecorderShapes'
    BY <2>1, <1>0, RecsAre DEF RecorderShapes, Only, NotPausing, NotStopping
  <2>3. RecordedInv'
    BY <2>1, <1>0, RecsAre DEF RecorderShapes, RecordedInv, RecordedAt, StopInv, StopAt, Registered, Only
  <2>4. StopInv'
    BY <2>1, <1>0, RecsAre DEF RecorderShapes, RecordedInv, RecordedAt, StopInv, StopAt, Registered, Only, NotStopping
  <2>. QED
    BY <2>2, <2>3, <2>4
<1>3. CASE /\ ~rec[r].stopped
       /\ watch' = [watch EXCEPT ![r] = "on"]
       /\ Gone(r) /\ UNCHANGED <<recording, rec, settled>>
  <2>1. /\ start' = [start EXCEPT ![r] = "over"]
        /\ watch' = [watch EXCEPT ![r] = "on"]
        /\ recording' = recording /\ made' = made /\ rec' = rec /\ pauser' = pauser /\ stopper' = stopper
        /\ tossing' = tossing /\ settled' = settled
        /\ start[r] \in {"pictured", "blank"}
        /\ ~rec[r].stopped
    BY <1>3 DEF StartEnds, Gone
  <2>2. RecorderShapes'
    BY <2>1, <1>0, RecsAre DEF RecorderShapes, Only, NotPausing, NotStopping
  <2>3. RecordedInv'
    BY <2>1, <1>0, RecsAre DEF RecorderShapes, RecordedInv, RecordedAt, StopInv, StopAt, Registered, Only
  <2>4. StopInv'
    BY <2>1, <1>0, RecsAre DEF RecorderShapes, RecordedInv, RecordedAt, StopInv, StopAt, Registered, Only, NotStopping
  <2>. QED
    BY <2>2, <2>3, <2>4
<1>. QED
  BY <1>1, <1>2, <1>3 DEF StartEnds

(* A frame: the recording is in the registry until it is stopped.          *)
LEMMA FrameStep ==
  ASSUME RecorderInductive, NEW r \in Recs, Frame(r)
  PROVE  RecorderInductive'
<1>. USE DEF RecorderInductive
<1>0. RecorderShapes /\ RecordedInv /\ StopInv
  OBVIOUS
<1>1. CASE rec' = [rec EXCEPT ![r].kept = TRUE]
  <2>1. /\ Only(r)
        /\ rec'[r].mode = rec[r].mode /\ (rec'[r].stopped <=> rec[r].stopped)
        /\ rec'[r].child = rec[r].child /\ rec'[r].kept /\ (rec'[r].dir <=> rec[r].dir)
        /\ recording' = recording /\ made' = made /\ start' = start /\ watch' = watch /\ pauser' = pauser
        /\ stopper' = stopper /\ tossing' = tossing /\ settled' = settled
        /\ ~rec[r].stopped
    BY <1>1, KeptEffect DEF Frame, Filming, IsOver
  <2>2. RecorderShapes'
    BY <2>1, <1>0, RecsAre DEF RecorderShapes, Only, NotPausing, NotStopping
  <2>3. RecordedInv'
    BY <2>1, <1>0, RecsAre DEF RecorderShapes, RecordedInv, RecordedAt, StopInv, StopAt, Registered, Only
  <2>4. StopInv'
    BY <2>1, <1>0, RecsAre DEF RecorderShapes, RecordedInv, RecordedAt, StopInv, StopAt, Registered, Only, NotStopping
  <2>. QED
    BY <2>2, <2>3, <2>4
<1>2. CASE rec' = [rec EXCEPT ![r].limit = TRUE]
  <2>1. /\ Only(r)
        /\ rec'[r].mode = rec[r].mode /\ (rec'[r].stopped <=> rec[r].stopped)
        /\ rec'[r].child = rec[r].child /\ (rec'[r].kept <=> rec[r].kept) /\ (rec'[r].dir <=> rec[r].dir)
        /\ recording' = recording /\ made' = made /\ start' = start /\ watch' = watch /\ pauser' = pauser
        /\ stopper' = stopper /\ tossing' = tossing /\ settled' = settled
    BY <1>2, LimitEffect DEF Frame
  <2>2. RecorderShapes'
    BY <2>1, <1>0, RecsAre DEF RecorderShapes, Only, NotPausing, NotStopping
  <2>3. RecordedInv'
    BY <2>1, <1>0, RecsAre DEF RecorderShapes, RecordedInv, RecordedAt, StopInv, StopAt, Registered, Only
  <2>4. StopInv'
    BY <2>1, <1>0, RecsAre DEF RecorderShapes, RecordedInv, RecordedAt, StopInv, StopAt, Registered, Only, NotStopping
  <2>. QED
    BY <2>2, <2>3, <2>4
<1>. QED
  BY <1>1, <1>2 DEF Frame

(* A process that ended still has its stretch.                             *)
LEMMA ProcessStep ==
  ASSUME RecorderInductive, NEW r \in Recs, ProcessEnds(r)
  PROVE  RecorderInductive'
<1>. USE DEF RecorderInductive
<1>0. RecorderShapes /\ RecordedInv /\ StopInv
  OBVIOUS
<1>1. /\ Only(r)
        /\ rec'[r].mode = rec[r].mode /\ (rec'[r].stopped <=> rec[r].stopped)
        /\ rec'[r].child = "dead" /\ (rec'[r].kept <=> rec[r].kept) /\ (rec'[r].dir <=> rec[r].dir)
        /\ recording' = recording /\ made' = made /\ start' = start /\ watch' = watch /\ pauser' = pauser
        /\ stopper' = stopper /\ tossing' = tossing /\ settled' = settled
        /\ rec[r].child = "live"
  BY ChildEffect DEF ProcessEnds
<1>2. RecorderShapes'
  BY <1>1, <1>0, RecsAre DEF RecorderShapes, Only, NotPausing, NotStopping
<1>3. RecordedInv'
  BY <1>1, <1>0, RecsAre DEF RecorderShapes, RecordedInv, RecordedAt, StopInv, StopAt, Registered, Only
<1>4. StopInv'
  BY <1>1, <1>0, RecsAre DEF RecorderShapes, RecordedInv, RecordedAt, StopInv, StopAt, Registered, Only, NotStopping
<1>. QED
  BY <1>2, <1>3, <1>4

(* The watchdog keeps the stretch it ends.                                 *)
LEMMA WatchesStep ==
  ASSUME RecorderInductive, NEW r \in Recs, Watches(r)
  PROVE  RecorderInductive'
<1>. USE DEF RecorderInductive
<1>0. RecorderShapes /\ RecordedInv /\ StopInv
  OBVIOUS
<1>1. CASE /\ watch[r] = "on" /\ watch' = [watch EXCEPT ![r] = "cap"]
       /\ rec' = [rec EXCEPT ![r].limit = TRUE]
  <2>1. /\ Only(r)
        /\ rec'[r].mode = rec[r].mode /\ (rec'[r].stopped <=> rec[r].stopped)
        /\ rec'[r].child = rec[r].child /\ (rec'[r].kept <=> rec[r].kept) /\ (rec'[r].dir <=> rec[r].dir)
        /\ watch' = [watch EXCEPT ![r] = "cap"]
        /\ recording' = recording /\ made' = made /\ start' = start /\ pauser' = pauser /\ stopper' = stopper
        /\ tossing' = tossing /\ settled' = settled
    BY <1>1, LimitEffect DEF Watches
  <2>2. RecorderShapes'
    BY <2>1, <1>0, RecsAre DEF RecorderShapes, Only, NotPausing, NotStopping
  <2>3. RecordedInv'
    BY <2>1, <1>0, RecsAre DEF RecorderShapes, RecordedInv, RecordedAt, StopInv, StopAt, Registered, Only
  <2>4. StopInv'
    BY <2>1, <1>0, RecsAre DEF RecorderShapes, RecordedInv, RecordedAt, StopInv, StopAt, Registered, Only, NotStopping
  <2>. QED
    BY <2>2, <2>3, <2>4
<1>2. CASE watch' = [watch EXCEPT ![r] = "off"] /\ rec' = [rec EXCEPT ![r] = SegmentEnded(r)]
  <2>1. /\ Only(r)
        /\ rec'[r].mode = rec[r].mode /\ (rec'[r].stopped <=> rec[r].stopped)
        /\ rec'[r].child = "none" /\ (rec'[r].kept <=> rec[r].kept \/ (rec[r].mode = "window" /\ rec[r].child # "none")) /\ (rec'[r].dir <=> rec[r].dir)
        /\ watch' = [watch EXCEPT ![r] = "off"]
        /\ recording' = recording /\ made' = made /\ start' = start /\ pauser' = pauser /\ stopper' = stopper
        /\ tossing' = tossing /\ settled' = settled
    BY <1>2, SegmentEffect DEF Watches
  <2>2. RecorderShapes'
    BY <2>1, <1>0, RecsAre DEF RecorderShapes, Only, NotPausing, NotStopping
  <2>3. RecordedInv'
    BY <2>1, <1>0, RecsAre DEF RecorderShapes, RecordedInv, RecordedAt, StopInv, StopAt, Registered, Only
  <2>4. StopInv'
    BY <2>1, <1>0, RecsAre DEF RecorderShapes, RecordedInv, RecordedAt, StopInv, StopAt, Registered, Only, NotStopping
  <2>. QED
    BY <2>2, <2>3, <2>4
<1>3. CASE /\ rec[r].mode = "page" /\ rec' = [rec EXCEPT ![r].child = "none"] /\ UNCHANGED watch
  <2>1. /\ Only(r)
        /\ rec'[r].mode = rec[r].mode /\ (rec'[r].stopped <=> rec[r].stopped)
        /\ rec'[r].child = "none" /\ (rec'[r].kept <=> rec[r].kept) /\ (rec'[r].dir <=> rec[r].dir)
        /\ recording' = recording /\ made' = made /\ start' = start /\ watch' = watch /\ pauser' = pauser
        /\ stopper' = stopper /\ tossing' = tossing /\ settled' = settled
        /\ rec[r].mode = "page"
    BY <1>3, ChildEffect DEF Watches
  <2>2. RecorderShapes'
    BY <2>1, <1>0, RecsAre DEF RecorderShapes, Only, NotPausing, NotStopping
  <2>3. RecordedInv'
    BY <2>1, <1>0, RecsAre DEF RecorderShapes, RecordedInv, RecordedAt, StopInv, StopAt, Registered, Only
  <2>4. StopInv'
    BY <2>1, <1>0, RecsAre DEF RecorderShapes, RecordedInv, RecordedAt, StopInv, StopAt, Registered, Only, NotStopping
  <2>. QED
    BY <2>2, <2>3, <2>4
<1>. QED
  BY <1>1, <1>2, <1>3 DEF Watches

(* What was thrown away goes.                                              *)
LEMMA TossStep ==
  ASSUME RecorderInductive, NEW r \in Recs, DiscardEnds(r)
  PROVE  RecorderInductive'
<1>. USE DEF RecorderInductive
<1>0. RecorderShapes /\ RecordedInv /\ StopInv
  OBVIOUS
<1>1. /\ Only(r)
        /\ rec'[r].mode = rec[r].mode /\ (rec'[r].stopped <=> rec[r].stopped)
        /\ ~rec'[r].dir
        /\ tossing' = tossing \ {r}
        /\ recording' = recording /\ made' = made /\ start' = start /\ watch' = watch /\ pauser' = pauser
        /\ stopper' = stopper /\ settled' = settled
        /\ r \in settled
  BY TossedEffect DEF DiscardEnds, RecorderShapes
<1>2. RecorderShapes'
  BY <1>1, <1>0, RecsAre DEF RecorderShapes, Only, NotPausing, NotStopping
<1>3. RecordedInv'
  BY <1>1, <1>0, RecsAre DEF RecorderShapes, RecordedInv, RecordedAt, StopInv, StopAt, Registered, Only
<1>4. StopInv'
  BY <1>1, <1>0, RecsAre DEF RecorderShapes, RecordedInv, RecordedAt, StopInv, StopAt, Registered, Only, NotStopping
<1>. QED
  BY <1>2, <1>3, <1>4

(* Only what nobody has is let go.                                         *)
LEMMA DropsStep ==
  ASSUME RecorderInductive, NEW r \in Recs, Drops(r)
  PROVE  RecorderInductive'
<1>. USE DEF RecorderInductive
<1>0. RecorderShapes /\ RecordedInv /\ StopInv
  OBVIOUS
<1>1. /\ Only(r)
        /\ rec'[r].mode = "page" /\ rec'[r].stopped
        /\ rec'[r].child = "none" /\ ~rec'[r].kept /\ ~rec'[r].dir
        /\ watch' = [watch EXCEPT ![r] = "off"]
        /\ recording' = recording /\ made' = made /\ start' = start /\ pauser' = pauser /\ stopper' = stopper
        /\ tossing' = tossing /\ settled' = settled
        /\ \A k \in Stoppers : stopper[k].of # r
        /\ start[r] = "over"
  BY ReleasedEffect DEF Drops, Owned
<1>2. RecorderShapes'
  BY <1>1, <1>0, RecsAre DEF RecorderShapes, Only, NotPausing, NotStopping
<1>3. RecordedInv'
  BY <1>1, <1>0, RecsAre DEF RecorderShapes, RecordedInv, RecordedAt, StopInv, StopAt, Registered, Only
<1>4. StopInv'
  BY <1>1, <1>0, RecsAre DEF RecorderShapes, RecordedInv, RecordedAt, StopInv, StopAt, Registered, Only, NotStopping
<1>. QED
  BY <1>2, <1>3, <1>4

(* A recording begins: nothing before it was still to be saved.            *)
LEMMA StartsStep ==
  ASSUME RecorderInductive, NEW mic \in BOOLEAN, Starts(mic)
  PROVE  RecorderInductive'
<1>. USE DEF RecorderInductive
<1>0. RecorderShapes /\ RecordedInv /\ StopInv
  OBVIOUS
<1>. DEFINE r == made + 1
<1>a. r \in Recs /\ recording = 0 /\ r > made
  BY <1>0, RecsAre DEF Starts, RecorderShapes
<1>b. Modes[r] \in {"window", "page"}
  BY <1>a, RecorderAssumption DEF Recs
<1>c. rec' = [rec EXCEPT ![r] = Fresh(Modes[r])]
  BY DEF Starts
<1>1. /\ Only(r)
        /\ rec'[r].mode = Modes[r] /\ ~rec'[r].stopped
        /\ rec'[r].child = "none" /\ ~rec'[r].kept /\ rec'[r].dir
        /\ made' = r
        /\ recording' = r
        /\ start' = [start EXCEPT ![r] = start'[r]]
        /\ start'[r] \in {"begins", "asks"}
        /\ (start'[r] = "asks" => Modes[r] = "page")
        /\ watch' = watch /\ pauser' = pauser /\ stopper' = stopper /\ tossing' = tossing /\ settled' = settled
        /\ recording = 0
        /\ r \in Recs
        /\ r = made + 1
  BY <1>a, <1>b, <1>c, FreshEffect DEF Starts, RecorderShapes
<1>. HIDE DEF r
<1>2. RecorderShapes'
  BY <1>1, <1>0, RecsAre DEF RecorderShapes, Only, NotPausing, NotStopping
<1>3. RecordedInv'
  BY <1>1, <1>0, RecsAre DEF RecorderShapes, RecordedInv, RecordedAt, StopInv, StopAt, Registered, Only
<1>4. StopInv'
  BY <1>1, <1>0, RecsAre DEF RecorderShapes, RecordedInv, RecordedAt, StopInv, StopAt, Registered, Only, NotStopping
<1>. QED
  BY <1>2, <1>3, <1>4

(* A pause or a resume.                                                    *)
LEMMA PausesStep ==
  ASSUME RecorderInductive, NEW to \in BOOLEAN, Pauses(to)
  PROVE  RecorderInductive'
<1>. USE DEF RecorderInductive
<1>0. RecorderShapes /\ RecordedInv /\ StopInv
  OBVIOUS
<1>. DEFINE r == recording
<1>a. r \in Recs /\ r # 0 /\ r <= made
  BY <1>0, RecsAre DEF Pauses, RecorderShapes
<1>1. /\ Only(r)
        /\ rec'[r].mode = rec[r].mode /\ (rec'[r].stopped <=> rec[r].stopped)
        /\ rec'[r].child = rec[r].child /\ (rec'[r].kept <=> rec[r].kept) /\ (rec'[r].dir <=> rec[r].dir)
        /\ pauser' \in [of : 0 .. made, to : BOOLEAN]
        /\ recording' = recording /\ made' = made /\ start' = start /\ watch' = watch /\ stopper' = stopper
        /\ tossing' = tossing /\ settled' = settled
        /\ r \in Recs
  BY <1>a, PausedEffect DEF Pauses, RecorderShapes
<1>. HIDE DEF r
<1>2. RecorderShapes'
  BY <1>1, <1>0, RecsAre DEF RecorderShapes, Only, NotPausing, NotStopping
<1>3. RecordedInv'
  BY <1>1, <1>0, RecsAre DEF RecorderShapes, RecordedInv, RecordedAt, StopInv, StopAt, Registered, Only
<1>4. StopInv'
  BY <1>1, <1>0, RecsAre DEF RecorderShapes, RecordedInv, RecordedAt, StopInv, StopAt, Registered, Only, NotStopping
<1>. QED
  BY <1>2, <1>3, <1>4

(* What is thrown away is settled.                                         *)
LEMMA DiscardsStep ==
  ASSUME RecorderInductive, Discards
  PROVE  RecorderInductive'
<1>. USE DEF RecorderInductive
<1>0. RecorderShapes /\ RecordedInv /\ StopInv
  OBVIOUS
<1>. DEFINE r == recording
<1>a. r \in Recs /\ r # 0 /\ r <= made
  BY <1>0, RecsAre DEF Discards, RecorderShapes
<1>b. start[r] # "none"
  BY <1>0, <1>a, RecsAre DEF RecorderShapes
<1>1. /\ Only(r)
        /\ rec'[r].mode = rec[r].mode /\ rec'[r].stopped
        /\ rec'[r].child = rec[r].child /\ (rec'[r].kept <=> rec[r].kept) /\ (rec'[r].dir <=> rec[r].dir)
        /\ recording' = 0
        /\ tossing' = tossing \cup {r}
        /\ settled' = settled \cup {r}
        /\ made' = made /\ start' = start /\ watch' = watch /\ pauser' = pauser /\ stopper' = stopper
        /\ r \in Recs
        /\ r = recording
        /\ start[r] # "none"
  BY <1>0, <1>a, <1>b, StoppedEffect DEF Discards
<1>. HIDE DEF r
<1>2. RecorderShapes'
  BY <1>1, <1>0, RecsAre DEF RecorderShapes, Only, NotPausing, NotStopping
<1>3. RecordedInv'
  BY <1>1, <1>0, RecsAre DEF RecorderShapes, RecordedInv, RecordedAt, StopInv, StopAt, Registered, Only
<1>4. StopInv'
  BY <1>1, <1>0, RecsAre DEF RecorderShapes, RecordedInv, RecordedAt, StopInv, StopAt, Registered, Only, NotStopping
<1>. QED
  BY <1>2, <1>3, <1>4

(* A stop takes up what the registry has.                                  *)
LEMMA LooksStep ==
  ASSUME RecorderInductive, NEW k \in Stoppers, StopLooks(k)
  PROVE  RecorderInductive'
<1>. USE DEF RecorderInductive
<1>0. RecorderShapes /\ RecordedInv /\ StopInv
  OBVIOUS
<1>. DEFINE r == recording
<1>a. r \in Recs /\ r # 0 /\ r <= made
  BY <1>0, RecsAre DEF StopLooks, RecorderShapes
<1>1. /\ stopper' = [stopper EXCEPT ![k] = [at |-> "found", of |-> r]]
        /\ recording' = recording /\ made' = made /\ rec' = rec /\ start' = start /\ watch' = watch
        /\ pauser' = pauser /\ tossing' = tossing /\ settled' = settled
        /\ r \in Recs
        /\ r # 0 /\ r <= made
  BY <1>a DEF StopLooks
<1>. HIDE DEF r
<1>2. RecorderShapes'
  BY <1>1, <1>0, RecsAre DEF RecorderShapes, Only, NotPausing, NotStopping
<1>3. RecordedInv'
  BY <1>1, <1>0, RecsAre DEF RecorderShapes, RecordedInv, RecordedAt, StopInv, StopAt, Registered, Only
<1>4. StopInv'
  BY <1>1, <1>0, RecsAre DEF RecorderShapes, RecordedInv, RecordedAt, StopInv, StopAt, Registered, Only, NotStopping
<1>. QED
  BY <1>2, <1>3, <1>4

(* The last stretch is kept before it is encoded.                          *)
LEMMA EncodesStep ==
  ASSUME RecorderInductive, NEW k \in Stoppers, Encodes(k)
  PROVE  RecorderInductive'
<1>. USE DEF RecorderInductive
<1>0. RecorderShapes /\ RecordedInv /\ StopInv
  OBVIOUS
<1>. DEFINE r == stopper[k].of
<1>a. r \in Recs /\ stopper[k].of = r /\ r <= made
  BY <1>0, RecsAre DEF Encodes, RecorderShapes
<1>1. /\ Only(r)
        /\ rec'[r].mode = rec[r].mode /\ (rec'[r].stopped <=> rec[r].stopped)
        /\ rec'[r].child = "none" /\ (rec'[r].kept <=> rec[r].kept \/ (rec[r].mode = "window" /\ rec[r].child # "none")) /\ (rec'[r].dir <=> rec[r].dir)
        /\ stopper' = [stopper EXCEPT ![k].at = "encoding"]
        /\ recording' = recording /\ made' = made /\ start' = start /\ watch' = watch /\ pauser' = pauser
        /\ tossing' = tossing /\ settled' = settled
        /\ r \in Recs
        /\ stopper[k].of = r
        /\ stopper[k].at = "begun"
  BY <1>a, SegmentEffect DEF Encodes
<1>. HIDE DEF r
<1>2. RecorderShapes'
  BY <1>1, <1>0, RecsAre DEF RecorderShapes, Only, NotPausing, NotStopping
<1>3. RecordedInv'
  BY <1>1, <1>0, RecsAre DEF RecorderShapes, RecordedInv, RecordedAt, StopInv, StopAt, Registered, Only
<1>4. StopInv'
  <2>1. ASSUME NEW j \in Stoppers PROVE StopAt(j)'
    BY <1>1, <1>0, RecsAre DEF RecorderShapes, RecordedInv, RecordedAt, StopInv, StopAt, Registered, Only, NotStopping
  <2>. QED
    BY <2>1 DEF StopInv
<1>. QED
  BY <1>2, <1>3, <1>4

(* A stretch ends, or a new one begins where there is none.                *)
LEMMA PauseActsStep ==
  ASSUME RecorderInductive, PauseActs
  PROVE  RecorderInductive'
<1>. USE DEF RecorderInductive
<1>0. RecorderShapes /\ RecordedInv /\ StopInv
  OBVIOUS
<1>. DEFINE r == pauser.of
<1>a. r \in Recs /\ r <= made
  BY <1>0, RecsAre DEF PauseActs, RecorderShapes
<1>1. CASE rec' = [rec EXCEPT ![r] = SegmentEnded(r)]
  <2>1. /\ Only(r)
        /\ rec'[r].mode = rec[r].mode /\ (rec'[r].stopped <=> rec[r].stopped)
        /\ rec'[r].child = "none" /\ (rec'[r].kept <=> rec[r].kept \/ (rec[r].mode = "window" /\ rec[r].child # "none")) /\ (rec'[r].dir <=> rec[r].dir)
        /\ pauser' = NotPausing
        /\ recording' = recording /\ made' = made /\ start' = start /\ watch' = watch /\ stopper' = stopper
        /\ tossing' = tossing /\ settled' = settled
        /\ r \in Recs
    BY <1>1, <1>a, SegmentEffect DEF PauseActs
  <2>. HIDE DEF r
  <2>2. RecorderShapes'
    BY <2>1, <1>0, RecsAre DEF RecorderShapes, Only, NotPausing, NotStopping
  <2>3. RecordedInv'
    BY <2>1, <1>0, RecsAre DEF RecorderShapes, RecordedInv, RecordedAt, StopInv, StopAt, Registered, Only
  <2>4. StopInv'
    BY <2>1, <1>0, RecsAre DEF RecorderShapes, RecordedInv, RecordedAt, StopInv, StopAt, Registered, Only, NotStopping
  <2>. QED
    BY <2>2, <2>3, <2>4
<1>2. CASE rec[r].child = "none" /\ \E child \in {"none", "live"} : rec' = [rec EXCEPT ![r].child = child]
  <2>1. /\ Only(r)
        /\ rec'[r].mode = rec[r].mode /\ (rec'[r].stopped <=> rec[r].stopped)
        /\ rec'[r].child = rec'[r].child /\ (rec'[r].kept <=> rec[r].kept) /\ (rec'[r].dir <=> rec[r].dir)
        /\ pauser' = NotPausing
        /\ recording' = recording /\ made' = made /\ start' = start /\ watch' = watch /\ stopper' = stopper
        /\ tossing' = tossing /\ settled' = settled
        /\ r \in Recs
        /\ rec[r].child = "none"
    BY <1>2, <1>a, ChildEffect DEF PauseActs
  <2>. HIDE DEF r
  <2>2. RecorderShapes'
    BY <2>1, <1>0, RecsAre DEF RecorderShapes, Only, NotPausing, NotStopping
  <2>3. RecordedInv'
    BY <2>1, <1>0, RecsAre DEF RecorderShapes, RecordedInv, RecordedAt, StopInv, StopAt, Registered, Only
  <2>4. StopInv'
    BY <2>1, <1>0, RecsAre DEF RecorderShapes, RecordedInv, RecordedAt, StopInv, StopAt, Registered, Only, NotStopping
  <2>. QED
    BY <2>2, <2>3, <2>4
<1>3. CASE UNCHANGED rec
  <2>1. /\ pauser' = NotPausing
        /\ recording' = recording /\ made' = made /\ rec' = rec /\ start' = start /\ watch' = watch
        /\ stopper' = stopper /\ tossing' = tossing /\ settled' = settled
        /\ r \in Recs
    BY <1>3, <1>a, <1>0 DEF PauseActs
  <2>. HIDE DEF r
  <2>2. RecorderShapes'
    BY <2>1, <1>0, RecsAre DEF RecorderShapes, Only, NotPausing, NotStopping
  <2>3. RecordedInv'
    BY <2>1, <1>0, RecsAre DEF RecorderShapes, RecordedInv, RecordedAt, StopInv, StopAt, Registered, Only
  <2>4. StopInv'
    BY <2>1, <1>0, RecsAre DEF RecorderShapes, RecordedInv, RecordedAt, StopInv, StopAt, Registered, Only, NotStopping
  <2>. QED
    BY <2>2, <2>3, <2>4
<1>. QED
  BY <1>1, <1>2, <1>3 DEF PauseActs

(* A stop that begins has stopped it.                                      *)
LEMMA BeginsStep ==
  ASSUME RecorderInductive, NEW k \in Stoppers, StopBegins(k)
  PROVE  RecorderInductive'
<1>. USE DEF RecorderInductive
<1>0. RecorderShapes /\ RecordedInv /\ StopInv
  OBVIOUS
<1>. DEFINE r == stopper[k].of
<1>a. r \in Recs /\ r <= made
  BY <1>0, RecsAre DEF StopBegins, RecorderShapes
<1>b. start[r] # "none"
  BY <1>0, <1>a, RecsAre DEF RecorderShapes
<1>1. CASE rec[r].finishing
  <2>1. /\ stopper' = [stopper EXCEPT ![k] = NotStopping]
        /\ recording' = recording /\ made' = made /\ rec' = rec /\ start' = start /\ watch' = watch
        /\ pauser' = pauser /\ tossing' = tossing /\ settled' = settled
        /\ r \in Recs
        /\ stopper[k].of = r
    BY <1>1, <1>a, <1>0 DEF StopBegins
  <2>. HIDE DEF r
  <2>2. RecorderShapes'
    BY <2>1, <1>0, RecsAre DEF RecorderShapes, Only, NotPausing, NotStopping
  <2>3. RecordedInv'
    BY <2>1, <1>0, RecsAre DEF RecorderShapes, RecordedInv, RecordedAt, StopInv, StopAt, Registered, Only
  <2>4. StopInv'
    BY <2>1, <1>0, RecsAre DEF RecorderShapes, RecordedInv, RecordedAt, StopInv, StopAt, Registered, Only, NotStopping
  <2>. QED
    BY <2>2, <2>3, <2>4
<1>2. CASE ~rec[r].finishing
  <2>1. /\ Only(r)
        /\ rec'[r].mode = rec[r].mode /\ rec'[r].stopped
        /\ rec'[r].child = rec[r].child /\ (rec'[r].kept <=> rec[r].kept) /\ (rec'[r].dir <=> rec[r].dir)
        /\ stopper' = [stopper EXCEPT ![k].at = "begun"]
        /\ recording' = recording /\ made' = made /\ start' = start /\ watch' = watch /\ pauser' = pauser
        /\ tossing' = tossing /\ settled' = settled
        /\ r \in Recs
        /\ stopper[k].of = r
    BY <1>2, <1>a, BegunEffect DEF StopBegins
  <2>. HIDE DEF r
  <2>2. RecorderShapes'
    BY <2>1, <1>0, RecsAre DEF RecorderShapes, Only, NotPausing, NotStopping
  <2>3. RecordedInv'
    <3>1. ASSUME NEW q \in Recs PROVE RecordedAt(q)'
      <4>1. CASE q = r
        BY <2>1, <1>0, <4>1 DEF RecorderShapes, RecordedInv, RecordedAt, StopInv, StopAt, Registered
      <4>2. CASE q # r
        BY <2>1, <1>0, <4>2, RecsAre DEF RecorderShapes, RecordedInv, RecordedAt, Registered, Only
      <4>. QED
        BY <4>1, <4>2
    <3>. QED
      BY <3>1 DEF RecordedInv
  <2>4. StopInv'
    <3>1. ASSUME NEW j \in Stoppers PROVE StopAt(j)'
      BY <2>1, <1>0, RecsAre DEF RecorderShapes, RecordedInv, RecordedAt, StopInv, StopAt, Registered, Only, NotStopping
    <3>. QED
      BY <3>1 DEF StopInv
  <2>. QED
    BY <2>2, <2>3, <2>4
<1>. QED
  BY <1>1, <1>2 DEF StopBegins

(* Saved, or not: what could not be saved is kept.                         *)
LEMMA EncodedStep ==
  ASSUME RecorderInductive, NEW k \in Stoppers, Encoded(k)
  PROVE  RecorderInductive'
<1>. USE DEF RecorderInductive
<1>0. RecorderShapes /\ RecordedInv /\ StopInv
  OBVIOUS
<1>. DEFINE r == stopper[k].of
<1>a. r \in Recs /\ r <= made
  BY <1>0, RecsAre DEF Encoded, RecorderShapes
<1>b. start[r] # "none"
  BY <1>0, <1>a, RecsAre DEF RecorderShapes
<1>1. CASE /\ stopper' = [stopper EXCEPT ![k].at = "saved"]
       /\ rec' = [rec EXCEPT ![r].dir = FALSE]
       /\ settled' = settled \cup {r}
  <2>1. /\ Only(r)
        /\ rec'[r].mode = rec[r].mode /\ (rec'[r].stopped <=> rec[r].stopped)
        /\ rec'[r].child = rec[r].child /\ (rec'[r].kept <=> rec[r].kept) /\ ~rec'[r].dir
        /\ stopper' = [stopper EXCEPT ![k].at = "saved"]
        /\ settled' = settled \cup {r}
        /\ recording' = recording /\ made' = made /\ start' = start /\ watch' = watch /\ pauser' = pauser
        /\ tossing' = tossing
        /\ r \in Recs
        /\ stopper[k].of = r
        /\ stopper[k].at = "encoding"
        /\ start[r] # "none"
    BY <1>1, <1>a, <1>0, <1>b, DirEffect DEF Encoded
  <2>. HIDE DEF r
  <2>2. RecorderShapes'
    BY <2>1, <1>0, RecsAre DEF RecorderShapes, Only, NotPausing, NotStopping
  <2>3. RecordedInv'
    BY <2>1, <1>0, RecsAre DEF RecorderShapes, RecordedInv, RecordedAt, StopInv, StopAt, Registered, Only
  <2>4. StopInv'
    BY <2>1, <1>0, RecsAre DEF RecorderShapes, RecordedInv, RecordedAt, StopInv, StopAt, Registered, Only, NotStopping
  <2>. QED
    BY <2>2, <2>3, <2>4
<1>2. CASE stopper' = [stopper EXCEPT ![k].at = "failed"] /\ UNCHANGED <<rec, settled>>
  <2>1. /\ stopper' = [stopper EXCEPT ![k].at = "failed"]
        /\ recording' = recording /\ made' = made /\ rec' = rec /\ start' = start /\ watch' = watch
        /\ pauser' = pauser /\ tossing' = tossing /\ settled' = settled
        /\ r \in Recs
        /\ stopper[k].of = r
        /\ stopper[k].at = "encoding"
    BY <1>2, <1>a, <1>0 DEF Encoded
  <2>. HIDE DEF r
  <2>2. RecorderShapes'
    BY <2>1, <1>0, RecsAre DEF RecorderShapes, Only, NotPausing, NotStopping
  <2>3. RecordedInv'
    BY <2>1, <1>0, RecsAre DEF RecorderShapes, RecordedInv, RecordedAt, StopInv, StopAt, Registered, Only
  <2>4. StopInv'
    BY <2>1, <1>0, RecsAre DEF RecorderShapes, RecordedInv, RecordedAt, StopInv, StopAt, Registered, Only, NotStopping
  <2>. QED
    BY <2>2, <2>3, <2>4
<1>. QED
  BY <1>1, <1>2 DEF Encoded

(* Only what is saved, or has nothing, leaves the registry.                *)
LEMMA SavesStep ==
  ASSUME RecorderInductive, NEW k \in Stoppers, SaveEnds(k)
  PROVE  RecorderInductive'
<1>. USE DEF RecorderInductive
<1>0. RecorderShapes /\ RecordedInv /\ StopInv
  OBVIOUS
<1>. DEFINE r == stopper[k].of
<1>a. r \in Recs /\ r <= made
  BY <1>0, RecsAre DEF SaveEnds, RecorderShapes
<1>b. start[r] # "none"
  BY <1>0, <1>a, RecsAre DEF RecorderShapes
<1>1. CASE stopper[k].at = "failed" /\ rec[r].kept
  <2>1. /\ Only(r)
        /\ rec'[r].mode = rec[r].mode /\ (rec'[r].stopped <=> rec[r].stopped)
        /\ rec'[r].child = rec[r].child /\ (rec'[r].kept <=> rec[r].kept) /\ (rec'[r].dir <=> rec[r].dir)
        /\ stopper' = [stopper EXCEPT ![k] = NotStopping]
        /\ recording' = recording /\ made' = made /\ start' = start /\ watch' = watch /\ pauser' = pauser
        /\ tossing' = tossing /\ settled' = settled
        /\ r \in Recs
        /\ stopper[k].of = r
    BY <1>1, <1>a, FinishedEffect DEF SaveEnds
  <2>. HIDE DEF r
  <2>2. RecorderShapes'
    BY <2>1, <1>0, RecsAre DEF RecorderShapes, Only, NotPausing, NotStopping
  <2>3. RecordedInv'
    BY <2>1, <1>0, RecsAre DEF RecorderShapes, RecordedInv, RecordedAt, StopInv, StopAt, Registered, Only
  <2>4. StopInv'
    BY <2>1, <1>0, RecsAre DEF RecorderShapes, RecordedInv, RecordedAt, StopInv, StopAt, Registered, Only, NotStopping
  <2>. QED
    BY <2>2, <2>3, <2>4
<1>2. CASE ~(stopper[k].at = "failed" /\ rec[r].kept)
  <2>1. /\ Only(r)
        /\ rec'[r].mode = rec[r].mode /\ (rec'[r].stopped <=> rec[r].stopped)
        /\ rec'[r].child = rec[r].child /\ (rec'[r].kept <=> rec[r].kept) /\ (rec'[r].dir <=> rec[r].dir)
        /\ stopper' = [stopper EXCEPT ![k] = NotStopping]
        /\ recording' = IF recording = r THEN 0 ELSE recording
        /\ made' = made /\ start' = start /\ watch' = watch /\ pauser' = pauser /\ tossing' = tossing
        /\ settled' = settled
        /\ r \in Recs
        /\ stopper[k].of = r
        /\ stopper[k].at \in {"saved", "failed"}
        /\ (stopper[k].at = "saved" \/ ~rec[r].kept)
    BY <1>2, <1>a, FinishedEffect DEF SaveEnds, Forget
  <2>. HIDE DEF r
  <2>2. RecorderShapes'
    BY <2>1, <1>0, RecsAre DEF RecorderShapes, Only, NotPausing, NotStopping
  <2>3. RecordedInv'
    BY <2>1, <1>0, RecsAre DEF RecorderShapes, RecordedInv, RecordedAt, StopInv, StopAt, Registered, Only
  <2>4. StopInv'
    BY <2>1, <1>0, RecsAre DEF RecorderShapes, RecordedInv, RecordedAt, StopInv, StopAt, Registered, Only, NotStopping
  <2>. QED
    BY <2>2, <2>3, <2>4
<1>. QED
  BY <1>1, <1>2 DEF SaveEnds

LEMMA RecorderStart == RecorderInit => RecorderInductive
<1>. SUFFICES ASSUME RecorderInit PROVE RecorderInductive
  OBVIOUS
<1>1. \A r \in Recs : rec[r] = Released /\ start[r] = "none" /\ watch[r] = "off"
  BY DEF RecorderInit
<1>2. Released \in RecRecords
  BY DEF Released, Fresh, RecRecords
<1>3. rec \in [Recs -> RecRecords]
  BY <1>2 DEF RecorderInit
<1>4. RecorderShapes
  BY <1>3, RecsAre DEF RecorderInit, RecorderShapes, NotPausing, NotStopping
<1>5. RecordedInv
  BY <1>1 DEF RecordedInv, RecordedAt
<1>6. StopInv
  BY DEF RecorderInit, StopInv, StopAt, NotStopping
<1>. QED
  BY <1>4, <1>5, <1>6 DEF RecorderInductive

LEMMA RecorderStill == RecorderInductive /\ UNCHANGED cVars => RecorderInductive'
  BY DEF RecorderInductive, RecorderShapes, RecordedInv, RecordedAt, StopInv, StopAt, Registered, cVars

LEMMA RecorderInvariance == RecorderSafety => []RecorderInductive
<1>1. RecorderInductive /\ [RecorderNext]_cVars => RecorderInductive'
  <2>. SUFFICES ASSUME RecorderInductive, RecorderNext PROVE RecorderInductive'
    BY RecorderStill
  <2>. QED
    BY StartsStep, CapturesStep, SettlesStep, EndsStep, ShowsStep, FrameStep, ProcessStep,
       WatchesStep, TossStep, DropsStep, PausesStep, PauseActsStep, DiscardsStep, LooksStep,
       BeginsStep, EncodesStep, EncodedStep, SavesStep DEF RecorderNext
<1>. QED
  BY RecorderStart, <1>1, PTL DEF RecorderSafety

(* A recording that did start stays in the registry, with its frames on    *)
(* the disk, until it is saved or thrown away, however stops, saves that   *)
(* fail, the watchdog and later recordings interleave                      *)
(* (screencast.rs: start, complete_stop, finish_detached, discard).        *)
THEOREM FramesAreKept == RecorderSafety => []FramesKept
<1>1. RecorderInductive => FramesKept
  <2>. SUFFICES ASSUME RecorderInductive PROVE FramesKept
    OBVIOUS
  <2>1. RecorderTypeOK
    BY RecsAre DEF RecorderInductive, RecorderShapes, RecorderTypeOK, RecRecords
  <2>2. ASSUME NEW r \in Recs, rec[r].kept, start[r] = "over", r \notin settled
        PROVE  recording = r /\ rec[r].dir
    BY <2>2 DEF RecorderInductive, RecordedInv, RecordedAt, Registered
  <2>. QED
    BY <2>1, <2>2 DEF FramesKept
<1>. QED
  BY RecorderInvariance, <1>1, PTL

-------------------------------------------------------------------------------
(* Subtitles.                                                              *)
Going == Starting \cup {"work"}

SubtitlesShapes ==
  /\ sessions \in 0 .. MaxSessions /\ entry \in 0 .. sessions /\ tap \in 0 .. sessions
  /\ at \in [Sessions -> Going \cup {"none", "over"}]
  /\ stopped \cup cleaning \cup unwanted \cup unheard \cup uncleaned \subseteq 1 .. sessions
  /\ \A b \in Sessions : b > sessions => at[b] = "none"

TapHeld ==
  tap # 0 => \/ tap = entry \/ tap \in cleaning \cup unheard \cup uncleaned
             \/ at[tap] = "installed"

SubtitlesInductive == SubtitlesShapes /\ EntryExact /\ TapHeld

(* A session's step, its end by itself included: what it may do to the     *)
(* registry.                                                               *)
LEMMA FinishEffect ==
  ASSUME SubtitlesInductive, NEW b \in Sessions, Finish(b)
  PROVE  /\ stopped' \subseteq 1 .. sessions /\ cleaning' \subseteq 1 .. sessions
         /\ entry' \in 0 .. sessions /\ entry' # b
         /\ \A c \in Sessions : c # b => (entry' = c <=> entry = c) /\ (c \in stopped' <=> c \in stopped)
         /\ cleaning \subseteq cleaning' /\ stopped \subseteq stopped'
         /\ entry = b => b \in cleaning'
<1>. USE SessionsAssumption DEF SubtitlesInductive, SubtitlesShapes
<1>1. CASE entry = b
  BY <1>1 DEF Finish, TakeOut, Sessions
<1>2. CASE entry # b
  BY <1>2 DEF Finish
<1>. QED
  BY <1>1, <1>2

(* Where a session ends that was the entry or had been stopped, the rest   *)
(* of the registry is as it was.                                           *)
LEMMA EndStep ==
  ASSUME SubtitlesInductive, NEW b \in Sessions, at[b] \in Going,
         at' = [at EXCEPT ![b] = "over"], Finish(b),
         UNCHANGED <<sessions, tap, unwanted, uncleaned>>, unheard \subseteq unheard',
         unheard' \subseteq 1 .. sessions, at[b] = "installed" => b \in cleaning' \cup unheard'
  PROVE  SubtitlesInductive'
<1>. USE SessionsAssumption, FinishEffect DEF SubtitlesInductive
<1>1. SubtitlesShapes'
  <2>1. at' \in [Sessions -> Going \cup {"none", "over"}]
    BY DEF SubtitlesShapes
  <2>2. ASSUME NEW c \in Sessions, c > sessions' PROVE at'[c] = "none"
    <3>1. at[c] = "none" /\ c # b
      BY <2>2 DEF SubtitlesShapes, Going, Starting
    <3>. QED
      BY <3>1 DEF SubtitlesShapes
  <2>3. entry' \in 0 .. sessions' /\ stopped' \cup cleaning' \subseteq 1 .. sessions'
    BY FinishEffect
  <2>4. /\ sessions' \in 0 .. MaxSessions /\ tap' \in 0 .. sessions'
        /\ unwanted' \cup unheard' \cup uncleaned' \subseteq 1 .. sessions'
    BY DEF SubtitlesShapes
  <2>. QED
    BY <2>1, <2>2, <2>3, <2>4 DEF SubtitlesShapes
<1>2. EntryExact'
  BY DEF EntryExact, SubtitlesShapes, Going, Starting
<1>3. TapHeld'
  BY DEF TapHeld, SubtitlesShapes, Sessions
<1>. QED
  BY <1>1, <1>2, <1>3

LEMMA SubtitlesStep ==
  SubtitlesInductive /\ [SubtitlesNext]_sVars => SubtitlesInductive'
<1>. SUFFICES ASSUME SubtitlesInductive, [SubtitlesNext]_sVars PROVE SubtitlesInductive'
  OBVIOUS
<1>. USE SessionsAssumption
<1>1. CASE BeginSession
  <2>. DEFINE s == sessions + 1
  <2>1. /\ sessions < MaxSessions /\ s \in Sessions /\ entry = 0
        /\ sessions' = s /\ entry' = s /\ at' = [at EXCEPT ![s] = "load"]
        /\ UNCHANGED <<stopped, cleaning, tap, unwanted, unheard, uncleaned>>
    BY <1>1 DEF BeginSession, SubtitlesInductive, SubtitlesShapes, Sessions
  <2>2. s \notin stopped /\ s \notin cleaning /\ s \notin unheard /\ at[s] = "none"
    BY <2>1 DEF SubtitlesInductive, SubtitlesShapes
  <2>3. SubtitlesShapes'
    BY <2>1, <2>2 DEF SubtitlesInductive, SubtitlesShapes, Sessions, Going, Starting
  <2>4. EntryExact'
    <3>1. at'[s] = "load" /\ \A c \in Sessions : c # s => at'[c] = at[c]
      BY <2>1 DEF SubtitlesInductive, SubtitlesShapes
    <3>2. \A c \in Sessions : c # s => ~(at'[c] \in Starting \cup {"work"} /\ c \notin stopped')
      BY <2>1, <3>1 DEF SubtitlesInductive, EntryExact, Sessions
    <3>. QED
      BY <2>1, <2>2, <3>1, <3>2 DEF SubtitlesInductive, EntryExact, Starting, Sessions
  <2>5. TapHeld'
    BY <2>1, <2>2 DEF SubtitlesInductive, SubtitlesShapes, TapHeld
  <2>. QED
    BY <2>3, <2>4, <2>5 DEF SubtitlesInductive
<1>2. CASE StopTab
  <2>1. /\ entry # 0 /\ entry' = 0 /\ stopped' = stopped \cup {entry}
        /\ cleaning' = cleaning \cup {entry} /\ unwanted' = unwanted \cup {entry}
        /\ UNCHANGED <<sessions, at, tap, unheard, uncleaned>>
    BY <1>2 DEF StopTab, TakeOut
  <2>. QED
    BY <2>1 DEF SubtitlesInductive, SubtitlesShapes, EntryExact, TapHeld, Sessions
<1>3. CASE PageLeaves
  BY <1>3 DEF PageLeaves, SubtitlesInductive, SubtitlesShapes, EntryExact, TapHeld
<1>4. ASSUME NEW b \in Sessions, ModelLoads(b) PROVE SubtitlesInductive'
  <2>1. CASE Reaches(b, "load", "install") /\ UNCHANGED <<entry, stopped, cleaning>>
    BY <1>4, <2>1 DEF ModelLoads, Reaches, SubtitlesInductive, SubtitlesShapes, EntryExact,
                      TapHeld, Sessions, Going, Starting
  <2>2. CASE b \in stopped /\ Reaches(b, "load", "over") /\ UNCHANGED <<entry, stopped, cleaning>>
    <3>1. Finish(b)
      BY <2>2 DEF Finish, SubtitlesInductive, EntryExact
    <3>. QED
      BY <1>4, <2>2, <3>1, EndStep
         DEF ModelLoads, Reaches, Going, Starting, SubtitlesInductive, SubtitlesShapes
  <2>3. CASE Reaches(b, "load", "over") /\ Finish(b)
    BY <1>4, <2>3, EndStep
       DEF ModelLoads, Reaches, Going, Starting, SubtitlesInductive, SubtitlesShapes
  <2>. QED
    BY <1>4, <2>1, <2>2, <2>3 DEF ModelLoads
<1>5. ASSUME NEW b \in Sessions, TapInstalls(b) PROVE SubtitlesInductive'
  <2>1. CASE Reaches(b, "install", "installed") /\ tap' = b /\ UNCHANGED <<entry, stopped, cleaning>>
    BY <1>5, <2>1 DEF TapInstalls, Reaches, SubtitlesInductive, SubtitlesShapes, EntryExact,
                      TapHeld, Sessions, Going, Starting
  <2>2. CASE ~(Reaches(b, "install", "installed") /\ tap' = b /\ UNCHANGED <<entry, stopped, cleaning>>)
    BY <1>5, <2>2, EndStep
       DEF TapInstalls, Reaches, Going, Starting, SubtitlesInductive, SubtitlesShapes
  <2>. QED
    BY <2>1, <2>2
<1>6. ASSUME NEW b \in Sessions, TapUnheard(b) PROVE SubtitlesInductive'
  <2>1. b \in 1 .. sessions
    BY <1>6 DEF TapUnheard, Reaches, Sessions, SubtitlesInductive, SubtitlesShapes
  <2>. QED
    BY <1>6, <2>1, EndStep
       DEF TapUnheard, Reaches, Going, Starting, SubtitlesInductive, SubtitlesShapes
<1>7. ASSUME NEW b \in Sessions, TapChecks(b) PROVE SubtitlesInductive'
  BY <1>7 DEF TapChecks, Reaches, SubtitlesInductive, SubtitlesShapes, EntryExact, TapHeld,
              Sessions, Going, Starting
<1>8. ASSUME NEW b \in Sessions, WorkEnds(b) PROVE SubtitlesInductive'
  BY <1>8, EndStep
     DEF WorkEnds, Reaches, Going, Starting, SubtitlesInductive, SubtitlesShapes
<1>9. ASSUME NEW b \in Sessions, PageCleaned(b) PROVE SubtitlesInductive'
  <2>1. /\ b \in 1 .. sessions /\ UNCHANGED <<sessions, entry, at, stopped, unwanted, unheard>>
        /\ cleaning' = cleaning \ {b}
    BY <1>9 DEF PageCleaned, SubtitlesInductive, SubtitlesShapes
  <2>2. \/ tap' = (IF tap = b THEN 0 ELSE tap) /\ uncleaned' = uncleaned
        \/ tap' = tap /\ uncleaned' = (IF tap = b THEN uncleaned \cup {b} ELSE uncleaned)
    BY <1>9 DEF PageCleaned
  <2>3. SubtitlesShapes' /\ EntryExact'
    BY <2>1, <2>2 DEF SubtitlesInductive, SubtitlesShapes, EntryExact
  <2>4. TapHeld'
    BY <2>1, <2>2 DEF SubtitlesInductive, TapHeld
  <2>. QED
    BY <2>3, <2>4 DEF SubtitlesInductive
<1>10. CASE UNCHANGED sVars
  BY <1>10 DEF sVars, SubtitlesInductive, SubtitlesShapes, EntryExact, TapHeld
<1>. QED
  BY <1>1, <1>2, <1>3, <1>4, <1>5, <1>6, <1>7, <1>8, <1>9, <1>10 DEF SubtitlesNext

(* Whoever ends a session and whenever, the tab's entry is the one that    *)
(* goes on, and the page's audio is tapped for one that goes on or is      *)
(* about to be cleaned up; or a failed clean-up left the tap there, or the *)
(* page's answer to it was lost after the clean-up (start, finish and      *)
(* cleanup_page in subtitles.rs).                                          *)
THEOREM TapIsAccounted == SubtitlesSafety => []TapAccounted
<1>1. SubtitlesInit => SubtitlesInductive
  BY SessionsAssumption
     DEF SubtitlesInit, SubtitlesInductive, SubtitlesShapes, EntryExact, TapHeld, Sessions,
         Going, Starting
<1>2. SubtitlesInductive => TapAccounted
  BY DEF SubtitlesInductive, SubtitlesShapes, TapHeld, TapAccounted, SubtitlesTypeOK, Going
<1>. QED
  BY <1>1, <1>2, SubtitlesStep, PTL DEF SubtitlesSafety

-------------------------------------------------------------------------------
(* Presence. The entry counts at least those who act, unless the view went *)
(* under them.                                                             *)
DrivenInv ==
  /\ ~closed => running >= Cardinality(acting)
  /\ acting # {} /\ ~closed => lit
  /\ closed => acting # {}

(* Every change of presence is the begin or the end of an action.          *)
BegunInv ==
  /\ IsFiniteSet(acting) /\ acting \subseteq Actors
  /\ acts \in 0 .. MaxActs /\ running \in 0 .. acts
  /\ generation \in Nat /\ generation + Cardinality(acting) <= 2 * acts
  /\ lingers \subseteq 1 .. 2 * acts
  /\ {lit, closed} \subseteq BOOLEAN

PresenceInductive == BegunInv /\ DrivenInv

(* One actor more, one less.                                               *)
LEMMA Joins ==
  ASSUME NEW a, a \notin acting, IsFiniteSet(acting), acting' = acting \cup {a}
  PROVE  IsFiniteSet(acting') /\ Cardinality(acting') = Cardinality(acting) + 1
         /\ Cardinality(acting) \in Nat
  BY FS_AddElement, FS_CardinalityType

LEMMA Parts ==
  ASSUME NEW a, a \in acting, IsFiniteSet(acting), acting' = acting \ {a}
  PROVE  IsFiniteSet(acting') /\ Cardinality(acting') = Cardinality(acting) - 1
         /\ Cardinality(acting) \in Nat \ {0} /\ (acting' = {} => Cardinality(acting') = 0)
<1>1. acting # {}
  OBVIOUS
<1>. QED
  BY <1>1, FS_RemoveElement, FS_CardinalityType, FS_EmptySet

LEMMA PresenceStep ==
  PresenceInductive /\ [PresenceNext]_nVars => PresenceInductive'
<1>. SUFFICES ASSUME BegunInv, DrivenInv, [PresenceNext]_nVars PROVE BegunInv' /\ DrivenInv'
  BY DEF PresenceInductive
<1>. USE ActsAssumption DEF BegunInv, DrivenInv
<1>1. ASSUME NEW a \in Actors, Begin(a) PROVE BegunInv' /\ DrivenInv'
  <2>1. IsFiniteSet(acting') /\ Cardinality(acting') = Cardinality(acting) + 1
        /\ Cardinality(acting) \in Nat /\ acting' \subseteq Actors /\ acting' # {}
    BY <1>1, Joins DEF Begin
  <2>2. acts' = acts + 1 /\ acts' <= MaxActs /\ running' = running + 1
        /\ generation' = generation + 1 /\ lit' /\ (closed' <=> closed) /\ lingers' = lingers
    BY <1>1 DEF Begin, Light
  <2>3. {lit', closed'} \subseteq BOOLEAN
    BY <1>1 DEF Begin, Light
  <2>4. BegunInv'
    BY <2>1, <2>2, <2>3
  <2>. QED
    BY <2>1, <2>2, <2>4
<1>2. ASSUME NEW a \in Actors, End(a) PROVE BegunInv' /\ DrivenInv'
  <2>1. IsFiniteSet(acting') /\ Cardinality(acting') = Cardinality(acting) - 1
        /\ Cardinality(acting) \in Nat \ {0} /\ (acting' = {} => Cardinality(acting') = 0)
        /\ acting' \subseteq Actors /\ acting # {}
    BY <1>2, Parts DEF End, Leaves
  <2>2. acts' = acts /\ (lit' <=> lit) /\ (closed' <=> closed /\ acting' # {})
        /\ running' = (IF running = 0 THEN 0 ELSE running - 1)
    BY <1>2 DEF End, Leaves
  <2>3. {lit', closed'} \subseteq BOOLEAN
    BY <1>2 DEF End, Leaves
  <2>4. \/ generation' = generation /\ lingers' = lingers
        \/ generation' = generation + 1 /\ lingers' = lingers \cup {generation'}
    BY <1>2 DEF End
  <2>5. generation' \in Nat /\ generation' + Cardinality(acting') <= 2 * acts'
    BY <2>1, <2>2, <2>4
  <2>6. lingers' \subseteq 1 .. 2 * acts'
    <3>1. generation + 1 \in 1 .. 2 * acts
      BY <2>1
    <3>. QED
      BY <2>2, <2>4, <3>1
  <2>7. running' \in 0 .. acts' /\ acts' \in 0 .. MaxActs
    BY <2>2
  <2>8. BegunInv'
    BY <2>1, <2>3, <2>5, <2>6, <2>7
  <2>. QED
    BY <2>1, <2>2, <2>8
<1>3. CASE Dropped
  <2>1. IsFiniteSet(acting') /\ Cardinality(acting') = Cardinality(acting) - 1
        /\ Cardinality(acting) \in Nat \ {0} /\ (acting' = {} => Cardinality(acting') = 0)
        /\ acting' \subseteq Actors /\ acting # {}
    BY <1>3, Parts DEF Dropped, Leaves
  <2>2. UNCHANGED <<running, generation, lingers, acts>> /\ (lit' <=> lit)
        /\ (closed' <=> closed /\ acting' # {})
    BY <1>3 DEF Dropped, Leaves
  <2>3. {lit', closed'} \subseteq BOOLEAN
    BY <1>3 DEF Dropped, Leaves
  <2>. QED
    BY <2>1, <2>2, <2>3
<1>4. CASE ForgetView
  <2>1. UNCHANGED <<acting, lingers, acts>> /\ running' = 0 /\ generation' = 0 /\ ~lit'
        /\ (closed' <=> closed \/ acting # {})
    BY <1>4 DEF ForgetView
  <2>2. {lit', closed'} \subseteq BOOLEAN
    BY <1>4 DEF ForgetView
  <2>3. Cardinality(acting) \in Nat /\ (acting = {} => Cardinality(acting) = 0)
    BY FS_CardinalityType, FS_EmptySet
  <2>4. BegunInv'
    BY <2>1, <2>2, <2>3
  <2>. QED
    BY <2>1, <2>3, <2>4
<1>5. ASSUME NEW g \in lingers, Darkens(g) PROVE BegunInv' /\ DrivenInv'
  <2>1. UNCHANGED <<acting, running, generation, acts>> /\ (closed' <=> closed)
        /\ lingers' \subseteq lingers /\ (lit' <=> lit /\ ~(g = generation /\ running = 0))
    BY <1>5 DEF Darkens, Light
  <2>2. {lit', closed'} \subseteq BOOLEAN
    BY <1>5 DEF Darkens, Light
  <2>3. Cardinality(acting) \in Nat /\ (acting # {} => Cardinality(acting) # 0)
    BY FS_CardinalityType, FS_EmptySet
  <2>4. BegunInv'
    BY <2>1, <2>2
  <2>. QED
    BY <2>1, <2>3, <2>4
<1>6. CASE UNCHANGED nVars
  <2>1. UNCHANGED <<acting, running, generation, acts, lingers>> /\ (closed' <=> closed)
        /\ (lit' <=> lit)
    BY <1>6 DEF nVars
  <2>2. {lit', closed'} \subseteq BOOLEAN
    BY <1>6 DEF nVars
  <2>. QED
    BY <2>1, <2>2
<1>7. ASSUME NEW i \in DOMAIN announcing, Announced(i) PROVE BegunInv' /\ DrivenInv'
  <2>1. UNCHANGED <<acting, running, generation, acts, lingers>> /\ (closed' <=> closed)
        /\ (lit' <=> lit)
    BY <1>7 DEF Announced
  <2>2. {lit', closed'} \subseteq BOOLEAN
    BY <1>7 DEF Announced
  <2>. QED
    BY <2>1, <2>2
<1>. QED
  BY <1>1, <1>2, <1>3, <1>4, <1>5, <1>6, <1>7 DEF PresenceNext

(* What the tab will look like when all that was announced has arrived in  *)
(* its order: lit, if the entry is.                                        *)
LooksInv ==
  /\ announcing \in Seq(BOOLEAN) /\ {glows, crossed, lit} \subseteq BOOLEAN
  /\ ~crossed /\ lit /\ announcing = <<>> => glows = TRUE
  /\ ~crossed /\ lit /\ announcing # <<>> => Last(announcing) = TRUE

LEMMA OneGone ==
  ASSUME NEW S, NEW s \in Seq(S), NEW i \in DOMAIN s
  PROVE  RemoveAt(s, i) \in Seq(S)
<1>1. i \in 1 .. Len(s) /\ Len(s) \in Nat
  OBVIOUS
<1>2. SubSeq(s, 1, i - 1) \in Seq(S)
  BY <1>1
<1>3. SubSeq(s, i + 1, Len(s)) \in Seq(S)
  BY <1>1
<1>. QED
  BY <1>2, <1>3 DEF RemoveAt

LEMMA FirstGone ==
  ASSUME NEW S, NEW s \in Seq(S), s # <<>>
  PROVE  Len(RemoveAt(s, 1)) = Len(s) - 1
         /\ (Len(s) > 1 => Last(RemoveAt(s, 1)) = Last(s))
<1>. DEFINE front == SubSeq(s, 1, 0)
            rest == SubSeq(s, 2, Len(s))
<1>1. Len(s) \in Nat \ {0}
  OBVIOUS
<1>2. front = <<>> /\ front \in Seq(S)
  OBVIOUS
<1>3. rest \in Seq(S) /\ Len(rest) = Len(s) - 1
      /\ \A k \in 1 .. Len(s) - 1 : rest[k] = s[k + 1]
  <2>1. rest \in Seq(S)
    BY <1>1
  <2>2. Len(rest) = Len(s) - 1
    <3>1. CASE Len(s) = 1
      BY <1>1, <3>1
    <3>2. CASE Len(s) > 1
      BY <1>1, <3>2
    <3>. QED
      BY <1>1, <3>1, <3>2
  <2>3. ASSUME NEW k \in 1 .. Len(s) - 1 PROVE rest[k] = s[k + 1]
    BY <1>1
  <2>. QED
    BY <2>1, <2>2, <2>3
<1>4. RemoveAt(s, 1) = rest
  <2>1. RemoveAt(s, 1) = front \o rest
    BY <1>1 DEF RemoveAt
  <2>. HIDE DEF front, rest
  <2>. QED
    BY <1>2, <1>3, <2>1
<1>. HIDE DEF front, rest
<1>. QED
  BY <1>1, <1>3, <1>4 DEF Last

(* Who changes the light announces it behind all the others.               *)
LEMMA LightShows ==
  ASSUME LooksInv, NEW on \in BOOLEAN, Light(on), UNCHANGED <<glows, crossed>>
  PROVE  LooksInv'
<1>1. announcing' \in Seq(BOOLEAN) /\ {glows', crossed', lit'} \subseteq BOOLEAN /\ (lit' <=> on)
  <2>1. Append(announcing, on) \in Seq(BOOLEAN)
    BY DEF LooksInv
  <2>2. announcing' \in Seq(BOOLEAN)
    BY <2>1 DEF LooksInv, Light
  <2>3. {glows', crossed', lit'} \subseteq BOOLEAN /\ (lit' <=> on)
    BY DEF LooksInv, Light
  <2>. QED
    BY <2>2, <2>3
<1>2. ASSUME ~crossed', lit' PROVE (announcing' = <<>> => glows' = TRUE)
        /\ (announcing' # <<>> => Last(announcing') = TRUE)
  <2>1. CASE lit
    BY <1>1, <1>2, <2>1 DEF LooksInv, Light
  <2>2. CASE ~lit
    <3>1. announcing' = Append(announcing, on)
      BY <1>1, <1>2, <2>2 DEF Light
    <3>2. Last(announcing') = on /\ announcing' # <<>>
      BY <3>1 DEF LooksInv, Last
    <3>. QED
      BY <1>1, <1>2, <3>2
  <2>. QED
    BY <2>1, <2>2
<1>. QED
  BY <1>1, <1>2 DEF LooksInv

LEMMA LightStep ==
  LooksInv /\ [PresenceNext]_nVars => LooksInv'
<1>. SUFFICES ASSUME LooksInv, [PresenceNext]_nVars PROVE LooksInv'
  OBVIOUS
<1>1. ASSUME NEW a \in Actors, Begin(a) PROVE LooksInv'
  BY <1>1, LightShows DEF Begin
<1>2. ASSUME NEW a \in Actors, End(a) PROVE LooksInv'
  BY <1>2 DEF End, looks, LooksInv
<1>3. CASE Dropped
  BY <1>3 DEF Dropped, looks, LooksInv
<1>4. CASE ForgetView
  BY <1>4 DEF ForgetView, looks, LooksInv
<1>5. ASSUME NEW g \in lingers, Darkens(g) PROVE LooksInv'
  <2>1. (lit /\ ~(g = generation /\ running = 0)) \in BOOLEAN
    OBVIOUS
  <2>. QED
    BY <1>5, <2>1, LightShows DEF Darkens
<1>6. ASSUME NEW i \in DOMAIN announcing, Announced(i) PROVE LooksInv'
  <2>1. announcing' \in Seq(BOOLEAN)
    BY <1>6, OneGone DEF Announced, LooksInv
  <2>2. {glows', crossed', lit'} \subseteq BOOLEAN /\ (lit' <=> lit) /\ (crossed' <=> crossed \/ i # 1)
    <3>1. glows' \in BOOLEAN
      BY <1>6 DEF Announced, LooksInv
    <3>2. lit' \in BOOLEAN /\ (lit' <=> lit)
      BY <1>6 DEF Announced, LooksInv
    <3>3. crossed' \in BOOLEAN
      BY <1>6 DEF Announced, LooksInv
    <3>4. crossed' <=> crossed \/ i # 1
      BY <1>6, Zenon DEF Announced
    <3>. QED
      BY <3>1, <3>2, <3>3, <3>4
  <2>3. ASSUME ~crossed', lit' PROVE (announcing' = <<>> => glows' = TRUE)
        /\ (announcing' # <<>> => Last(announcing') = TRUE)
    <3>1. i = 1 /\ announcing # <<>> /\ Last(announcing) = TRUE
      BY <1>6, <2>2, <2>3 DEF LooksInv
    <3>2. announcing' = RemoveAt(announcing, 1) /\ glows' = announcing[1]
      BY <1>6, <3>1 DEF Announced
    <3>3. Len(announcing') = Len(announcing) - 1
          /\ (Len(announcing) > 1 => Last(announcing') = Last(announcing))
      BY <3>1, <3>2, FirstGone DEF LooksInv
    <3>4. CASE Len(announcing) = 1
      <4>1. glows' = Last(announcing) /\ announcing' = <<>>
        BY <2>1, <3>2, <3>3, <3>4 DEF Last
      <4>. QED
        BY <3>1, <4>1
    <3>5. CASE Len(announcing) > 1
      <4>1. Last(announcing') = Last(announcing) /\ announcing' # <<>>
        BY <2>1, <3>3, <3>5
      <4>. QED
        BY <3>1, <4>1
    <3>6. Len(announcing) \in Nat \ {0}
      <4>1. announcing \in Seq(BOOLEAN)
        BY DEF LooksInv
      <4>. QED
        BY <3>1, <4>1
    <3>7. Len(announcing) = 1 \/ Len(announcing) > 1
      <4>1. ASSUME NEW n \in Nat \ {0} PROVE n = 1 \/ n > 1
        OBVIOUS
      <4>. QED
        BY <3>6, <4>1
    <3>. QED
      BY <3>4, <3>5, <3>7
  <2>. QED
    BY <2>1, <2>2, <2>3 DEF LooksInv
<1>7. CASE UNCHANGED nVars
  BY <1>7 DEF nVars, looks, LooksInv
<1>. QED
  <2>. HIDE DEF LooksInv
  <2>1. CASE PresenceNext
    BY <1>1, <1>2, <1>3, <1>4, <1>5, <1>6, <2>1 DEF PresenceNext
  <2>. QED
    BY <1>7, <2>1

(* The registry has a tab lit while somebody drives it, whatever lingers   *)
(* wake, and so it looks once all that was announced has arrived, unless   *)
(* one announcement came before an older one, or the view was closed under *)
(* them (begin, end, announce and forget in agent_presence.rs).            *)
THEOREM DrivenIsLit == PresenceSafety => []LitWhileDriven
<1>. DEFINE Inv == PresenceInductive /\ LooksInv
<1>1. ASSUME PresenceInit PROVE Inv
  <2>1. {lit, closed} \subseteq BOOLEAN
    BY <1>1 DEF PresenceInit
  <2>2. acting = {} /\ running = 0 /\ generation = 0 /\ lingers = {} /\ acts = 0 /\ ~closed
    BY <1>1 DEF PresenceInit
  <2>3. PresenceInductive
    BY <2>1, <2>2, FS_EmptySet, ActsAssumption DEF PresenceInductive, BegunInv, DrivenInv
  <2>4. LooksInv
    <3>1. announcing \in Seq(BOOLEAN)
      BY <1>1 DEF PresenceInit
    <3>2. {glows, crossed, lit} \subseteq BOOLEAN /\ ~lit
      BY <1>1 DEF PresenceInit
    <3>. QED
      BY <3>1, <3>2 DEF LooksInv
  <2>. QED
    BY <2>3, <2>4
<1>2. Inv /\ [PresenceNext]_nVars => Inv'
  BY PresenceStep, LightStep
<1>3. Inv => LitWhileDriven
  <2>. SUFFICES ASSUME BegunInv, DrivenInv, LooksInv PROVE LitWhileDriven
    BY DEF PresenceInductive
  <2>1. Cardinality(acting) \in Nat
    BY FS_CardinalityType DEF BegunInv
  <2>2. running \in 0 .. MaxActs /\ generation \in 0 .. 2 * MaxActs
        /\ lingers \subseteq 1 .. 2 * MaxActs
    BY <2>1, ActsAssumption DEF BegunInv
  <2>3. PresenceTypeOK
    <3>1. {lit, closed, glows, crossed} \subseteq BOOLEAN /\ announcing \in Seq(BOOLEAN)
      BY DEF BegunInv, LooksInv
    <3>. QED
      BY <2>2, <3>1 DEF PresenceTypeOK, BegunInv
  <2>4. ASSUME acting # {}, ~closed PROVE lit /\ (announcing = <<>> /\ ~crossed => glows)
    BY <2>4 DEF DrivenInv, LooksInv
  <2>. QED
    BY <2>3, <2>4 DEF LitWhileDriven
<1>. QED
  <2>. HIDE DEF Inv
  <2>. QED
    BY <1>1, <1>2, <1>3, PTL DEF PresenceSafety
=============================================================================
