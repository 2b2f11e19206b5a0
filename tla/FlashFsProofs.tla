---------------------------- MODULE FlashFsProofs ----------------------------
(***************************************************************************)
(* The flash file store, for any names, contents, window and sector, and   *)
(* whatever lay in the window at the start.  No operation programs a cell  *)
(* that is not erased; a call is refused only when its record does not fit *)
(* behind the live files; and, where no reset and no bad cell strikes a    *)
(* compaction, the log implements a store whose calls take effect at once. *)
(***************************************************************************)
EXTENDS FlashFs, FiniteSetTheorems, FunctionTheorems, SequenceTheorems,
        WellFoundedInduction, TLAPS

-----------------------------------------------------------------------------
\* Induction, for what a recursive function computes.

Below == {p \in Nat \X Nat : p[1] < p[2]}

LEMMA BelowIsWellFounded == IsWellFoundedOn(Below, Nat)
  BY NatLessThanWellFounded DEF OpToRel, Below

LEMMA SetInduction ==
  ASSUME NEW S, 0 \in S, \A n \in Nat : n \in S => n + 1 \in S
  PROVE  Nat \subseteq S
<1> DEFINE T == Nat \ S
<1>1. ASSUME T # {} PROVE FALSE
  <2>1. PICK x \in T : \A y \in T : ~(<<y, x>> \in Below)
    BY <1>1, BelowIsWellFounded, WFMin
  <2>2. x # 0 /\ x \in Nat
    OBVIOUS
  <2>3. x - 1 \in Nat /\ <<x - 1, x>> \in Below
    BY <2>2 DEF Below
  <2> QED
    BY <2>1, <2>2, <2>3
<1> QED
  BY <1>1

-----------------------------------------------------------------------------
\* What a scan finds.

\* A record ends after it starts, and within the window.
LEMMA RecordsFit ==
  ASSUME NEW c, NEW at \in 0 .. Capacity, IsRecord(c, at)
  PROVE  Past(c, at) \in at + 1 .. Capacity /\ c[at].len \in 0 .. MaxLen /\ at \in Addresses
  BY CapacityAssumption, LengthAssumption DEF IsRecord, Past, Headers, Addresses

\* The equation of the definition, for the last m cells of the window.
ScansAs(f, c, m) ==
  f = [at \in Capacity - m .. Capacity |->
        IF IsRecord(c, at)
        THEN [starts |-> {at} \cup f[Past(c, at)].starts, end |-> f[Past(c, at)].end]
        ELSE [starts |-> {}, end |-> at]]

LEMMA ScanExists ==
  ASSUME NEW c
  PROVE  \E f : ScansAs(f, c, Capacity)
<1> DEFINE S == {m \in Nat : m <= Capacity => \E f : ScansAs(f, c, m)}
<1>1. 0 \in S
  <2>1. ~IsRecord(c, Capacity)
    BY CapacityAssumption DEF IsRecord
  <2>2. ScansAs([at \in Capacity - 0 .. Capacity |-> [starts |-> {}, end |-> at]], c, 0)
    BY <2>1, CapacityAssumption DEF ScansAs
  <2> QED
    BY <2>2
<1>2. ASSUME NEW m \in Nat, m \in S PROVE m + 1 \in S
  <2> SUFFICES ASSUME m + 1 <= Capacity PROVE \E f : ScansAs(f, c, m + 1)
    OBVIOUS
  <2>1. PICK f : ScansAs(f, c, m)
    BY <1>2, CapacityAssumption
  <2> DEFINE new == Capacity - (m + 1)
             g == [at \in new .. Capacity |->
                    IF at # new THEN f[at]
                    ELSE IF IsRecord(c, at)
                    THEN [starts |-> {at} \cup f[Past(c, at)].starts, end |-> f[Past(c, at)].end]
                    ELSE [starts |-> {}, end |-> at]]
  <2>2. \A at \in new .. Capacity :
          g[at] = IF IsRecord(c, at)
                  THEN [starts |-> {at} \cup g[Past(c, at)].starts, end |-> g[Past(c, at)].end]
                  ELSE [starts |-> {}, end |-> at]
    <3> SUFFICES ASSUME NEW at \in new .. Capacity
                 PROVE  g[at] = IF IsRecord(c, at)
                                THEN [starts |-> {at} \cup g[Past(c, at)].starts,
                                      end |-> g[Past(c, at)].end]
                                ELSE [starts |-> {}, end |-> at]
      OBVIOUS
    <3>1. at \in 0 .. Capacity
      BY CapacityAssumption
    <3>2. IsRecord(c, at) => Past(c, at) \in new .. Capacity /\ Past(c, at) # new
      BY <3>1, RecordsFit, CapacityAssumption
    <3>3. IsRecord(c, at) => g[Past(c, at)] = f[Past(c, at)]
      BY <3>2
    <3>4. CASE at = new
      BY <3>3, <3>4
    <3>5. CASE at # new
      <4>1. at \in Capacity - m .. Capacity
        BY <3>5, CapacityAssumption
      <4>2. f[at] = IF IsRecord(c, at)
                    THEN [starts |-> {at} \cup f[Past(c, at)].starts, end |-> f[Past(c, at)].end]
                    ELSE [starts |-> {}, end |-> at]
        BY <2>1, <4>1 DEF ScansAs
      <4>3. g[at] = f[at]
        BY <3>5
      <4> HIDE DEF g
      <4> QED
        BY <3>3, <4>2, <4>3
    <3> QED
      BY <3>4, <3>5
  <2>3. g = [at \in new .. Capacity |-> g[at]]
    OBVIOUS
  <2> HIDE DEF g
  <2>4. ScansAs(g, c, m + 1)
    BY <2>2, <2>3 DEF ScansAs
  <2> QED
    BY <2>4
<1> HIDE DEF S
<1>3. Nat \subseteq S
  BY <1>1, <1>2, SetInduction
<1> QED
  BY <1>3, CapacityAssumption DEF S

LEMMA ScanIs ==
  ASSUME NEW c, NEW at \in 0 .. Capacity
  PROVE  Scan(c)[at] = IF IsRecord(c, at)
                       THEN [starts |-> {at} \cup Scan(c)[Past(c, at)].starts,
                             end |-> Scan(c)[Past(c, at)].end]
                       ELSE [starts |-> {}, end |-> at]
<1>1. \E f : ScansAs(f, c, Capacity)
  BY ScanExists
<1> DEFINE s == CHOOSE f : ScansAs(f, c, Capacity)
<1>2. Capacity - Capacity = 0
  BY CapacityAssumption
<1>3. Scan(c) = s
  BY <1>2 DEF Scan, ScansAs
<1>4. ScansAs(s, c, Capacity)
  BY <1>1
<1> HIDE DEF s
<1> QED
  BY <1>2, <1>3, <1>4 DEF ScansAs

LEMMA ScanFields ==
  ASSUME NEW c, NEW at \in 0 .. Capacity
  PROVE  /\ IsRecord(c, at) =>
              /\ Scan(c)[at].starts = {at} \cup Scan(c)[Past(c, at)].starts
              /\ Scan(c)[at].end = Scan(c)[Past(c, at)].end
         /\ ~IsRecord(c, at) => Scan(c)[at].starts = {} /\ Scan(c)[at].end = at
<1>1. CASE IsRecord(c, at)
  <2>1. Scan(c)[at] = [starts |-> {at} \cup Scan(c)[Past(c, at)].starts,
                       end |-> Scan(c)[Past(c, at)].end]
    BY <1>1, ScanIs
  <2> QED
    BY <1>1, <2>1
<1>2. CASE ~IsRecord(c, at)
  <2>1. Scan(c)[at] = [starts |-> {}, end |-> at]
    BY <1>2, ScanIs
  <2> QED
    BY <1>2, <2>1
<1> QED
  BY <1>1, <1>2

\* The records from at on: each ends where the next one starts, or the log.
IsLogFrom(c, at, S, e) ==
  /\ at \in 0 .. Capacity /\ e \in at .. Capacity
  /\ S \subseteq at .. e - 1 /\ at \in S \cup {e}
  /\ \A a \in S : IsRecord(c, a) /\ Past(c, a) \in S \cup {e}
  /\ \A a, b \in S : a < b => Past(c, a) <= b
  /\ ~IsRecord(c, e)

IsLog(c, S, e) == IsLogFrom(c, 0, S, e)

LEMMA ScanFindsLog ==
  ASSUME NEW c
  PROVE  IsLog(c, Starts(c), End(c))
<1> DEFINE Good(at) == IsLogFrom(c, at, Scan(c)[at].starts, Scan(c)[at].end)
           S == {m \in Nat : m <= Capacity => \A at \in Capacity - m .. Capacity : Good(at)}
<1>1. ASSUME NEW at \in 0 .. Capacity, ~IsRecord(c, at)
      PROVE  Good(at)
  <2>1. Scan(c)[at].starts = {} /\ Scan(c)[at].end = at
    BY <1>1, ScanFields
  <2> QED
    BY <1>1, <2>1, CapacityAssumption DEF IsLogFrom
<1>2. ASSUME NEW at \in 0 .. Capacity, IsRecord(c, at), Good(Past(c, at))
      PROVE  Good(at)
  <2> DEFINE next == Past(c, at)
             T == Scan(c)[next].starts
             e == Scan(c)[next].end
  <2>1. Scan(c)[at].starts = {at} \cup T /\ Scan(c)[at].end = e
    BY <1>2, ScanFields
  <2>2. next \in at + 1 .. Capacity
    BY <1>2, RecordsFit
  <2>3. IsLogFrom(c, next, T, e)
    BY <1>2
  <2> HIDE DEF T, e
  <2>4. e \in at .. Capacity /\ {at} \cup T \subseteq at .. e - 1 /\ at \in T \cup {at}
    BY <2>2, <2>3, CapacityAssumption DEF IsLogFrom
  <2>5. \A a \in {at} \cup T : IsRecord(c, a) /\ Past(c, a) \in ({at} \cup T) \cup {e}
    BY <1>2, <2>3 DEF IsLogFrom
  <2>6. \A a, b \in {at} \cup T : a < b => Past(c, a) <= b
    BY <2>2, <2>3, CapacityAssumption DEF IsLogFrom
  <2>7. IsLogFrom(c, at, {at} \cup T, e)
    BY <2>3, <2>4, <2>5, <2>6 DEF IsLogFrom
  <2> QED
    BY <2>1, <2>7
<1> HIDE DEF Good
<1>3. 0 \in S
  <2>1. ~IsRecord(c, Capacity) /\ Capacity \in 0 .. Capacity
    BY CapacityAssumption DEF IsRecord
  <2>2. Good(Capacity)
    BY <1>1, <2>1
  <2> QED
    BY <2>2, CapacityAssumption
<1>4. ASSUME NEW m \in Nat, m \in S PROVE m + 1 \in S
  <2> SUFFICES ASSUME m + 1 <= Capacity, NEW at \in Capacity - (m + 1) .. Capacity PROVE Good(at)
    OBVIOUS
  <2>1. at \in 0 .. Capacity
    BY CapacityAssumption
  <2>2. CASE IsRecord(c, at)
    <3>1. Past(c, at) \in Capacity - m .. Capacity
      BY <2>1, <2>2, RecordsFit, CapacityAssumption
    <3> QED
      BY <1>2, <1>4, <2>1, <2>2, <3>1, CapacityAssumption
  <2>3. CASE ~IsRecord(c, at)
    BY <1>1, <2>1, <2>3
  <2> QED
    BY <2>2, <2>3
<1> HIDE DEF S
<1>5. Nat \subseteq S
  BY <1>3, <1>4, SetInduction
<1>6. Good(0)
  BY <1>5, CapacityAssumption DEF S
<1> QED
  BY <1>6 DEF Good, IsLog, Starts, End

\* A window has one log.
LEMMA LogIsUnique ==
  ASSUME NEW c, NEW S, NEW e, IsLog(c, S, e)
  PROVE  S = Starts(c) /\ e = End(c)
<1> DEFINE Good(at) == at \in S \cup {e} =>
             Scan(c)[at].end = e /\ Scan(c)[at].starts = {b \in S : b >= at}
           I == {m \in Nat : m <= Capacity => \A at \in Capacity - m .. Capacity : Good(at)}
<1>1. /\ e \in 0 .. Capacity /\ S \subseteq 0 .. e - 1 /\ 0 \in S \cup {e} /\ ~IsRecord(c, e)
      /\ \A a \in S : IsRecord(c, a) /\ Past(c, a) \in S \cup {e}
      /\ \A a, b \in S : a < b => Past(c, a) <= b
  BY DEF IsLog, IsLogFrom
<1>0. \A b \in S : b \in Nat /\ b < e
  BY <1>1, CapacityAssumption
<1>2. Good(e)
  <2>1. Scan(c)[e].end = e /\ Scan(c)[e].starts = {}
    BY <1>1, ScanFields
  <2>2. {b \in S : b >= e} = {}
    <3>1. \A b \in S : ~(b >= e)
      BY <1>0, <1>1, CapacityAssumption
    <3> QED
      BY <3>1
  <2> QED
    BY <2>1, <2>2
<1>3. ASSUME NEW at \in S, Good(Past(c, at)) PROVE Good(at)
  <2>1. at \in 0 .. Capacity /\ IsRecord(c, at) /\ Past(c, at) \in S \cup {e}
    BY <1>1, CapacityAssumption
  <2>2. Past(c, at) \in at + 1 .. Capacity
    BY <2>1, RecordsFit
  <2>3. Scan(c)[at].end = e /\ Scan(c)[at].starts = {at} \cup {b \in S : b >= Past(c, at)}
    BY <1>3, <2>1, <2>2, ScanFields
  <2>4. {b \in S : b >= at} = {at} \cup {b \in S : b >= Past(c, at)}
    <3>1. \A b \in S : b >= at => b = at \/ b >= Past(c, at)
      BY <1>0, <1>1, <2>2
    <3>2. \A b \in S : b >= Past(c, at) => b >= at
      BY <1>0, <2>2
    <3> QED
      BY <1>0, <3>1, <3>2
  <2> QED
    BY <2>3, <2>4
<1> HIDE DEF Good
<1>4. 0 \in I
  <2>1. ASSUME NEW at \in Capacity - 0 .. Capacity PROVE Good(at)
    <3>1. at = Capacity
      BY CapacityAssumption
    <3>2. at \notin S
      BY <1>1, <3>1, CapacityAssumption
    <3> QED
      BY <1>2, <3>2 DEF Good
  <2> QED
    BY <2>1
<1>5. ASSUME NEW m \in Nat, m \in I PROVE m + 1 \in I
  <2> SUFFICES ASSUME m + 1 <= Capacity, NEW at \in Capacity - (m + 1) .. Capacity PROVE Good(at)
    OBVIOUS
  <2>1. CASE at \in S
    <3>1. at \in 0 .. Capacity /\ IsRecord(c, at)
      BY <1>1, <2>1, CapacityAssumption
    <3>2. Past(c, at) \in Capacity - m .. Capacity
      BY <3>1, RecordsFit, CapacityAssumption
    <3> QED
      BY <1>3, <1>5, <2>1, <3>2, CapacityAssumption
  <2>2. CASE at \notin S
    BY <1>2, <2>2 DEF Good
  <2> QED
    BY <2>1, <2>2
<1> HIDE DEF I
<1>6. Nat \subseteq I
  BY <1>4, <1>5, SetInduction
<1>7. Good(0)
  BY <1>6, CapacityAssumption DEF I
<1>8. Scan(c)[0].end = e /\ Scan(c)[0].starts = {b \in S : b >= 0}
  BY <1>1, <1>7 DEF Good
<1>9. {b \in S : b >= 0} = S
  BY <1>0
<1> QED
  BY <1>8, <1>9 DEF Starts, End

\* Where a scan's records lie.
LEMMA LogFacts ==
  ASSUME NEW c
  PROVE  /\ End(c) \in 0 .. Capacity /\ ~IsRecord(c, End(c))
         /\ \A a \in Starts(c) : /\ a \in Addresses /\ a \in Nat /\ c[a] \in Headers
                                /\ c[a].len \in 0 .. MaxLen
                                /\ Past(c, a) = a + 1 + c[a].len /\ Past(c, a) <= End(c)
         /\ \A a, b \in Starts(c) : a < b => Past(c, a) <= b
<1>1. IsLog(c, Starts(c), End(c))
  BY ScanFindsLog
<1>2. ASSUME NEW a \in Starts(c)
      PROVE  /\ a \in Addresses /\ a \in Nat /\ c[a] \in Headers
             /\ c[a].len \in 0 .. MaxLen /\ Past(c, a) = a + 1 + c[a].len /\ Past(c, a) <= End(c)
  <2>1. a \in 0 .. Capacity /\ IsRecord(c, a) /\ Past(c, a) \in Starts(c) \cup {End(c)}
        /\ Starts(c) \subseteq 0 .. End(c) - 1 /\ End(c) \in 0 .. Capacity
    BY <1>1, CapacityAssumption DEF IsLog, IsLogFrom
  <2>2. Past(c, a) <= End(c)
    BY <2>1, CapacityAssumption
  <2> QED
    BY <2>1, <2>2, RecordsFit, CapacityAssumption DEF IsRecord, Past
<1> QED
  BY <1>1, <1>2 DEF IsLog, IsLogFrom

LEMMA SetMaximum ==
  ASSUME NEW m \in Nat, NEW S \in SUBSET (0 .. m), S # {}
  PROVE  \E x \in S : \A y \in S : y <= x
<1> DEFINE T == {m - x : x \in S}
<1>1. T \subseteq Nat /\ T # {}
  OBVIOUS
<1>2. PICK d \in T : \A y \in T : ~(<<y, d>> \in Below)
  BY <1>1, BelowIsWellFounded, WFMin
<1>3. PICK x \in S : d = m - x
  BY <1>2
<1>4. ASSUME NEW y \in S PROVE y <= x
  <2>1. m - y \in T /\ m - y \in Nat /\ d \in Nat
    BY <1>1
  <2>2. ~(m - y < d)
    BY <1>2, <2>1 DEF Below
  <2> QED
    BY <1>3, <2>1, <2>2
<1> QED
  BY <1>4

LEMMA SetMinimum ==
  ASSUME NEW S \in SUBSET Nat, S # {}
  PROVE  \E x \in S : \A y \in S : x <= y
<1>1. PICK x \in S : \A y \in S : ~(<<y, x>> \in Below)
  BY BelowIsWellFounded, WFMin
<1>2. ASSUME NEW y \in S PROVE x <= y
  <2>1. x \in Nat /\ y \in Nat /\ ~(<<y, x>> \in Below)
    BY <1>1
  <2>2. ~(y < x)
    BY <2>1 DEF Below
  <2> QED
    BY <2>1, <2>2
<1> QED
  BY <1>2

LEMMA NewestIs ==
  ASSUME NEW c, NEW n, Matches(c, n) # {}
  PROVE  /\ Newest(c, n) \in Starts(c) /\ c[Newest(c, n)].name = n
         /\ \A b \in Starts(c) : c[b].name = n => b <= Newest(c, n)
<1>1. Matches(c, n) \in SUBSET (0 .. Capacity)
  BY LogFacts, CapacityAssumption DEF Matches, Addresses
<1>2. \E x \in Matches(c, n) : \A y \in Matches(c, n) : y <= x
  BY <1>1, SetMaximum, CapacityAssumption
<1>3. Newest(c, n) \in Matches(c, n) /\ \A y \in Matches(c, n) : y <= Newest(c, n)
  BY <1>2 DEF Newest
<1> QED
  BY <1>3 DEF Matches

\* There is one newest record.
LEMMA NewestIsOne ==
  ASSUME NEW c, NEW n, NEW a \in Starts(c), c[a].name = n,
         \A b \in Starts(c) : c[b].name = n => b <= a
  PROVE  Matches(c, n) # {} /\ Newest(c, n) = a
<1>1. Matches(c, n) # {}
  BY DEF Matches
<1>2. Newest(c, n) <= a /\ a <= Newest(c, n)
  BY <1>1, NewestIs
<1>3. a \in Nat /\ Newest(c, n) \in Nat
  BY <1>1, NewestIs, LogFacts
<1> QED
  BY <1>1, <1>2, <1>3

\* The records that count are the same, so what is read is.
LEMMA SameRead ==
  ASSUME NEW c, NEW d, NEW n,
         Matches(c, n) = Matches(d, n),
         \A a \in Matches(c, n) : d[a] = c[a] /\ \A k \in 1 .. c[a].len : d[a + k] = c[a + k]
  PROVE  Read(d, n) = Read(c, n)
<1>1. CASE Matches(c, n) = {}
  BY <1>1 DEF Read
<1>2. CASE Matches(c, n) # {}
  <2> DEFINE a == Newest(c, n)
  <2>1. a \in Matches(c, n)
    BY <1>2, NewestIs DEF Matches
  <2>2. Newest(d, n) = a
    BY DEF Newest
  <2> HIDE DEF a
  <2>3. d[a] = c[a] /\ DataOf(d, a) = DataOf(c, a)
    BY <2>1 DEF DataOf
  <2> QED
    BY <1>2, <2>2, <2>3 DEF Read, a
<1> QED
  BY <1>1, <1>2

\* A window that agrees up to the end of the log has the same log ...
LEMMA LogIsLocal ==
  ASSUME NEW c, NEW d,
         \A a \in Addresses : a < End(c) => d[a] = c[a],
         ~IsRecord(d, End(c))
  PROVE  Starts(d) = Starts(c) /\ End(d) = End(c) /\ Contents(d) = Contents(c)
<1>1. IsLog(c, Starts(c), End(c))
  BY ScanFindsLog
<1>2. \A a \in Starts(c) : d[a] = c[a] /\ \A k \in 1 .. c[a].len : d[a + k] = c[a + k]
  BY LogFacts, CapacityAssumption DEF Addresses
<1>3. \A a \in Starts(c) : IsRecord(d, a) /\ Past(d, a) = Past(c, a)
  BY <1>1, <1>2 DEF IsLog, IsLogFrom, IsRecord, Past
<1>4. IsLog(d, Starts(c), End(c))
  BY <1>1, <1>3 DEF IsLog, IsLogFrom
<1>5. Starts(d) = Starts(c) /\ End(d) = End(c)
  BY <1>4, LogIsUnique
<1>6. \A n : Matches(c, n) = Matches(d, n)
  BY <1>2, <1>5 DEF Matches
<1>7. \A n \in Names : Read(d, n) = Read(c, n)
  BY <1>2, <1>6, SameRead DEF Matches
<1> QED
  BY <1>5, <1>7 DEF Contents

\* ... and one with a record there has one more.
LEMMA LogGrows ==
  ASSUME NEW c, NEW d,
         \A a \in Addresses : a < End(c) => d[a] = c[a],
         IsRecord(d, End(c)), ~IsRecord(d, Past(d, End(c)))
  PROVE  /\ Starts(d) = Starts(c) \cup {End(c)} /\ End(d) = Past(d, End(c))
         /\ \A n : n # d[End(c)].name => Read(d, n) = Read(c, n)
         /\ \A n : n = d[End(c)].name =>
              Read(d, n) = IF d[End(c)].flags = "deleted" THEN None ELSE DataOf(d, End(c))
<1> DEFINE e == End(c)  f == Past(d, e)
<1>1. IsLog(c, Starts(c), e)
  BY ScanFindsLog
<1>2. \A a \in Starts(c) : d[a] = c[a] /\ \A k \in 1 .. c[a].len : d[a + k] = c[a + k]
  BY LogFacts, CapacityAssumption DEF Addresses
<1>3. \A a \in Starts(c) : IsRecord(d, a) /\ Past(d, a) = Past(c, a) /\ a \in Nat /\ a < e /\ Past(c, a) <= e
  BY <1>1, <1>2, LogFacts DEF IsLog, IsLogFrom, IsRecord, Past
<1>4. e \in 0 .. Capacity /\ f \in e + 1 .. Capacity
  BY LogFacts, RecordsFit
<1>5. IsLog(d, Starts(c) \cup {e}, f)
  <2>1. Starts(c) \cup {e} \subseteq 0 .. f - 1 /\ 0 \in Starts(c) \cup {e}
    BY <1>1, <1>3, <1>4, CapacityAssumption DEF IsLog, IsLogFrom
  <2>2. \A a \in Starts(c) \cup {e} : IsRecord(d, a) /\ Past(d, a) \in (Starts(c) \cup {e}) \cup {f}
    BY <1>1, <1>3 DEF IsLog, IsLogFrom
  <2>3. \A a, b \in Starts(c) \cup {e} : a < b => Past(d, a) <= b
    BY <1>1, <1>3, <1>4, CapacityAssumption DEF IsLog, IsLogFrom
  <2> QED
    BY <1>4, <2>1, <2>2, <2>3, CapacityAssumption DEF IsLog, IsLogFrom
<1>6. Starts(d) = Starts(c) \cup {e} /\ End(d) = f
  BY <1>5, LogIsUnique
<1>7. ASSUME NEW n, n # d[e].name PROVE Read(d, n) = Read(c, n)
  <2>1. Matches(c, n) = Matches(d, n)
    BY <1>2, <1>6, <1>7 DEF Matches
  <2> QED
    BY <1>2, <2>1, SameRead DEF Matches
<1>8. ASSUME NEW n, n = d[e].name
      PROVE  Read(d, n) = IF d[e].flags = "deleted" THEN None ELSE DataOf(d, e)
  <2>1. e \in Starts(d) /\ \A b \in Starts(d) : b <= e
    BY <1>3, <1>4, <1>6, CapacityAssumption
  <2>2. Matches(d, n) # {} /\ Newest(d, n) = e
    BY <1>8, <2>1, NewestIsOne
  <2> HIDE DEF e
  <2> QED
    BY <2>2 DEF Read
<1> QED
  BY <1>6, <1>7, <1>8

-----------------------------------------------------------------------------
\* What a compaction puts back.

\* The equation of the definition, up to cell m.
BacksAs(f, c, m) ==
  f = [k \in 0 .. m |->
        IF k = 0 THEN [at |-> 0, todo |-> <<>>]
        ELSE LET done == f[k - 1]  bytes == Carried(c, k - 1)
             IN  IF IsLive(c, k - 1)
                 THEN [at |-> done.at + Len(bytes), todo |-> done.todo \o Put(done.at, bytes)]
                 ELSE done]

\* What the record at k adds to what was done before.
Back(c, done, k) ==
  IF IsLive(c, k)
  THEN [at |-> done.at + Len(Carried(c, k)), todo |-> done.todo \o Put(done.at, Carried(c, k))]
  ELSE done

LEMMA BackExists ==
  ASSUME NEW c, NEW m \in Nat
  PROVE  \E f : BacksAs(f, c, m)
<1> DEFINE S == {k \in Nat : \E f : BacksAs(f, c, k)}
<1>1. 0 \in S
  <2>1. BacksAs([n \in 0 .. 0 |-> [at |-> 0, todo |-> <<>>]], c, 0)
    BY DEF BacksAs
  <2> QED
    BY <2>1
<1>2. ASSUME NEW k \in Nat, k \in S PROVE k + 1 \in S
  <2>0. PICK f : BacksAs(f, c, k)
    BY <1>2
  <2>1. \A n \in 0 .. k :
          f[n] = IF n = 0 THEN [at |-> 0, todo |-> <<>>] ELSE Back(c, f[n - 1], n - 1)
    BY <2>0 DEF BacksAs, Back
  <2> DEFINE g == [n \in 0 .. k + 1 |-> IF n <= k THEN f[n] ELSE Back(c, f[k], k)]
  <2>2. \A n \in 0 .. k + 1 :
          g[n] = IF n = 0 THEN [at |-> 0, todo |-> <<>>] ELSE Back(c, g[n - 1], n - 1)
    <3> SUFFICES ASSUME NEW n \in 0 .. k + 1
                 PROVE  g[n] = IF n = 0 THEN [at |-> 0, todo |-> <<>>] ELSE Back(c, g[n - 1], n - 1)
      OBVIOUS
    <3>1. CASE n = k + 1
      <4>1. n # 0 /\ n - 1 = k /\ g[n] = Back(c, f[k], k) /\ g[k] = f[k]
        BY <3>1
      <4> QED
        BY <4>1
    <3>2. CASE n # k + 1
      <4>1. g[n] = f[n] /\ (n # 0 => g[n - 1] = f[n - 1])
        BY <3>2
      <4>2. f[n] = IF n = 0 THEN [at |-> 0, todo |-> <<>>] ELSE Back(c, f[n - 1], n - 1)
        BY <2>1, <3>2
      <4> HIDE DEF g
      <4> QED
        BY <4>1, <4>2
    <3> QED
      BY <3>1, <3>2
  <2>3. g = [n \in 0 .. k + 1 |-> g[n]]
    OBVIOUS
  <2> HIDE DEF g
  <2>4. g = [n \in 0 .. k + 1 |->
              IF n = 0 THEN [at |-> 0, todo |-> <<>>] ELSE Back(c, g[n - 1], n - 1)]
    BY <2>2, <2>3
  <2>5. BacksAs(g, c, k + 1)
    BY <2>4 DEF BacksAs, Back
  <2> QED
    BY <2>5
<1> HIDE DEF S
<1>3. Nat \subseteq S
  BY <1>1, <1>2, SetInduction
<1> QED
  BY <1>3 DEF S

LEMMA PutBackIs ==
  ASSUME NEW c
  PROVE  /\ PutBack(c)[0] = [at |-> 0, todo |-> <<>>]
         /\ \A k \in 1 .. Capacity : PutBack(c)[k] = Back(c, PutBack(c)[k - 1], k - 1)
<1>1. \E f : BacksAs(f, c, Capacity)
  BY BackExists, CapacityAssumption
<1> DEFINE b == CHOOSE f : BacksAs(f, c, Capacity)
<1>2. PutBack(c) = b
  BY DEF PutBack, BacksAs
<1>3. BacksAs(b, c, Capacity)
  BY <1>1
<1> HIDE DEF b
<1>4. \A k \in 0 .. Capacity :
        b[k] = IF k = 0 THEN [at |-> 0, todo |-> <<>>] ELSE Back(c, b[k - 1], k - 1)
  BY <1>3 DEF BacksAs, Back
<1> QED
  BY <1>2, <1>4, CapacityAssumption

\* The names whose file has been put back before cell k, and the cells that
\* their records take up.
LiveNames(c, k) == {c[a].name : a \in {a \in 0 .. k - 1 : IsLive(c, a)}}
SpanOf(c, n) == {n} \X (0 .. c[Newest(c, n)].len)
Spans(c, k) == UNION {SpanOf(c, n) : n \in LiveNames(c, k)}

\* A live record is the first of its name, and its newest one is no tombstone.
LEMMA LiveFacts ==
  ASSUME NEW c, NEW a, IsLive(c, a)
  PROVE  /\ a \in Starts(c) /\ c[a].name \in Names
         /\ Matches(c, c[a].name) # {}
         /\ Newest(c, c[a].name) \in Starts(c) /\ c[Newest(c, c[a].name)].name = c[a].name
         /\ c[Newest(c, c[a].name)].flags # "deleted"
         /\ \A b \in Starts(c) : c[b].name = c[a].name => a <= b
<1>1. a \in Starts(c) /\ c[a].name # NoName /\ c[Newest(c, c[a].name)].flags # "deleted"
      /\ \A b \in Starts(c) : c[b].name = c[a].name => a <= b
  BY DEF IsLive, IsFirst, Superseding
<1>2. c[a].name \in Names
  BY <1>1, LogFacts DEF Headers
<1>3. Matches(c, c[a].name) # {}
  BY <1>1 DEF Matches
<1> QED
  BY <1>1, <1>2, <1>3, NewestIs

\* The names still live at the end are those that read finds.
LEMMA LiveAreRead ==
  ASSUME NEW c
  PROVE  LiveNames(c, Capacity) =
           {n \in Names : Matches(c, n) # {} /\ c[Newest(c, n)].flags # "deleted"}
<1>1. ASSUME NEW n \in LiveNames(c, Capacity)
      PROVE  n \in Names /\ Matches(c, n) # {} /\ c[Newest(c, n)].flags # "deleted"
  BY LiveFacts DEF LiveNames
<1>2. ASSUME NEW n \in Names, Matches(c, n) # {}, c[Newest(c, n)].flags # "deleted"
      PROVE  n \in LiveNames(c, Capacity)
  <2>1. Matches(c, n) \subseteq Nat /\ Matches(c, n) \subseteq Addresses
    BY LogFacts DEF Matches
  <2>2. PICK a \in Matches(c, n) : \A b \in Matches(c, n) : a <= b
    BY <1>2, <2>1, SetMinimum
  <2>3. a \in Starts(c) /\ c[a].name = n /\ n # NoName
    BY <2>2, NamesAssumption DEF Matches
  <2>4. IsLive(c, a)
    BY <1>2, <2>2, <2>3 DEF IsLive, IsFirst, Superseding, Matches
  <2> QED
    BY <2>1, <2>3, <2>4 DEF LiveNames, Addresses
<1> QED
  BY <1>1, <1>2

LEMMA FirstCells ==
  ASSUME NEW m \in Int, m >= -1
  PROVE  IsFiniteSet(0 .. m) /\ Cardinality(0 .. m) = m + 1
<1>1. IsFiniteSet(0 .. m) /\ Cardinality(0 .. m) = IF 0 > m THEN 0 ELSE m - 0 + 1
  BY FS_Interval
<1> QED
  BY <1>1

LEMMA SpanSize ==
  ASSUME NEW c, NEW n, Matches(c, n) # {}
  PROVE  IsFiniteSet(SpanOf(c, n)) /\ Cardinality(SpanOf(c, n)) = c[Newest(c, n)].len + 1
<1> DEFINE m == c[Newest(c, n)].len
<1>1. m \in Nat
  BY NewestIs, LogFacts, LengthAssumption
<1> HIDE DEF m
<1>2. IsFiniteSet(0 .. m) /\ Cardinality(0 .. m) = m + 1
  BY <1>1, FirstCells
<1>3. IsFiniteSet({n}) /\ Cardinality({n}) = 1
  BY FS_Singleton
<1>4. IsFiniteSet({n} \X (0 .. m)) /\ Cardinality({n} \X (0 .. m)) = 1 * (m + 1)
  BY <1>2, <1>3, FS_Product
<1> QED
  BY <1>1, <1>4 DEF SpanOf, m

\* What is put back takes up no more than the log did: every record of it is
\* a record of the log.
LEMMA SpansFit ==
  ASSUME NEW c, NEW k \in 0 .. Capacity
  PROVE  IsFiniteSet(Spans(c, k)) /\ Cardinality(Spans(c, k)) \in Nat
         /\ Cardinality(Spans(c, k)) <= End(c)
<1> DEFINE T == Spans(c, k)
           S == 0 .. End(c) - 1
           f == [p \in T |-> Newest(c, p[1]) + p[2]]
<1>1. ASSUME NEW p \in T
      PROVE  /\ p = <<p[1], p[2]>> /\ p[2] \in Nat /\ p[2] <= c[Newest(c, p[1])].len
             /\ Newest(c, p[1]) \in Starts(c) /\ c[Newest(c, p[1])].name = p[1]
  <2>1. PICK n \in LiveNames(c, k) : p \in SpanOf(c, n)
    BY DEF Spans
  <2>2. Newest(c, n) \in Starts(c) /\ c[Newest(c, n)].name = n
    BY LiveFacts DEF LiveNames
  <2> QED
    BY <2>1, <2>2 DEF SpanOf
<1>2. \A p \in T : f[p] \in S
  BY <1>1, LogFacts, CapacityAssumption, LengthAssumption
<1>3. ASSUME NEW p \in T, NEW q \in T, f[p] = f[q] PROVE p = q
  <2> DEFINE a == Newest(c, p[1])  b == Newest(c, q[1])
  <2>1. a \in Starts(c) /\ b \in Starts(c) /\ c[a].name = p[1] /\ c[b].name = q[1]
        /\ p[2] \in Nat /\ q[2] \in Nat /\ p[2] <= c[a].len /\ q[2] <= c[b].len
        /\ a + p[2] = b + q[2]
    BY <1>1, <1>3
  <2> HIDE DEF a, b
  <2>2. ~(a < b) /\ ~(b < a) /\ a \in Nat /\ b \in Nat
    BY <2>1, LogFacts, LengthAssumption
  <2>3. a = b /\ p[2] = q[2]
    BY <2>1, <2>2
  <2>4. p[1] = q[1]
    BY <2>1, <2>3
  <2> QED
    BY <1>1, <2>3, <2>4
<1>4. f \in Injection(T, S)
  <2>1. f \in [T -> S]
    BY <1>2
  <2> QED
    BY <1>3, <2>1 DEF Injection, IsInjective
<1>5. IsFiniteSet(S) /\ Cardinality(S) = End(c)
  <2>1. End(c) - 1 \in Int /\ End(c) - 1 >= -1 /\ (End(c) - 1) + 1 = End(c)
    BY LogFacts, CapacityAssumption
  <2> QED
    BY <2>1, FirstCells
<1> QED
  BY <1>4, <1>5, FS_Injection, FS_CardinalityType

\* Each live record adds its own cells.
LEMMA SpansGrow ==
  ASSUME NEW c, NEW k \in 0 .. Capacity - 1
  PROVE  /\ IsLive(c, k) =>
              /\ c[k].name \notin LiveNames(c, k)
              /\ LiveNames(c, k + 1) = LiveNames(c, k) \cup {c[k].name}
              /\ Cardinality(Spans(c, k + 1)) =
                   Cardinality(Spans(c, k)) + c[Newest(c, c[k].name)].len + 1
         /\ ~IsLive(c, k) =>
              LiveNames(c, k + 1) = LiveNames(c, k) /\ Spans(c, k + 1) = Spans(c, k)
<1>1. {a \in 0 .. k : IsLive(c, a)} =
        {a \in 0 .. k - 1 : IsLive(c, a)} \cup (IF IsLive(c, k) THEN {k} ELSE {})
  BY CapacityAssumption
<1>2. (k + 1) - 1 = k
  BY CapacityAssumption
<1>3. ASSUME IsLive(c, k)
      PROVE  /\ c[k].name \notin LiveNames(c, k)
             /\ LiveNames(c, k + 1) = LiveNames(c, k) \cup {c[k].name}
             /\ Cardinality(Spans(c, k + 1)) =
                  Cardinality(Spans(c, k)) + c[Newest(c, c[k].name)].len + 1
  <2> DEFINE n == c[k].name
  <2>1. n \notin LiveNames(c, k)
    <3> SUFFICES ASSUME NEW a \in 0 .. k - 1, IsLive(c, a), c[a].name = n PROVE FALSE
      BY DEF LiveNames
    <3>1. a \in Starts(c) /\ k <= a
      BY <1>3, LiveFacts
    <3> QED
      BY <3>1, CapacityAssumption
  <2>2. LiveNames(c, k + 1) = LiveNames(c, k) \cup {n}
    BY <1>1, <1>2, <1>3 DEF LiveNames
  <2>3. Matches(c, n) # {}
    BY <1>3, LiveFacts
  <2> HIDE DEF n
  <2>4. Spans(c, k + 1) = Spans(c, k) \cup SpanOf(c, n)
    BY <2>2 DEF Spans
  <2>5. Spans(c, k) \cap SpanOf(c, n) = {}
    BY <2>1 DEF Spans, SpanOf
  <2>6. IsFiniteSet(Spans(c, k)) /\ Cardinality(Spans(c, k)) \in Nat
    BY SpansFit, CapacityAssumption
  <2>7. IsFiniteSet(SpanOf(c, n)) /\ Cardinality(SpanOf(c, n)) = c[Newest(c, n)].len + 1
        /\ c[Newest(c, n)].len \in Nat
    BY <2>3, SpanSize, NewestIs, LogFacts, LengthAssumption
  <2>8. Cardinality(Spans(c, k + 1)) =
          Cardinality(Spans(c, k)) + Cardinality(SpanOf(c, n)) - Cardinality({})
    BY <2>4, <2>5, <2>6, <2>7, FS_Union
  <2>9. Cardinality({}) = 0
    BY FS_EmptySet
  <2> QED
    BY <2>1, <2>2, <2>6, <2>7, <2>8, <2>9 DEF n
<1>4. ASSUME ~IsLive(c, k)
      PROVE  LiveNames(c, k + 1) = LiveNames(c, k) /\ Spans(c, k + 1) = Spans(c, k)
  BY <1>1, <1>2, <1>4 DEF LiveNames, Spans
<1> QED
  BY <1>3, <1>4

-----------------------------------------------------------------------------
\* What a list of flash steps does.

Steps == [do : {"erase", "program", "verify"}, at : Nat, cells : Seq(Cells)]

Programs(s, a) == s.do = "program" /\ s.at = a
Covers(s, a) == s.do = "verify" /\ s.at <= a /\ a < s.at + Len(s.cells)
Wipes(s, a) == s.do = "erase" /\ s.at <= a /\ a < s.at + Sector

\* Erases come first, programming goes up, and does not go back to what has
\* been verified.
Orderly(t) ==
  \A i, j \in DOMAIN t : i < j =>
    /\ t[j].do = "erase" => t[i].do = "erase"
    /\ t[i].do = "program" /\ t[j].do = "program" => t[i].at < t[j].at
    /\ t[i].do = "verify" /\ t[j].do = "program" => t[i].at + Len(t[i].cells) <= t[j].at

\* Each step of t brings a cell from lo up to hi to what img holds there, or
\* verifies that it has, and each of these cells is programmed and verified.
StepOf(s, img, lo, hi) ==
  \/ /\ s.do = "program" /\ s.at \in lo .. hi - 1 /\ s.cells = <<img[s.at]>>
  \/ /\ s.do = "verify" /\ s.at \in lo .. hi /\ s.at + Len(s.cells) <= hi
     /\ \A k \in DOMAIN s.cells : s.cells[k] = img[s.at + k - 1]

Writes(t, img, lo, hi) ==
  /\ t \in Seq(Steps) /\ Orderly(t)
  /\ \A j \in DOMAIN t : StepOf(t[j], img, lo, hi)
  /\ \A a \in lo .. hi - 1 : /\ \E j \in DOMAIN t : Programs(t[j], a)
                             /\ \E j \in DOMAIN t : Covers(t[j], a)

LEMMA StepFacts ==
  ASSUME NEW t \in Seq(Steps), NEW j \in DOMAIN t
  PROVE  /\ t[j] \in Steps /\ t[j].do \in {"erase", "program", "verify"} /\ t[j].at \in Nat
         /\ t[j].cells \in Seq(Cells) /\ Len(t[j].cells) \in Nat
         /\ DOMAIN t[j].cells = 1 .. Len(t[j].cells)
<1>1. t[j] \in Steps
  BY ElementOfSeq
<1>2. t[j].cells \in Seq(Cells) /\ t[j].at \in Nat /\ t[j].do \in {"erase", "program", "verify"}
  BY <1>1 DEF Steps
<1> QED
  BY <1>1, <1>2, LenProperties

LEMMA StepWidens ==
  ASSUME NEW s \in Steps, NEW img, NEW lo \in Nat, NEW hi \in Nat, NEW from \in Nat, NEW to \in Nat,
         from <= lo, hi <= to, StepOf(s, img, lo, hi)
  PROVE  StepOf(s, img, from, to)
<1>1. s.at \in Nat /\ Len(s.cells) \in Nat
  BY LenProperties DEF Steps
<1>2. CASE s.do = "program"
  BY <1>1, <1>2 DEF StepOf
<1>3. CASE s.do = "verify"
  BY <1>1, <1>3 DEF StepOf
<1> QED
  BY <1>2, <1>3 DEF StepOf

LEMMA StepFields ==
  ASSUME NEW s, NEW d, NEW x, NEW b, s = [do |-> d, at |-> x, cells |-> b]
  PROVE  s.do = d /\ s.at = x /\ s.cells = b
OBVIOUS

LEMMA PutFacts ==
  ASSUME NEW at \in Nat, NEW bytes \in Seq(Cells)
  PROVE  /\ Put(at, bytes) \in Seq(Steps) /\ Len(Put(at, bytes)) = Len(bytes) + 1
         /\ Len(bytes) \in Nat /\ DOMAIN Put(at, bytes) = 1 .. Len(bytes) + 1
         /\ \A j \in 1 .. Len(bytes) :
              Put(at, bytes)[j] = [do |-> "program", at |-> at + j - 1, cells |-> <<bytes[j]>>]
         /\ Put(at, bytes)[Len(bytes) + 1] = [do |-> "verify", at |-> at, cells |-> bytes]
<1> DEFINE n == Len(bytes)
           p == [k \in 1 .. n |-> [do |-> "program", at |-> at + k - 1, cells |-> <<bytes[k]>>]]
           v == [do |-> "verify", at |-> at, cells |-> bytes]
<1>1. n \in Nat /\ \A k \in 1 .. n : bytes[k] \in Cells
  BY LenProperties, ElementOfSeq
<1>2. \A k \in 1 .. n : p[k] \in Steps
  <2> SUFFICES ASSUME NEW k \in 1 .. n PROVE p[k] \in Steps
    OBVIOUS
  <2>1. at + k - 1 \in Nat /\ <<bytes[k]>> \in Seq(Cells)
    BY <1>1
  <2> QED
    BY <2>1 DEF Steps
<1>3. p \in Seq(Steps) /\ Len(p) = n
  <2>1. p \in [1 .. n -> Steps]
    BY <1>2
  <2> HIDE DEF p, n
  <2> QED
    BY <1>1, <2>1
<1>4. v \in Steps
  BY DEF Steps
<1>5. <<v>> \in Seq(Steps) /\ Len(<<v>>) = 1 /\ <<v>>[1] = v
  BY <1>4
<1>6. Put(at, bytes) = p \o <<v>>
  BY DEF Put
<1>7. p \o <<v>> \in Seq(Steps) /\ Len(p \o <<v>>) = n + 1
      /\ \A i \in 1 .. n + 1 : (p \o <<v>>)[i] = IF i <= n THEN p[i] ELSE <<v>>[i - n]
  BY <1>3, <1>5, ConcatProperties
<1>8. \A j \in 1 .. n : (p \o <<v>>)[j] = [do |-> "program", at |-> at + j - 1, cells |-> <<bytes[j]>>]
  BY <1>1, <1>7
<1>9. (p \o <<v>>)[n + 1] = v
  BY <1>1, <1>5, <1>7
<1>10. DOMAIN (p \o <<v>>) = 1 .. n + 1
  BY <1>7
<1> HIDE DEF p
<1> QED
  BY <1>1, <1>6, <1>7, <1>8, <1>9, <1>10

LEMMA PutWrites ==
  ASSUME NEW at \in Nat, NEW bytes \in Seq(Cells), NEW img,
         \A k \in 1 .. Len(bytes) : img[at + k - 1] = bytes[k]
  PROVE  Writes(Put(at, bytes), img, at, at + Len(bytes))
<1> DEFINE t == Put(at, bytes)  n == Len(bytes)
<1>1. /\ t \in Seq(Steps) /\ n \in Nat /\ DOMAIN t = 1 .. n + 1
      /\ \A j \in 1 .. n : t[j].do = "program" /\ t[j].at = at + j - 1 /\ t[j].cells = <<bytes[j]>>
      /\ t[n + 1].do = "verify" /\ t[n + 1].at = at /\ t[n + 1].cells = bytes
  <2>1. \A j \in 1 .. n : t[j] = [do |-> "program", at |-> at + j - 1, cells |-> <<bytes[j]>>]
    BY PutFacts
  <2>2. t[n + 1] = [do |-> "verify", at |-> at, cells |-> bytes]
    BY PutFacts
  <2>3. t \in Seq(Steps) /\ n \in Nat /\ DOMAIN t = 1 .. n + 1
    BY PutFacts
  <2> HIDE DEF t
  <2>4. ASSUME NEW j \in 1 .. n
        PROVE  t[j].do = "program" /\ t[j].at = at + j - 1 /\ t[j].cells = <<bytes[j]>>
    <3>1. t[j] = [do |-> "program", at |-> at + j - 1, cells |-> <<bytes[j]>>]
      BY <2>1
    <3> QED
      BY <3>1, StepFields
  <2>5. t[n + 1].do = "verify" /\ t[n + 1].at = at /\ t[n + 1].cells = bytes
    BY <2>2, StepFields
  <2> QED
    BY <2>3, <2>4, <2>5
<1> HIDE DEF t
<1>2. Orderly(t)
  BY <1>1 DEF Orderly
<1>3. ASSUME NEW j \in DOMAIN t PROVE StepOf(t[j], img, at, at + n)
  <2>1. CASE j \in 1 .. n
    BY <1>1, <2>1 DEF StepOf
  <2>2. CASE j = n + 1
    BY <1>1, <2>2 DEF StepOf
  <2> QED
    BY <1>1, <2>1, <2>2
<1>4. ASSUME NEW a \in at .. at + n - 1
      PROVE  (\E j \in DOMAIN t : Programs(t[j], a)) /\ (\E j \in DOMAIN t : Covers(t[j], a))
  <2>1. a - at + 1 \in 1 .. n /\ at + (a - at + 1) - 1 = a
    BY <1>1
  <2>2. Programs(t[a - at + 1], a)
    BY <1>1, <2>1 DEF Programs
  <2>3. Covers(t[n + 1], a)
    BY <1>1 DEF Covers
  <2>4. n + 1 \in DOMAIN t /\ a - at + 1 \in DOMAIN t
    BY <1>1, <2>1
  <2> QED
    BY <2>2, <2>3, <2>4
<1> QED
  BY <1>1, <1>2, <1>3, <1>4 DEF Writes, t

LEMMA WritesAgree ==
  ASSUME NEW t, NEW img, NEW other, NEW lo \in Nat, NEW hi \in Nat, Writes(t, img, lo, hi),
         \A a \in lo .. hi - 1 : other[a] = img[a]
  PROVE  Writes(t, other, lo, hi)
<1>1. ASSUME NEW j \in DOMAIN t PROVE StepOf(t[j], other, lo, hi)
  <2>1. StepOf(t[j], img, lo, hi) /\ t[j] \in Steps
    BY ElementOfSeq DEF Writes
  <2>2. t[j].cells \in Seq(Cells) /\ t[j].at \in Nat
    BY <2>1 DEF Steps
  <2>3. CASE t[j].do = "program"
    BY <2>1, <2>3 DEF StepOf
  <2>4. CASE t[j].do = "verify"
    <3>1. \A k \in DOMAIN t[j].cells : k \in 1 .. Len(t[j].cells)
      BY <2>2
    <3>2. /\ t[j].at \in lo .. hi /\ t[j].at + Len(t[j].cells) <= hi
          /\ \A k \in DOMAIN t[j].cells : t[j].cells[k] = img[t[j].at + k - 1]
      BY <2>1, <2>4 DEF StepOf
    <3>3. \A k \in DOMAIN t[j].cells : t[j].at + k - 1 \in lo .. hi - 1
      BY <2>2, <3>1, <3>2, LenProperties
    <3> QED
      BY <2>4, <3>2, <3>3 DEF StepOf
  <2> QED
    BY <2>1, <2>3, <2>4 DEF StepOf
<1> QED
  BY <1>1 DEF Writes

LEMMA WritesJoin ==
  ASSUME NEW t, NEW u, NEW img, NEW lo \in Nat, NEW mid \in Nat, NEW hi \in Nat,
         lo <= mid, mid <= hi, Writes(t, img, lo, mid), Writes(u, img, mid, hi)
  PROVE  Writes(t \o u, img, lo, hi)
<1> DEFINE w == t \o u  n == Len(t)  m == Len(u)
<1>1. t \in Seq(Steps) /\ u \in Seq(Steps) /\ n \in Nat /\ m \in Nat
      /\ DOMAIN t = 1 .. n /\ DOMAIN u = 1 .. m
  BY LenProperties DEF Writes
<1>2. w \in Seq(Steps) /\ DOMAIN w = 1 .. n + m
      /\ (\A j \in 1 .. n : w[j] = t[j]) /\ (\A j \in n + 1 .. n + m : w[j] = u[j - n])
  <2>1. w \in Seq(Steps) /\ Len(w) = n + m
        /\ \A i \in 1 .. n + m : w[i] = IF i <= n THEN t[i] ELSE u[i - n]
    BY <1>1, ConcatProperties
  <2> HIDE DEF w
  <2> QED
    BY <1>1, <2>1
<1> HIDE DEF w, n, m
<1>3. \A j \in 1 .. n : StepOf(t[j], img, lo, mid) /\ t[j] \in Steps /\ Len(t[j].cells) \in Nat /\ t[j].at \in Nat
  BY <1>1, StepFacts DEF Writes
<1>4. \A j \in 1 .. m : StepOf(u[j], img, mid, hi) /\ u[j] \in Steps /\ Len(u[j].cells) \in Nat /\ u[j].at \in Nat
  BY <1>1, StepFacts DEF Writes
<1>5. ASSUME NEW j \in DOMAIN w PROVE StepOf(w[j], img, lo, hi)
  <2>1. CASE j \in 1 .. n
    BY <1>2, <1>3, <2>1, StepWidens
  <2>2. CASE j \in n + 1 .. n + m
    <3>1. j - n \in 1 .. m
      BY <1>1, <2>2
    <3> QED
      BY <1>2, <1>4, <2>2, <3>1, StepWidens
  <2> QED
    BY <1>1, <1>2, <2>1, <2>2
<1>6. ASSUME NEW i \in DOMAIN w, NEW j \in DOMAIN w, i < j
      PROVE  /\ w[j].do = "erase" => w[i].do = "erase"
             /\ w[i].do = "program" /\ w[j].do = "program" => w[i].at < w[j].at
             /\ w[i].do = "verify" /\ w[j].do = "program" => w[i].at + Len(w[i].cells) <= w[j].at
  <2>1. CASE j \in 1 .. n
    <3>1. i \in 1 .. n /\ w[i] = t[i] /\ w[j] = t[j] /\ Orderly(t)
      BY <1>1, <1>2, <1>6, <2>1 DEF Writes
    <3> QED
      BY <1>1, <1>6, <2>1, <3>1 DEF Orderly
  <2>2. CASE i \in 1 .. n /\ j \in n + 1 .. n + m
    <3>1. j - n \in 1 .. m /\ w[i] = t[i] /\ w[j] = u[j - n]
      BY <1>1, <1>2, <2>2
    <3>2. StepOf(w[i], img, lo, mid) /\ Len(w[i].cells) \in Nat /\ w[i].at \in Nat
      BY <1>3, <2>2, <3>1
    <3>3. StepOf(w[j], img, mid, hi) /\ w[j].at \in Nat
      BY <1>4, <3>1
    <3> QED
      BY <3>2, <3>3 DEF StepOf
  <2>3. CASE i \in n + 1 .. n + m /\ j \in n + 1 .. n + m
    <3>1. i - n \in 1 .. m /\ j - n \in 1 .. m /\ i - n < j - n
          /\ w[i] = u[i - n] /\ w[j] = u[j - n] /\ Orderly(u)
      BY <1>1, <1>2, <1>6, <2>3 DEF Writes
    <3> QED
      BY <1>1, <3>1 DEF Orderly
  <2> QED
    BY <1>1, <1>2, <1>6, <2>1, <2>2, <2>3
<1>7. Orderly(w)
  BY <1>6 DEF Orderly
<1>8. ASSUME NEW a \in lo .. hi - 1
      PROVE  (\E j \in DOMAIN w : Programs(w[j], a)) /\ (\E j \in DOMAIN w : Covers(w[j], a))
  <2>1. CASE a < mid
    <3>1. PICK j \in 1 .. n : Programs(t[j], a)
      BY <1>1, <2>1 DEF Writes
    <3>2. PICK k \in 1 .. n : Covers(t[k], a)
      BY <1>1, <2>1 DEF Writes
    <3> QED
      BY <1>1, <1>2, <3>1, <3>2
  <2>2. CASE ~(a < mid)
    <3>1. PICK j \in 1 .. m : Programs(u[j], a)
      BY <1>1, <2>2 DEF Writes
    <3>2. PICK k \in 1 .. m : Covers(u[k], a)
      BY <1>1, <2>2 DEF Writes
    <3>3. \A i \in 1 .. m : n + i \in DOMAIN w /\ w[n + i] = u[i]
      BY <1>1, <1>2
    <3> QED
      BY <3>1, <3>2, <3>3
  <2> QED
    BY <2>1, <2>2
<1> QED
  BY <1>2, <1>5, <1>7, <1>8 DEF Writes, w

-----------------------------------------------------------------------------
\* What the window holds once a compaction has put the live records back.

\* Every header in the window is that of a record.
Sound(c) == \A a \in Addresses : c[a] \in Headers => a \in Starts(c)

IsCopy(c, n, img, a) ==
  \A i \in 0 .. c[Newest(c, n)].len : a + i \in Addresses /\ img[a + i] = c[Newest(c, n) + i]

\* img holds, up to top, a copy of the newest record of each name that is
\* live before cell k, and nothing else.
Image(c, k, img, S, top) ==
  /\ img \in [Addresses -> Cells] /\ top \in Nat
  /\ \A a \in Addresses : a >= top => img[a] = Erased
  /\ IsLog(img, S, top)
  /\ \A a \in S : img[a].name \in LiveNames(c, k)
  /\ \A a, b \in S : img[a].name = img[b].name => a = b
  /\ \A n \in LiveNames(c, k) : \E a \in S : IsCopy(c, n, img, a)
  /\ Sound(c) => \A a \in Addresses : img[a] \in Headers => a \in S

LEMMA ErasedIsNone ==
  /\ Erased \notin Headers /\ Torn \notin Headers /\ \A b \in Bytes : b \notin Headers
  /\ \A c : \A at : c[at] = Erased => ~IsRecord(c, at)
BY CellsAssumption DEF IsRecord

\* A record in RAM is the cells it was read from.
LEMMA CarriedIs ==
  ASSUME NEW c \in [Addresses -> Cells], NEW k, IsLive(c, k)
  PROVE  LET r == Newest(c, c[k].name) IN
         /\ Carried(c, k) \in Seq(Cells) /\ Len(Carried(c, k)) = c[r].len + 1
         /\ \A i \in 0 .. c[r].len : Carried(c, k)[i + 1] = c[r + i]
<1> DEFINE r == Newest(c, c[k].name)  m == c[r].len  d == DataOf(c, r)
           h == [name |-> c[r].name, flags |-> c[r].flags, len |-> Len(d)]
<1>1. r \in Starts(c)
  BY LiveFacts
<1>2. /\ r \in Nat /\ c[r] \in Headers /\ m \in Nat /\ r \in Addresses /\ r + 1 + m <= Capacity
  BY <1>1, LogFacts, LengthAssumption, CapacityAssumption
<1> HIDE DEF r
<1>3. \A i \in 1 .. m : r + i \in Addresses /\ c[r + i] \in Cells
  BY <1>2, CapacityAssumption DEF Addresses
<1>4. d \in Seq(Cells) /\ Len(d) = m /\ \A i \in 1 .. m : d[i] = c[r + i]
  <2>1. d \in [1 .. m -> Cells]
    BY <1>3 DEF DataOf
  <2>2. \A i \in 1 .. m : d[i] = c[r + i]
    BY DEF DataOf
  <2> HIDE DEF d, m
  <2> QED
    BY <1>2, <2>1, <2>2
<1>5. h = c[r]
  BY <1>2, <1>4 DEF Headers
<1>6. h \in Cells
  BY <1>2, <1>5 DEF Cells
<1>7. <<h>> \in Seq(Cells) /\ Len(<<h>>) = 1 /\ <<h>>[1] = c[r]
  BY <1>5, <1>6
<1>8. Carried(c, k) = <<h>> \o d
  BY DEF Carried, RecordBytes, Superseding, r
<1> HIDE DEF h, d, m
<1>9. /\ <<h>> \o d \in Seq(Cells) /\ Len(<<h>> \o d) = 1 + m
      /\ \A i \in 1 .. 1 + m : (<<h>> \o d)[i] = IF i <= 1 THEN <<h>>[i] ELSE d[i - 1]
  BY <1>4, <1>7, ConcatProperties
<1>10. ASSUME NEW i \in 0 .. m PROVE (<<h>> \o d)[i + 1] = c[r + i]
  <2>1. CASE i = 0
    BY <1>2, <1>7, <1>9, <2>1
  <2>2. CASE i # 0
    <3>1. i \in 1 .. m /\ i + 1 \in 1 .. 1 + m /\ ~(i + 1 <= 1) /\ (i + 1) - 1 = i
      BY <1>2, <2>2
    <3> QED
      BY <1>4, <1>9, <3>1
  <2> QED
    BY <2>1, <2>2
<1>11. Len(<<h>> \o d) = m + 1
  BY <1>2, <1>9
<1> QED
  BY <1>8, <1>9, <1>10, <1>11 DEF r, m

\* One more record at the top.
LEMMA ImageGrows ==
  ASSUME NEW c \in [Addresses -> Cells], NEW k \in 0 .. Capacity - 1, IsLive(c, k),
         NEW img, NEW S, NEW top, Image(c, k, img, S, top),
         top + c[Newest(c, c[k].name)].len + 1 <= Capacity
  PROVE  LET r == Newest(c, c[k].name)
             new == [a \in Addresses |-> IF top <= a /\ a <= top + c[r].len THEN c[r + (a - top)] ELSE img[a]]
         IN  Image(c, k + 1, new, S \cup {top}, top + c[r].len + 1)
<1> DEFINE n == c[k].name
           r == Newest(c, n)
           m == c[r].len
           new == [a \in Addresses |-> IF top <= a /\ a <= top + m THEN c[r + (a - top)] ELSE img[a]]
           end == top + m + 1
<1>1. r \in Starts(c) /\ c[r].name = n /\ n \in Names
  BY LiveFacts
<1>2. /\ r \in Nat /\ c[r] \in Headers /\ m \in Nat /\ r \in Addresses /\ r + 1 + m <= Capacity
      /\ \A a, b \in Starts(c) : a < b => Past(c, a) <= b
      /\ Past(c, r) = r + 1 + m
  BY <1>1, LogFacts, LengthAssumption, CapacityAssumption
<1>3. /\ img \in [Addresses -> Cells] /\ top \in Nat
      /\ \A a \in Addresses : a >= top => img[a] = Erased
      /\ IsLog(img, S, top)
      /\ \A a \in S : img[a].name \in LiveNames(c, k)
      /\ \A a, b \in S : img[a].name = img[b].name => a = b
      /\ \A x \in LiveNames(c, k) : \E a \in S : IsCopy(c, x, img, a)
      /\ Sound(c) => \A a \in Addresses : img[a] \in Headers => a \in S
  BY DEF Image
<1>4. n \notin LiveNames(c, k) /\ LiveNames(c, k + 1) = LiveNames(c, k) \cup {n}
  BY SpansGrow
<1>5. end <= Capacity
  OBVIOUS
<1> HIDE DEF n, r, m
<1>6. \A i \in 0 .. m : top + i \in Addresses /\ r + i \in Addresses /\ new[top + i] = c[r + i]
  <2> SUFFICES ASSUME NEW i \in 0 .. m
               PROVE  top + i \in Addresses /\ r + i \in Addresses /\ new[top + i] = c[r + i]
    OBVIOUS
  <2>1. top + i \in Addresses /\ r + i \in Addresses
    BY <1>2, <1>3, <1>5, CapacityAssumption DEF Addresses
  <2>2. top <= top + i /\ top + i <= top + m /\ (top + i) - top = i
    BY <1>2, <1>3
  <2> QED
    BY <2>1, <2>2
<1>7. \A a \in Addresses : a < top \/ a > top + m => new[a] = img[a]
  BY <1>2, <1>3 DEF Addresses
<1>8. \A a \in Addresses : a < top \/ a > top + m \/ \E i \in 0 .. m : a = top + i
  <2> SUFFICES ASSUME NEW a \in Addresses, ~(a < top), ~(a > top + m)
               PROVE  \E i \in 0 .. m : a = top + i
    OBVIOUS
  <2>1. a - top \in 0 .. m /\ a = top + (a - top)
    BY <1>2, <1>3 DEF Addresses
  <2> QED
    BY <2>1
<1>9. new \in [Addresses -> Cells]
  <2>1. \A a \in Addresses : new[a] \in Cells
    <3> HIDE DEF new
    <3> QED
      BY <1>3, <1>6, <1>7, <1>8
  <2> QED
    BY <2>1
<1> HIDE DEF new
<1>10. new[top] = c[r] /\ top \in Addresses
  <2>1. 0 \in 0 .. m /\ top + 0 = top /\ r + 0 = r
    BY <1>2, <1>3
  <2> QED
    BY <1>6, <2>1
<1>11. \A a \in Addresses : a >= end => new[a] = Erased
  BY <1>2, <1>3, <1>7 DEF Addresses
<1>12. \A a \in S : /\ a \in Nat /\ a < top /\ a \in Addresses /\ new[a] = img[a]
                    /\ IsRecord(img, a) /\ Past(img, a) <= top /\ Past(img, a) \in S \cup {top}
  <2> SUFFICES ASSUME NEW a \in S
               PROVE  /\ a \in Nat /\ a < top /\ a \in Addresses /\ new[a] = img[a]
                      /\ IsRecord(img, a) /\ Past(img, a) <= top /\ Past(img, a) \in S \cup {top}
    OBVIOUS
  <2>0. S \subseteq 0 .. top - 1
    BY <1>3 DEF IsLog, IsLogFrom
  <2>1. IsRecord(img, a) /\ Past(img, a) \in S \cup {top}
    BY <1>3 DEF IsLog, IsLogFrom
  <2>2. a \in Nat /\ a < top /\ Past(img, a) <= top
    <3>1. \A b \in S : b \in Nat /\ b < top
      BY <1>3, <2>0
    <3> HIDE DEF Past
    <3> QED
      BY <1>3, <2>1, <3>1
  <2>3. a \in Addresses
    BY <1>2, <1>3, <1>5, <2>2, CapacityAssumption DEF Addresses
  <2> QED
    BY <1>7, <2>1, <2>2, <2>3
<1>13. IsLog(new, S \cup {top}, end)
  <2>1. \A a \in S : IsRecord(new, a) /\ Past(new, a) = Past(img, a)
    BY <1>12 DEF IsRecord, Past
  <2>2. IsRecord(new, top) /\ Past(new, top) = end
    BY <1>2, <1>3, <1>5, <1>10, CapacityAssumption DEF IsRecord, Past, Addresses, m
  <2>3. ~IsRecord(new, end)
    <3>1. CASE end \in Addresses
      BY <1>2, <1>3, <1>11, <3>1, ErasedIsNone
    <3>2. CASE end \notin Addresses
      BY <1>2, <1>3, <3>2, CapacityAssumption DEF IsRecord, Addresses
    <3> QED
      BY <3>1, <3>2
  <2>4. S \cup {top} \subseteq 0 .. end - 1 /\ end \in 0 .. Capacity /\ 0 \in S \cup {top}
    BY <1>2, <1>3, <1>5, <1>12 DEF IsLog, IsLogFrom
  <2>5. \A a \in S \cup {top} : IsRecord(new, a) /\ Past(new, a) \in (S \cup {top}) \cup {end}
    BY <1>12, <2>1, <2>2
  <2>6. \A a, b \in S \cup {top} : a < b => Past(new, a) <= b
    BY <1>3, <1>12, <2>1 DEF IsLog, IsLogFrom
  <2> QED
    BY <2>3, <2>4, <2>5, <2>6, CapacityAssumption DEF IsLog, IsLogFrom
<1>14. \A a \in S \cup {top} : new[a].name \in LiveNames(c, k + 1)
  BY <1>1, <1>3, <1>4, <1>10, <1>12
<1>15. \A a, b \in S \cup {top} : new[a].name = new[b].name => a = b
  BY <1>1, <1>3, <1>4, <1>10, <1>12
<1>16. ASSUME NEW x \in LiveNames(c, k + 1) PROVE \E a \in S \cup {top} : IsCopy(c, x, new, a)
  <2>1. CASE x = n
    <3>1. IsCopy(c, x, new, top)
      BY <1>6, <2>1 DEF IsCopy, r, m
    <3> QED
      BY <3>1
  <2>2. CASE x \in LiveNames(c, k)
    <3>1. PICK a \in S : IsCopy(c, x, img, a)
      BY <1>3, <2>2
    <3> DEFINE q == c[Newest(c, x)].len
    <3>2. Matches(c, x) # {}
      BY <2>2, LiveFacts DEF LiveNames
    <3>3. q \in Nat /\ Newest(c, x) + 0 = Newest(c, x)
      BY <3>2, NewestIs, LogFacts, LengthAssumption
    <3>4. \A i \in 0 .. q : a + i \in Addresses /\ img[a + i] = c[Newest(c, x) + i]
      BY <3>1 DEF IsCopy
    <3>5. img[a] = c[Newest(c, x)]
      BY <1>12, <3>3, <3>4
    <3>6. a + 1 + q <= top
      BY <1>12, <3>5 DEF Past
    <3>7. \A i \in 0 .. q : a + i < top
      BY <1>3, <1>12, <3>3, <3>6
    <3>8. \A i \in 0 .. q : a + i \in Addresses /\ new[a + i] = c[Newest(c, x) + i]
      BY <1>7, <3>4, <3>7
    <3> QED
      BY <3>8 DEF IsCopy
  <2> QED
    BY <1>4, <2>1, <2>2
<1>17. ASSUME Sound(c), NEW a \in Addresses, new[a] \in Headers PROVE a \in S \cup {top}
  <2>1. CASE a < top \/ a > top + m
    BY <1>3, <1>7, <1>17, <2>1
  <2>2. CASE \E i \in 0 .. m : a = top + i
    <3>1. PICK i \in 0 .. m : a = top + i
      BY <2>2
    <3>2. r + i \in Starts(c)
      BY <1>6, <1>17, <3>1 DEF Sound
    <3>3. ~(r < r + i)
      BY <1>1, <1>2, <3>2
    <3> QED
      BY <1>2, <1>3, <3>1, <3>3
  <2> QED
    BY <1>8, <2>1, <2>2
<1>18. end \in Nat
  BY <1>2, <1>3
<1>19. Image(c, k + 1, new, S \cup {top}, end)
  BY <1>9, <1>11, <1>13, <1>14, <1>15, <1>16, <1>17, <1>18 DEF Image
<1> QED
  BY <1>19 DEF new, end, m, r, n

Placed(c, k, img, S) ==
  /\ Image(c, k, img, S, PutBack(c)[k].at)
  /\ Writes(PutBack(c)[k].todo, img, 0, PutBack(c)[k].at)
  /\ PutBack(c)[k].at = Cardinality(Spans(c, k))

LEMMA NothingPlaced ==
  ASSUME NEW c \in [Addresses -> Cells]
  PROVE  \E img, S : Placed(c, 0, img, S)
<1> DEFINE img == [a \in Addresses |-> Erased]
<1>1. PutBack(c)[0].at = 0 /\ PutBack(c)[0].todo = <<>>
  BY PutBackIs
<1>2. LiveNames(c, 0) = {}
  BY DEF LiveNames
<1>3. Cardinality(Spans(c, 0)) = 0
  BY <1>2, FS_EmptySet DEF Spans
<1>4. img \in [Addresses -> Cells] /\ \A a \in Addresses : img[a] = Erased
  BY DEF Cells
<1> HIDE DEF img
<1>5. ~IsRecord(img, 0)
  BY <1>4, ErasedIsNone, CapacityAssumption DEF IsRecord, Addresses
<1>6. IsLog(img, {}, 0)
  BY <1>5, CapacityAssumption DEF IsLog, IsLogFrom
<1>7. Image(c, 0, img, {}, 0)
  BY <1>2, <1>4, <1>6, ErasedIsNone DEF Image
<1>8. Writes(<<>>, img, 0, 0)
  BY DEF Writes, Orderly
<1> QED
  BY <1>1, <1>3, <1>7, <1>8 DEF Placed

LEMMA DoneFields ==
  ASSUME NEW s, NEW x, NEW t, s = [at |-> x, todo |-> t]
  PROVE  s.at = x /\ s.todo = t
OBVIOUS

LEMMA MorePlaced ==
  ASSUME NEW c \in [Addresses -> Cells], NEW k \in 0 .. Capacity - 1, NEW img, NEW S, Placed(c, k, img, S)
  PROVE  \E new, T : Placed(c, k + 1, new, T)
<1>0. k + 1 \in 1 .. Capacity /\ (k + 1) - 1 = k /\ k + 1 \in 0 .. Capacity
  BY CapacityAssumption
<1>1. PutBack(c)[k + 1] = Back(c, PutBack(c)[k], k)
  BY <1>0, PutBackIs
<1> DEFINE at == PutBack(c)[k].at  todo0 == PutBack(c)[k].todo
<1>2. Image(c, k, img, S, at) /\ Writes(todo0, img, 0, at) /\ at = Cardinality(Spans(c, k))
  BY DEF Placed
<1>3. CASE ~IsLive(c, k)
  <2>1. PutBack(c)[k + 1] = PutBack(c)[k]
    BY <1>1, <1>3 DEF Back
  <2>2. LiveNames(c, k + 1) = LiveNames(c, k) /\ Spans(c, k + 1) = Spans(c, k)
    BY <1>3, SpansGrow
  <2>3. Placed(c, k + 1, img, S)
    BY <1>2, <2>1, <2>2 DEF Placed, Image
  <2> QED
    BY <2>3
<1>4. CASE IsLive(c, k)
  <2> DEFINE r == Newest(c, c[k].name)
             m == c[r].len
             bytes == Carried(c, k)
             new == [a \in Addresses |-> IF at <= a /\ a <= at + m THEN c[r + (a - at)] ELSE img[a]]
  <2>1. PutBack(c)[k + 1].at = at + Len(bytes) /\ PutBack(c)[k + 1].todo = todo0 \o Put(at, bytes)
    <3>1. PutBack(c)[k + 1] = [at |-> at + Len(bytes), todo |-> todo0 \o Put(at, bytes)]
      BY <1>1, <1>4 DEF Back
    <3> HIDE DEF at, todo0, bytes
    <3> QED
      BY <3>1, DoneFields
  <2>2. bytes \in Seq(Cells) /\ Len(bytes) = m + 1 /\ \A i \in 0 .. m : bytes[i + 1] = c[r + i]
    BY <1>4, CarriedIs
  <2>3. m \in Nat
    BY <1>4, LiveFacts, LogFacts, LengthAssumption
  <2>4. Cardinality(Spans(c, k + 1)) = at + m + 1
    BY <1>2, <1>4, SpansGrow
  <2>5. at + m + 1 <= Capacity /\ at \in Nat
    <3>1. Cardinality(Spans(c, k + 1)) <= End(c) /\ End(c) \in 0 .. Capacity
      BY <1>0, SpansFit, LogFacts
    <3> QED
      BY <1>2, <2>3, <2>4, <3>1, CapacityAssumption DEF Image
  <2>6. Image(c, k + 1, new, S \cup {at}, at + m + 1)
    BY <1>2, <1>4, <2>5, ImageGrows
  <2> HIDE DEF at, todo0, bytes, m, r
  <2>7. \A a \in 0 .. at - 1 : new[a] = img[a]
    BY <2>3, <2>5, CapacityAssumption DEF Addresses
  <2>8. \A i \in 1 .. Len(bytes) : new[at + i - 1] = bytes[i]
    <3> SUFFICES ASSUME NEW i \in 1 .. Len(bytes) PROVE new[at + i - 1] = bytes[i]
      OBVIOUS
    <3>1. i - 1 \in 0 .. m /\ (i - 1) + 1 = i /\ at + i - 1 \in Addresses
          /\ at <= at + i - 1 /\ at + i - 1 <= at + m /\ (at + i - 1) - at = i - 1
      BY <2>2, <2>3, <2>5, CapacityAssumption DEF Addresses
    <3>2. new[at + i - 1] = c[r + (i - 1)]
      BY <3>1
    <3> QED
      BY <2>2, <3>1, <3>2
  <2> HIDE DEF new
  <2>9. Writes(todo0, new, 0, at)
    BY <1>2, <2>5, <2>7, WritesAgree
  <2>10. Writes(Put(at, bytes), new, at, at + Len(bytes))
    BY <2>2, <2>5, <2>8, PutWrites
  <2>11. Writes(todo0 \o Put(at, bytes), new, 0, at + Len(bytes))
    BY <2>2, <2>3, <2>5, <2>9, <2>10, WritesJoin
  <2>12. Placed(c, k + 1, new, S \cup {at})
    <3>1. at + Len(bytes) = at + m + 1
      BY <2>2, <2>3, <2>5
    <3> QED
      BY <2>1, <2>4, <2>6, <2>11, <3>1 DEF Placed
  <2> QED
    BY <2>12
<1> QED
  BY <1>3, <1>4

LEMMA AllPlaced ==
  ASSUME NEW c \in [Addresses -> Cells]
  PROVE  \E img, S : Placed(c, Capacity, img, S)
<1> DEFINE I == {k \in Nat : k <= Capacity => \E img, S : Placed(c, k, img, S)}
<1>1. 0 \in I
  BY NothingPlaced
<1>2. ASSUME NEW k \in Nat, k \in I PROVE k + 1 \in I
  <2> SUFFICES ASSUME k + 1 <= Capacity PROVE \E img, S : Placed(c, k + 1, img, S)
    OBVIOUS
  <2>1. k \in 0 .. Capacity - 1
    BY CapacityAssumption
  <2>2. \E img, S : Placed(c, k, img, S)
    BY <1>2, <2>1, CapacityAssumption
  <2> QED
    BY <2>1, <2>2, MorePlaced
<1> HIDE DEF I
<1>3. Nat \subseteq I
  BY <1>1, <1>2, SetInduction
<1> QED
  BY <1>3, CapacityAssumption DEF I

\* It reads like the window it was made of.
LEMMA ImageReads ==
  ASSUME NEW c \in [Addresses -> Cells], NEW img, NEW S, NEW top, Image(c, Capacity, img, S, top)
  PROVE  End(img) = top /\ Contents(img) = Contents(c) /\ (Sound(c) => Sound(img))
<1>1. /\ IsLog(img, S, top)
      /\ \A a \in S : img[a].name \in LiveNames(c, Capacity)
      /\ \A a, b \in S : img[a].name = img[b].name => a = b
      /\ \A n \in LiveNames(c, Capacity) : \E a \in S : IsCopy(c, n, img, a)
      /\ Sound(c) => \A a \in Addresses : img[a] \in Headers => a \in S
  BY DEF Image
<1>2. S = Starts(img) /\ top = End(img)
  BY <1>1, LogIsUnique
<1>3. ASSUME NEW n \in Names PROVE Read(img, n) = Read(c, n)
  <2>1. CASE n \in LiveNames(c, Capacity)
    <3> DEFINE r == Newest(c, n)
    <3>1. Matches(c, n) # {} /\ c[r].flags # "deleted"
      BY <2>1, LiveAreRead
    <3>2. r \in Starts(c) /\ c[r].name = n
      BY <3>1, NewestIs
    <3>3. c[r].len \in Nat /\ r \in Nat
      BY <3>2, LogFacts, LengthAssumption
    <3>4. PICK a \in S : IsCopy(c, n, img, a)
      BY <1>1, <2>1
    <3>5. \A i \in 0 .. c[r].len : img[a + i] = c[r + i]
      BY <3>4 DEF IsCopy
    <3>6. a \in Nat
      BY <1>2, LogFacts
    <3> HIDE DEF r
    <3>7. img[a] = c[r]
      <4>1. 0 \in 0 .. c[r].len /\ a + 0 = a /\ r + 0 = r
        BY <3>3, <3>6
      <4> QED
        BY <3>5, <4>1
    <3>8. \A b \in Starts(img) : img[b].name = n => b <= a
      BY <1>1, <1>2, <3>2, <3>6, <3>7
    <3>9. Matches(img, n) # {} /\ Newest(img, n) = a
      BY <1>2, <3>2, <3>7, <3>8, NewestIsOne
    <3>10. DataOf(img, a) = DataOf(c, r)
      BY <3>3, <3>5, <3>7 DEF DataOf
    <3> QED
      BY <3>1, <3>7, <3>9, <3>10 DEF Read, r
  <2>2. CASE n \notin LiveNames(c, Capacity)
    <3>1. Matches(img, n) = {}
      BY <1>1, <1>2, <2>2 DEF Matches
    <3>2. Matches(c, n) = {} \/ c[Newest(c, n)].flags = "deleted"
      BY <2>2, LiveAreRead
    <3> QED
      BY <3>1, <3>2 DEF Read
  <2> QED
    BY <2>1, <2>2
<1> QED
  BY <1>1, <1>2, <1>3 DEF Contents, Sound

\* The cells that the files as they stand take up are those of the live records.
LEMMA OccupiedIs ==
  ASSUME NEW c \in [Addresses -> Cells]
  PROVE  Occupied(Contents(c)) = Cardinality(Spans(c, Capacity))
<1> DEFINE L == LiveNames(c, Capacity)
<1>1. ASSUME NEW n \in L
      PROVE  n \in Names /\ Contents(c)[n] # None /\ Len(Contents(c)[n]) = c[Newest(c, n)].len
  <2> DEFINE r == Newest(c, n)
  <2>1. n \in Names /\ Matches(c, n) # {} /\ c[r].flags # "deleted"
    BY LiveAreRead
  <2>2. r \in Starts(c)
    BY <2>1, NewestIs
  <2>3. c[r].len \in 0 .. MaxLen /\ r \in Nat /\ r + 1 + c[r].len <= Capacity
    BY <2>2, LogFacts, LengthAssumption, CapacityAssumption
  <2>4. Contents(c)[n] = DataOf(c, r)
    BY <2>1 DEF Contents, Read
  <2> HIDE DEF r
  <2>5. \A k \in 1 .. c[r].len : c[r + k] \in Cells
    BY <2>3, CapacityAssumption, LengthAssumption DEF Addresses
  <2>6. DataOf(c, r) \in [1 .. c[r].len -> Cells]
    BY <2>5 DEF DataOf
  <2>7. DataOf(c, r) # None
    BY <2>3, <2>6, NoneAssumption
  <2>8. Len(DataOf(c, r)) = c[r].len
    <3>1. c[r].len \in Nat
      BY <2>3, LengthAssumption
    <3> QED
      BY <2>6, <3>1
  <2> QED
    BY <2>1, <2>4, <2>7, <2>8 DEF r
<1>2. {n \in Names : Contents(c)[n] # None} = L
  <2>1. ASSUME NEW n \in Names, n \notin L PROVE Contents(c)[n] = None
    BY <2>1, LiveAreRead DEF Contents, Read
  <2> QED
    BY <1>1, <2>1
<1>3. \A n \in L : {n} \X (0 .. Len(Contents(c)[n])) = SpanOf(c, n)
  BY <1>1 DEF SpanOf
<1> HIDE DEF L
<1>4. UNION {{n} \X (0 .. Len(Contents(c)[n])) : n \in L} = UNION {SpanOf(c, n) : n \in L}
  BY <1>3
<1> QED
  BY <1>2, <1>4 DEF Occupied, Spans, L

-----------------------------------------------------------------------------
\* What a compaction will do.

LEMMA QuotientFacts ==
  ASSUME NEW s \in Nat, NEW d \in Nat \ {0}
  PROVE  /\ s \div d \in Nat /\ (s \div d) * d <= s /\ s < (s \div d) * d + d
         /\ (s + d - 1) \div d \in Nat
OBVIOUS

\* What s + d - 1 counts in full, counts every sector that s reaches into.
LEMMA QuotientGrows ==
  ASSUME NEW s \in Nat, NEW d \in Nat \ {0}, NEW a \in Nat, a < s
  PROVE  (a \div d) + 1 <= (s + d - 1) \div d
<1> DEFINE k == a \div d  n == (s + d - 1) \div d
<1>1. k \in Nat /\ k * d <= a /\ n \in Nat
  BY QuotientFacts
<1>2. s + d - 1 < n * d + d
  <2>1. s + d - 1 \in Nat
    OBVIOUS
  <2> QED
    BY <2>1, QuotientFacts
<1> HIDE DEF k, n
<1>3. k * d < n * d
  <2>1. k * d \in Nat /\ n * d \in Nat
    BY <1>1
  <2> QED
    BY <1>1, <1>2, <2>1
<1>4. ~(n <= k)
  BY <1>1, <1>3
<1> QED
  BY <1>1, <1>4 DEF k, n

LEMMA ErasesFacts ==
  ASSUME NEW span \in Nat
  PROVE  /\ Erases(span) \in Seq(Steps) /\ Len(Erases(span)) \in Nat
         /\ DOMAIN Erases(span) = 1 .. Len(Erases(span))
         /\ \A j \in 1 .. Len(Erases(span)) : Erases(span)[j].do = "erase"
         /\ \A a \in Nat : a < span => \E j \in 1 .. Len(Erases(span)) : Wipes(Erases(span)[j], a)
<1> DEFINE n == (span + Sector - 1) \div Sector
           e == [s \in 1 .. n |-> [do |-> "erase", at |-> (s - 1) * Sector, cells |-> <<>>]]
<1>1. Sector \in Nat \ {0}
  BY CapacityAssumption
<1>2. n \in Nat
  BY <1>1, QuotientFacts
<1>3. Erases(span) = e
  BY DEF Erases
<1>4. ASSUME NEW s \in 1 .. n
      PROVE  e[s] \in Steps /\ e[s].do = "erase" /\ e[s].at = (s - 1) * Sector
  <2>1. (s - 1) * Sector \in Nat
    <3>1. s - 1 \in Nat
      BY <1>2
    <3> QED
      BY <1>1, <3>1
  <2>2. e[s] = [do |-> "erase", at |-> (s - 1) * Sector, cells |-> <<>>]
    OBVIOUS
  <2>3. <<>> \in Seq(Cells)
    OBVIOUS
  <2> HIDE DEF e
  <2>4. e[s] \in Steps
    BY <2>1, <2>2, <2>3 DEF Steps
  <2> QED
    BY <2>2, <2>4, StepFields
<1>5. e \in [1 .. n -> Steps]
  BY <1>4
<1> HIDE DEF e, n
<1>6. e \in Seq(Steps) /\ Len(e) = n /\ DOMAIN e = 1 .. n
  BY <1>2, <1>5
<1>7. ASSUME NEW a \in Nat, a < span PROVE \E j \in 1 .. n : Wipes(e[j], a)
  <2> DEFINE k == a \div Sector
  <2>1. k \in Nat /\ k * Sector <= a /\ a < k * Sector + Sector
    BY <1>1, QuotientFacts
  <2>2. k + 1 <= n
    BY <1>1, <1>7, QuotientGrows DEF n
  <2> HIDE DEF k
  <2>3. k + 1 \in 1 .. n /\ (k + 1) - 1 = k
    BY <1>2, <2>1, <2>2
  <2>4. e[k + 1].do = "erase" /\ e[k + 1].at = k * Sector
    BY <1>4, <2>3
  <2>5. Wipes(e[k + 1], a)
    BY <2>1, <2>4 DEF Wipes
  <2> QED
    BY <2>3, <2>5
<1> QED
  BY <1>2, <1>3, <1>4, <1>6, <1>7

\* The list t makes the window img, from any window: what is below room and not
\* written is wiped.
Prepares(t, img, top, room) ==
  /\ t \in Seq(Steps) /\ Orderly(t)
  /\ \A j \in DOMAIN t : t[j].do = "erase" \/ StepOf(t[j], img, 0, top)
  /\ \A a \in 0 .. top - 1 : /\ \E j \in DOMAIN t : Programs(t[j], a)
                             /\ \E j \in DOMAIN t : Covers(t[j], a)
  /\ \A a \in Nat : a < room => \E j \in DOMAIN t : Wipes(t[j], a)

LEMMA CompactPlan ==
  ASSUME NEW c \in [Addresses -> Cells], NEW incoming \in Nat
  PROVE  \E img \in [Addresses -> Cells], top \in 0 .. End(c) :
           /\ Prepares(Compact(c, incoming), img, top, End(c) + incoming)
           /\ End(img) = top /\ Contents(img) = Contents(c) /\ Occupied(Contents(c)) = top
           /\ \A a \in Addresses : a >= top => img[a] = Erased
           /\ Sound(c) => Sound(img)
<1>1. PICK img, S : Placed(c, Capacity, img, S)
  BY AllPlaced
<1> DEFINE top == PutBack(c)[Capacity].at
           u == PutBack(c)[Capacity].todo
           room == End(c) + incoming
           t == Erases(room)
           w == t \o u
           n == Len(t)
           m == Len(u)
<1>2. Image(c, Capacity, img, S, top) /\ Writes(u, img, 0, top) /\ top = Cardinality(Spans(c, Capacity))
  BY <1>1 DEF Placed
<1>3. top \in 0 .. End(c) /\ room \in Nat /\ top \in Nat
  BY <1>2, SpansFit, LogFacts, CapacityAssumption
<1>4. Compact(c, incoming) = w
  BY DEF Compact, Wanted
<1>5. End(img) = top /\ Contents(img) = Contents(c) /\ (Sound(c) => Sound(img))
  BY <1>2, ImageReads
<1>6. Occupied(Contents(c)) = top
  BY <1>2, OccupiedIs
<1> HIDE DEF top, u, room
<1>7. /\ t \in Seq(Steps) /\ n \in Nat /\ DOMAIN t = 1 .. n
      /\ \A j \in 1 .. n : t[j].do = "erase"
      /\ \A a \in Nat : a < room => \E j \in 1 .. n : Wipes(t[j], a)
  BY <1>3, ErasesFacts
<1>8. u \in Seq(Steps) /\ m \in Nat /\ DOMAIN u = 1 .. m /\ Orderly(u)
      /\ (\A j \in 1 .. m : StepOf(u[j], img, 0, top))
      /\ \A a \in 0 .. top - 1 : /\ \E j \in 1 .. m : Programs(u[j], a)
                                 /\ \E j \in 1 .. m : Covers(u[j], a)
  <2>1. u \in Seq(Steps)
    BY <1>2 DEF Writes
  <2>2. m \in Nat /\ DOMAIN u = 1 .. m
    BY <2>1, LenProperties
  <2> QED
    BY <1>2, <2>1, <2>2 DEF Writes
<1> HIDE DEF t
<1>9. w \in Seq(Steps) /\ DOMAIN w = 1 .. n + m
      /\ (\A j \in 1 .. n : w[j] = t[j]) /\ (\A j \in n + 1 .. n + m : w[j] = u[j - n])
  <2>1. w \in Seq(Steps) /\ Len(w) = n + m
        /\ \A i \in 1 .. n + m : w[i] = IF i <= n THEN t[i] ELSE u[i - n]
    BY <1>7, <1>8, ConcatProperties
  <2> HIDE DEF w
  <2> QED
    BY <1>7, <1>8, <2>1
<1> HIDE DEF w, n, m
<1>10. \A j \in 1 .. m : n + j \in DOMAIN w /\ w[n + j] = u[j]
  BY <1>7, <1>8, <1>9
<1>11. \A j \in DOMAIN w : j \in 1 .. n \/ (j - n \in 1 .. m /\ w[j] = u[j - n])
  BY <1>7, <1>8, <1>9
<1>12. \A j \in 1 .. m : u[j].do # "erase"
  BY <1>8 DEF StepOf
<1>13. Orderly(w)
  <2> SUFFICES ASSUME NEW i \in DOMAIN w, NEW j \in DOMAIN w, i < j
               PROVE  /\ w[j].do = "erase" => w[i].do = "erase"
                      /\ w[i].do = "program" /\ w[j].do = "program" => w[i].at < w[j].at
                      /\ w[i].do = "verify" /\ w[j].do = "program" =>
                           w[i].at + Len(w[i].cells) <= w[j].at
    BY DEF Orderly
  <2>1. CASE i \in 1 .. n
    <3>1. w[i].do = "erase"
      BY <1>7, <1>9, <2>1
    <3> QED
      BY <3>1
  <2>2. CASE i \notin 1 .. n
    <3>1. j \notin 1 .. n
      BY <1>7, <1>9, <2>2
    <3>2. i - n \in 1 .. m /\ j - n \in 1 .. m /\ w[i] = u[i - n] /\ w[j] = u[j - n] /\ i - n < j - n
      BY <1>7, <1>8, <1>9, <1>11, <2>2, <3>1
    <3> QED
      BY <1>8, <1>12, <3>2 DEF Orderly
  <2> QED
    BY <2>1, <2>2
<1>14. \A j \in DOMAIN w : w[j].do = "erase" \/ StepOf(w[j], img, 0, top)
  BY <1>7, <1>8, <1>9, <1>11
<1>15. \A a \in 0 .. top - 1 : /\ \E j \in DOMAIN w : Programs(w[j], a)
                               /\ \E j \in DOMAIN w : Covers(w[j], a)
  BY <1>8, <1>10
<1>16. \A a \in Nat : a < room => \E j \in DOMAIN w : Wipes(w[j], a)
  BY <1>7, <1>8, <1>9
<1>17. Prepares(w, img, top, room)
  BY <1>9, <1>13, <1>14, <1>15, <1>16 DEF Prepares
<1>18. img \in [Addresses -> Cells] /\ \A a \in Addresses : a >= top => img[a] = Erased
  BY <1>2 DEF Image
<1> QED
  BY <1>3, <1>4, <1>5, <1>6, <1>17, <1>18 DEF room

-----------------------------------------------------------------------------
\* The invariant: what a list of steps still to do has to find, and what a
\* compaction is on its way to.

Programming(t) == \A j \in DOMAIN t : t[j].do = "program" => t[j].at \in Addresses /\ Len(t[j].cells) = 1

Typed == /\ cells \in [Addresses -> Cells] /\ todo \in Seq(Steps) /\ Programming(todo)
         /\ record \in Seq(Cells) /\ stage \in {"idle", "compacting", "putting"}
         /\ (stage = "idle" <=> call = None) /\ (stage = "idle" => todo = <<>>)
         /\ stage # "idle" => Len(record) >= 1

\* What is to be programmed is erased, or will be before.
ErasedAhead ==
  \A j \in DOMAIN todo : todo[j].do = "program" =>
    cells[todo[j].at] = Erased \/ \E i \in DOMAIN todo : Wipes(todo[i], todo[j].at)

IdleKnows == stage = "idle" => files = Contents(cells)

\* Below room, a cell is yet to be verified, or nothing will be programmed
\* there and it is, or will be once wiped, as in img.
Underway(t, c, img, room) ==
  \A a \in Addresses : a < room =>
    \/ \E j \in DOMAIN t : Covers(t[j], a)
    \/ /\ \A j \in DOMAIN t : ~Programs(t[j], a)
       /\ IF \E j \in DOMAIN t : Wipes(t[j], a) THEN img[a] = Erased ELSE c[a] = img[a]

Compacts(t, c, contents, need, img, top, room) ==
  /\ img \in [Addresses -> Cells] /\ top \in 0 .. Capacity /\ room \in Nat /\ top + need <= room
  /\ End(img) = top /\ Contents(img) = contents /\ Occupied(contents) = top
  /\ \A a \in Addresses : a >= top => img[a] = Erased
  /\ \A j \in DOMAIN t : t[j].do = "erase" \/ StepOf(t[j], img, 0, top)
  /\ Underway(t, c, img, room)

CompactsTo ==
  stage = "compacting" =>
    \E img, top, room : Compacts(todo, cells, files, Len(record), img, top, room)

PlanInv == Typed /\ Orderly(todo) /\ ErasedAhead /\ IdleKnows /\ CompactsTo

LEMMA TailFacts ==
  ASSUME NEW t \in Seq(Steps), t # <<>>
  PROVE  /\ Tail(t) \in Seq(Steps) /\ 1 \in DOMAIN t /\ Head(t) = t[1] /\ t[1] \in Steps
         /\ \A j \in DOMAIN Tail(t) : j \in Nat /\ j + 1 \in DOMAIN t /\ Tail(t)[j] = t[j + 1]
         /\ \A j \in DOMAIN t : j \in Nat /\ (j = 1 \/ (1 < j /\ j - 1 \in DOMAIN Tail(t) /\ Tail(t)[j - 1] = t[j]))
<1>1. /\ Tail(t) \in Seq(Steps) /\ Len(Tail(t)) = Len(t) - 1
      /\ \A i \in 1 .. Len(Tail(t)) : Tail(t)[i] = t[i + 1]
      /\ Len(t) \in Nat /\ DOMAIN t = 1 .. Len(t)
  BY HeadTailProperties, LenProperties
<1>2. DOMAIN Tail(t) = 1 .. Len(t) - 1 /\ Len(t) # 0
  BY <1>1, LenProperties, EmptySeq
<1>3. Head(t) = t[1] /\ 1 \in DOMAIN t
  BY <1>1, <1>2
<1>4. t[1] \in Steps
  BY <1>3, StepFacts
<1>5. ASSUME NEW j \in DOMAIN t
      PROVE  j \in Nat /\ (j = 1 \/ (1 < j /\ j - 1 \in DOMAIN Tail(t) /\ Tail(t)[j - 1] = t[j]))
  <2>1. j \in 1 .. Len(t)
    BY <1>1
  <2>2. j # 1 => j - 1 \in 1 .. Len(t) - 1 /\ (j - 1) + 1 = j /\ 1 < j
    BY <1>1, <2>1
  <2> QED
    BY <1>1, <1>2, <2>1, <2>2
<1>6. ASSUME NEW j \in DOMAIN Tail(t)
      PROVE  j \in Nat /\ j + 1 \in DOMAIN t /\ Tail(t)[j] = t[j + 1]
  BY <1>1, <1>2
<1> QED
  BY <1>1, <1>3, <1>4, <1>5, <1>6

\* What holds of a list of steps holds of its rest.
LEMMA TailKeeps ==
  ASSUME NEW t \in Seq(Steps), t # <<>>
  PROVE  /\ Orderly(t) => Orderly(Tail(t))
         /\ Programming(t) => Programming(Tail(t))
         /\ \A img, top : (\A j \in DOMAIN t : t[j].do = "erase" \/ StepOf(t[j], img, 0, top)) =>
              \A j \in DOMAIN Tail(t) : Tail(t)[j].do = "erase" \/ StepOf(Tail(t)[j], img, 0, top)
<1>1. ASSUME Orderly(t) PROVE Orderly(Tail(t))
  <2> SUFFICES ASSUME NEW i \in DOMAIN Tail(t), NEW j \in DOMAIN Tail(t), i < j
               PROVE  /\ Tail(t)[j].do = "erase" => Tail(t)[i].do = "erase"
                      /\ Tail(t)[i].do = "program" /\ Tail(t)[j].do = "program" =>
                           Tail(t)[i].at < Tail(t)[j].at
                      /\ Tail(t)[i].do = "verify" /\ Tail(t)[j].do = "program" =>
                           Tail(t)[i].at + Len(Tail(t)[i].cells) <= Tail(t)[j].at
    BY DEF Orderly
  <2>1. i + 1 \in DOMAIN t /\ j + 1 \in DOMAIN t /\ i + 1 < j + 1
        /\ Tail(t)[i] = t[i + 1] /\ Tail(t)[j] = t[j + 1]
    BY TailFacts
  <2> QED
    BY <1>1, <2>1 DEF Orderly
<1>2. ASSUME Programming(t) PROVE Programming(Tail(t))
  BY <1>2, TailFacts DEF Programming
<1>3. ASSUME NEW img, NEW top, \A j \in DOMAIN t : t[j].do = "erase" \/ StepOf(t[j], img, 0, top),
             NEW j \in DOMAIN Tail(t)
      PROVE  Tail(t)[j].do = "erase" \/ StepOf(Tail(t)[j], img, 0, top)
  BY <1>3, TailFacts
<1> QED
  BY <1>1, <1>2, <1>3

\* A step at the head comes before all others.
LEMMA HeadFirst ==
  ASSUME NEW t \in Seq(Steps), t # <<>>, Orderly(t)
  PROVE  /\ \A j \in DOMAIN t : t[j].do = "erase" => t[1].do = "erase"
         /\ t[1].do = "program" => \A j \in DOMAIN Tail(t) : Tail(t)[j].do = "program" => t[1].at < Tail(t)[j].at
         /\ t[1].do = "verify" =>
              \A j \in DOMAIN Tail(t) : Tail(t)[j].do = "program" => t[1].at + Len(t[1].cells) <= Tail(t)[j].at
<1>1. ASSUME NEW j \in DOMAIN t, t[j].do = "erase" PROVE t[1].do = "erase"
  <2>1. 1 \in DOMAIN t /\ (j = 1 \/ 1 < j)
    BY TailFacts
  <2> QED
    BY <1>1, <2>1 DEF Orderly
<1>2. ASSUME NEW j \in DOMAIN Tail(t)
      PROVE  1 \in DOMAIN t /\ j + 1 \in DOMAIN t /\ 1 < j + 1 /\ Tail(t)[j] = t[j + 1]
  <2>1. 1 \in DOMAIN t /\ j \in Nat /\ j + 1 \in DOMAIN t /\ Tail(t)[j] = t[j + 1]
    BY TailFacts
  <2>2. j # 0
    BY <2>1, LenProperties, HeadTailProperties
  <2> QED
    BY <2>1, <2>2
<1> QED
  BY <1>1, <1>2 DEF Orderly

LEMMA EmptyFacts ==
  /\ <<>> \in Seq(Steps) /\ DOMAIN <<>> = {} /\ Orderly(<<>>) /\ Programming(<<>>)
BY DEF Orderly, Programming

LEMMA InitPlan == FlashInit => PlanInv
<1> SUFFICES ASSUME FlashInit PROVE PlanInv
  OBVIOUS
<1>1. cells \in [Addresses -> Cells]
  BY DEF FlashInit, Cells
<1>2. todo = <<>> /\ record = <<>> /\ stage = "idle" /\ call = None /\ files = Contents(cells)
  BY DEF FlashInit
<1>3. record \in Seq(Cells)
  BY <1>2
<1> QED
  BY <1>1, <1>2, <1>3, EmptyFacts DEF PlanInv, Typed, ErasedAhead, IdleKnows, CompactsTo

\* Whatever the outcome, a return leaves the plan empty.
LEMMA ReturnPlan ==
  ASSUME NEW how, Return(how), cells' \in [Addresses -> Cells]
  PROVE  PlanInv'
<1>1. todo' = <<>> /\ record' = <<>> /\ stage' = "idle" /\ call' = None /\ files' = Contents(cells')
  BY DEF Return
<1>2. <<>> \in Seq(Cells)
  OBVIOUS
<1>3. Typed'
  BY <1>1, <1>2, EmptyFacts DEF Typed
<1>4. Orderly(todo)' /\ ErasedAhead' /\ IdleKnows' /\ CompactsTo'
  BY <1>1, EmptyFacts DEF ErasedAhead, IdleKnows, CompactsTo
<1> QED
  BY <1>3, <1>4 DEF PlanInv

-----------------------------------------------------------------------------
\* The record that a call appends.

LEMMA BytesFacts ==
  ASSUME NEW n \in Names, NEW f \in Flags, NEW S \in SUBSET Cells, NEW d \in Seq(S), Len(d) <= MaxLen
  PROVE  /\ RecordBytes(n, f, d) \in Seq(Cells) /\ Len(RecordBytes(n, f, d)) = Len(d) + 1
         /\ RecordBytes(n, f, d)[1] = [name |-> n, flags |-> f, len |-> Len(d)]
         /\ [name |-> n, flags |-> f, len |-> Len(d)] \in Headers
         /\ \A i \in 1 .. Len(d) : RecordBytes(n, f, d)[i + 1] = d[i] /\ d[i] \in S
<1> DEFINE h == [name |-> n, flags |-> f, len |-> Len(d)]
           w == <<h>> \o d
<1>1. Len(d) \in 0 .. MaxLen /\ DOMAIN d = 1 .. Len(d)
  BY LenProperties, LengthAssumption
<1>2. h \in Headers
  BY <1>1 DEF Headers
<1>3. h \in Cells
  BY <1>2 DEF Cells
<1>4. \A i \in 1 .. Len(d) : d[i] \in S
  BY <1>1, ElementOfSeq
<1>5. d \in Seq(Cells)
  BY <1>1, <1>4
<1> HIDE DEF h
<1>6. <<h>> \in Seq(Cells) /\ Len(<<h>>) = 1 /\ <<h>>[1] = h
  BY <1>3
<1>7. w \in Seq(Cells) /\ Len(w) = 1 + Len(d)
      /\ \A i \in 1 .. 1 + Len(d) : w[i] = IF i <= 1 THEN <<h>>[i] ELSE d[i - 1]
  BY <1>5, <1>6, ConcatProperties
<1> HIDE DEF w
<1>8. w[1] = h /\ \A i \in 1 .. Len(d) : w[i + 1] = d[i]
  BY <1>1, <1>6, <1>7
<1>9. RecordBytes(n, f, d) = w
  BY DEF RecordBytes, w, h
<1> QED
  BY <1>1, <1>2, <1>4, <1>7, <1>8, <1>9 DEF h

LEMMA DataFacts ==
  ASSUME NEW d \in Data
  PROVE  d \in Seq(Bytes) /\ Len(d) \in 0 .. MaxLen
<1>1. PICK k \in 0 .. MaxLen : d \in [1 .. k -> Bytes]
  BY DEF Data
<1>2. k \in Nat
  BY LengthAssumption
<1> QED
  BY <1>1, <1>2

\* What is read is no header, where every header is that of a record.
LEMMA ReadFacts ==
  ASSUME NEW c \in [Addresses -> Cells], NEW n, Read(c, n) # None
  PROVE  /\ Read(c, n) \in Seq(Cells)
         /\ Sound(c) => Read(c, n) \in Seq(Cells \ Headers)
<1> DEFINE at == Newest(c, n)
<1>1. Matches(c, n) # {} /\ Read(c, n) = DataOf(c, at)
  BY DEF Read
<1>2. at \in Starts(c)
  BY <1>1, NewestIs
<1>3. /\ at \in Nat /\ c[at].len \in Nat /\ Past(c, at) = at + 1 + c[at].len
      /\ Past(c, at) <= Capacity
      /\ \A b \in Starts(c) : b \in Nat /\ (at < b => Past(c, at) <= b)
  <2>1. End(c) \in 0 .. Capacity /\ at \in Nat /\ c[at].len \in 0 .. MaxLen
        /\ Past(c, at) = at + 1 + c[at].len /\ Past(c, at) <= End(c)
        /\ \A b \in Starts(c) : b \in Nat /\ (at < b => Past(c, at) <= b)
    BY <1>2, LogFacts
  <2> QED
    BY <2>1, LengthAssumption, CapacityAssumption
<1> HIDE DEF at
<1>4. ASSUME NEW k \in 1 .. c[at].len
      PROVE  c[at + k] \in Cells /\ (Sound(c) => c[at + k] \notin Headers)
  <2>1. at + k \in Addresses /\ at < at + k /\ at + k < Past(c, at)
    BY <1>3, CapacityAssumption DEF Addresses
  <2>2. at + k \notin Starts(c)
    BY <1>3, <2>1
  <2> QED
    BY <2>1, <2>2 DEF Sound
<1>5. DataOf(c, at) \in [1 .. c[at].len -> Cells]
  BY <1>4 DEF DataOf
<1>6. ASSUME Sound(c) PROVE DataOf(c, at) \in [1 .. c[at].len -> Cells \ Headers]
  BY <1>4, <1>6 DEF DataOf
<1> QED
  BY <1>1, <1>3, <1>5, <1>6

\* The record holds what the call leaves of the file it names.
LEMMA RecordIs ==
  ASSUME NEW c \in [Addresses -> Cells], NEW request \in Calls,
         Len(Record(c, request)) <= MaxLen + 1
  PROVE  /\ request.name \in Names
         /\ \E f \in Flags, d \in Seq(Cells) :
              /\ Len(d) <= MaxLen /\ Record(c, request) = RecordBytes(request.name, f, d)
              /\ Sound(c) => d \in Seq(Cells \ Headers)
              /\ ~NothingToDo(c, request) =>
                   Promise!After(request, Read(c, request.name)) = IF f = "deleted" THEN None ELSE d
<1>1. /\ request.op \in {"write", "append", "delete", "mkdir"} /\ request.name \in Names
      /\ request.data \in Data \/ request.data = <<>>
  BY DEF Calls
<1> DEFINE old == Read(c, request.name)
           kept == IF old = None THEN <<>> ELSE old
<1>2. request.data \in Seq(Bytes) /\ Bytes \subseteq Cells \ Headers
  <2>1. Bytes \subseteq Cells \ Headers
    BY ErasedIsNone DEF Cells
  <2>2. request.data \in Seq(Bytes)
    <3>1. CASE request.data = <<>>
      BY <3>1
    <3>2. CASE request.data \in Data
      BY <3>2, DataFacts
    <3> QED
      BY <1>1, <3>1, <3>2
  <2> QED
    BY <2>1, <2>2
<1>3. request.data \in Seq(Cells) /\ request.data \in Seq(Cells \ Headers)
  <2>1. Len(request.data) \in Nat /\ DOMAIN request.data = 1 .. Len(request.data)
        /\ \A i \in 1 .. Len(request.data) : request.data[i] \in Bytes
    BY <1>2, LenProperties, ElementOfSeq
  <2> QED
    BY <1>2, <2>1
<1>4. kept \in Seq(Cells) /\ (Sound(c) => kept \in Seq(Cells \ Headers))
  <2>1. CASE old = None
    BY <2>1
  <2>2. CASE old # None
    BY <2>2, ReadFacts
  <2> QED
    BY <2>1, <2>2
<1>5. ASSUME NEW f \in Flags, NEW d \in Seq(Cells), Record(c, request) = RecordBytes(request.name, f, d)
      PROVE  Len(d) <= MaxLen
  <2> DEFINE h == [name |-> request.name, flags |-> f, len |-> Len(d)]
  <2>1. Len(<<h>> \o d) = Len(<<h>>) + Len(d) /\ Len(<<h>>) = 1 /\ Len(d) \in Nat
    <3> HIDE DEF h
    <3>1. <<h>> \in Seq({h}) /\ d \in Seq(Cells) /\ Len(<<h>>) = 1
      OBVIOUS
    <3>2. <<h>> \in Seq({h} \cup Cells) /\ d \in Seq({h} \cup Cells)
      BY <3>1
    <3> QED
      BY <3>1, <3>2, ConcatProperties, LenProperties
  <2> QED
    BY <1>5, <2>1, LengthAssumption DEF RecordBytes
<1>6. <<>> \in Seq(Cells) /\ <<>> \in Seq(Cells \ Headers) /\ Flags = {"file", "deleted", "directory"}
  BY DEF Flags
<1> HIDE DEF old
<1>7. CASE request.op = "write"
  <2>1. Record(c, request) = RecordBytes(request.name, "file", request.data)
    BY <1>7 DEF Record
  <2>2. Promise!After(request, Read(c, request.name)) = request.data
    BY <1>7 DEF Promise!After
  <2> QED
    BY <1>1, <1>3, <1>5, <1>6, <2>1, <2>2
<1>8. CASE request.op = "append"
  <2>1. Record(c, request) = RecordBytes(request.name, "file", kept \o request.data)
    BY <1>8 DEF Record, old
  <2>2. Promise!After(request, Read(c, request.name)) = kept \o request.data
    BY <1>8 DEF Promise!After, Promise!Existing, old
  <2>3. kept \o request.data \in Seq(Cells)
        /\ (Sound(c) => kept \o request.data \in Seq(Cells \ Headers))
    BY <1>3, <1>4, ConcatProperties
  <2> QED
    BY <1>1, <1>5, <1>6, <2>1, <2>2, <2>3
<1>9. CASE request.op = "delete"
  <2>1. Record(c, request) = RecordBytes(request.name, "deleted", <<>>)
    BY <1>9 DEF Record
  <2>2. Promise!After(request, Read(c, request.name)) = None
    BY <1>9 DEF Promise!After
  <2> QED
    BY <1>1, <1>5, <1>6, <2>1, <2>2
<1>10. CASE request.op = "mkdir"
  <2>1. Record(c, request) = RecordBytes(request.name, "directory", <<>>)
    BY <1>10 DEF Record
  <2>2. ~NothingToDo(c, request) => Promise!After(request, Read(c, request.name)) = <<>>
    BY <1>10 DEF Promise!After, Promise!Existing, NothingToDo
  <2> QED
    BY <1>1, <1>5, <1>6, <2>1, <2>2
<1> QED
  BY <1>1, <1>7, <1>8, <1>9, <1>10

-----------------------------------------------------------------------------
\* Every action keeps the plan.

\* A record to be put where its span is blank finds what it needs.
LEMMA PutPlan ==
  ASSUME NEW c \in [Addresses -> Cells], NEW at \in Nat, NEW bytes \in Seq(Cells),
         at + Len(bytes) <= Capacity,
         \A a \in at .. at + Len(bytes) - 1 : c[a] = Erased
  PROVE  /\ Put(at, bytes) \in Seq(Steps) /\ Orderly(Put(at, bytes)) /\ Programming(Put(at, bytes))
         /\ \A j \in DOMAIN Put(at, bytes) :
              /\ Put(at, bytes)[j].do # "erase"
              /\ Put(at, bytes)[j].do = "program" => c[Put(at, bytes)[j].at] = Erased
<1> DEFINE n == Len(bytes)
           img == [a \in Addresses |-> IF at <= a /\ a < at + n THEN bytes[a - at + 1] ELSE Erased]
           t == Put(at, bytes)
<1>1. /\ t \in Seq(Steps) /\ n \in Nat /\ DOMAIN t = 1 .. n + 1
      /\ \A j \in 1 .. n : t[j] = [do |-> "program", at |-> at + j - 1, cells |-> <<bytes[j]>>]
      /\ t[n + 1] = [do |-> "verify", at |-> at, cells |-> bytes]
  BY PutFacts
<1>2. \A k \in 1 .. n : img[at + k - 1] = bytes[k]
  <2> SUFFICES ASSUME NEW k \in 1 .. n PROVE img[at + k - 1] = bytes[k]
    OBVIOUS
  <2>1. at + k - 1 \in Addresses /\ at <= at + k - 1 /\ at + k - 1 < at + n /\ at + k - 1 - at + 1 = k
    BY <1>1, CapacityAssumption DEF Addresses
  <2> HIDE DEF n
  <2> QED
    BY <2>1
<1> HIDE DEF img, t
<1>3. Orderly(t)
  BY <1>2, PutWrites DEF Writes, t
<1> HIDE DEF n
<1>4. ASSUME NEW j \in 1 .. n
      PROVE  /\ t[j].do = "program" /\ t[j].at \in Addresses /\ Len(t[j].cells) = 1
             /\ c[t[j].at] = Erased
  <2>1. t[j].do = "program" /\ t[j].at = at + j - 1 /\ t[j].cells = <<bytes[j]>>
    <3>1. t[j] = [do |-> "program", at |-> at + j - 1, cells |-> <<bytes[j]>>]
      BY <1>1
    <3> QED
      BY <3>1, StepFields
  <2>2. at + j - 1 \in Addresses /\ at + j - 1 \in at .. at + n - 1
    BY <1>1, CapacityAssumption DEF Addresses, n
  <2>3. c[at + j - 1] = Erased
    BY <2>2 DEF n
  <2> QED
    BY <2>1, <2>2, <2>3
<1>5. t[n + 1].do = "verify"
  BY <1>1, StepFields
<1>6. \A j \in DOMAIN t : j \in 1 .. n \/ j = n + 1
  BY <1>1
<1>7. Programming(t)
  BY <1>4, <1>5, <1>6 DEF Programming
<1>8. \A j \in DOMAIN t : t[j].do # "erase" /\ (t[j].do = "program" => c[t[j].at] = Erased)
  BY <1>4, <1>5, <1>6
<1> QED
  BY <1>1, <1>3, <1>7, <1>8 DEF t

\* A compaction sets out for the image of the live records.
LEMMA CompactionStarts ==
  ASSUME NEW c \in [Addresses -> Cells], NEW need \in Nat, need >= 1
  PROVE  LET t == Compact(c, need) IN
         /\ t \in Seq(Steps) /\ Orderly(t) /\ Programming(t)
         /\ \A j \in DOMAIN t : t[j].do = "program" => \E i \in DOMAIN t : Wipes(t[i], t[j].at)
         /\ \E img, top, room :
              /\ Compacts(t, c, Contents(c), need, img, top, room)
              /\ room = End(c) + need /\ (Sound(c) => Sound(img))
              /\ \A a \in Addresses :
                   (\E j \in DOMAIN t : Covers(t[j], a)) => \E j \in DOMAIN t : Programs(t[j], a)
<1> DEFINE at == End(c)
           room == at + need
           t == Compact(c, need)
<1>1. at \in 0 .. Capacity /\ at \in Nat
  BY LogFacts
<1>2. PICK img \in [Addresses -> Cells], top \in 0 .. at :
         /\ Prepares(Compact(c, need), img, top, room)
         /\ End(img) = top /\ Contents(img) = Contents(c) /\ Occupied(Contents(c)) = top
         /\ \A a \in Addresses : a >= top => img[a] = Erased
         /\ Sound(c) => Sound(img)
  BY CompactPlan
<1>3. top \in Nat /\ top <= at /\ room \in Nat /\ top + need <= room /\ top <= room /\ top \in 0 .. Capacity
  <2> HIDE DEF at
  <2>1. top \in 0 .. at
    OBVIOUS
  <2> QED
    BY <1>1, <2>1, CapacityAssumption
<1> HIDE DEF at, room, t
<1>4. /\ t \in Seq(Steps) /\ Orderly(t)
      /\ \A j \in DOMAIN t : t[j].do = "erase" \/ StepOf(t[j], img, 0, top)
      /\ \A a \in 0 .. top - 1 : \E j \in DOMAIN t : Covers(t[j], a)
      /\ \A a \in 0 .. top - 1 : \E j \in DOMAIN t : Programs(t[j], a)
      /\ \A a \in Nat : a < room => \E j \in DOMAIN t : Wipes(t[j], a)
  BY <1>2 DEF Prepares, t
<1>5. ASSUME NEW j \in DOMAIN t, t[j].do = "program"
      PROVE  t[j].at \in 0 .. top - 1 /\ t[j].at \in Addresses /\ Len(t[j].cells) = 1
  <2>1. t[j].at \in 0 .. top - 1 /\ t[j].cells = <<img[t[j].at]>>
    BY <1>4, <1>5 DEF StepOf
  <2>2. t[j].at \in Addresses
    BY <1>3, <2>1, CapacityAssumption DEF Addresses
  <2> QED
    BY <2>1, <2>2
<1>6. Programming(t)
  BY <1>5 DEF Programming
<1>7. ASSUME NEW j \in DOMAIN t, t[j].do = "program"
      PROVE  \E i \in DOMAIN t : Wipes(t[i], t[j].at)
  <2>1. t[j].at \in Nat /\ t[j].at < room
    BY <1>3, <1>5, <1>7
  <2> QED
    BY <1>4, <2>1
<1>8. Underway(t, c, img, room)
  <2> SUFFICES ASSUME NEW a \in Addresses, a < room
               PROVE  \/ \E j \in DOMAIN t : Covers(t[j], a)
                      \/ /\ \A j \in DOMAIN t : ~Programs(t[j], a)
                         /\ IF \E j \in DOMAIN t : Wipes(t[j], a) THEN img[a] = Erased ELSE c[a] = img[a]
    BY DEF Underway
  <2>1. a \in Nat
    BY DEF Addresses
  <2>2. CASE a < top
    <3>1. a \in 0 .. top - 1
      BY <1>3, <2>1, <2>2
    <3> QED
      BY <1>4, <3>1
  <2>3. CASE a >= top
    <3>1. \A j \in DOMAIN t : ~Programs(t[j], a)
      BY <1>3, <1>5, <2>1, <2>3 DEF Programs
    <3> QED
      BY <1>2, <1>4, <2>1, <2>3, <3>1
  <2> QED
    BY <1>3, <2>1, <2>2, <2>3
<1>9. Compacts(t, c, Contents(c), need, img, top, room)
  <2>1. /\ img \in [Addresses -> Cells] /\ top \in 0 .. Capacity /\ room \in Nat
        /\ top + need <= room
    BY <1>3
  <2>2. End(img) = top /\ Contents(img) = Contents(c) /\ Occupied(Contents(c)) = top
    BY <1>2
  <2>3. \A a \in Addresses : a >= top => img[a] = Erased
    BY <1>2
  <2>4. \A j \in DOMAIN t : t[j].do = "erase" \/ StepOf(t[j], img, 0, top)
    BY <1>4
  <2> QED
    BY ONLY <1>8, <2>1, <2>2, <2>3, <2>4 DEF Compacts
<1>10. ASSUME NEW a \in Addresses, \E j \in DOMAIN t : Covers(t[j], a)
       PROVE  \E j \in DOMAIN t : Programs(t[j], a)
  <2>1. PICK j \in DOMAIN t : Covers(t[j], a)
    BY <1>10
  <2>2. t[j].at \in Nat /\ Len(t[j].cells) \in Nat
    BY <1>4, StepFacts
  <2>3. t[j].at + Len(t[j].cells) <= top
    BY <1>4, <2>1 DEF Covers, StepOf
  <2>4. a \in Nat /\ a < t[j].at + Len(t[j].cells)
    BY <2>1 DEF Covers, Addresses
  <2>5. a \in 0 .. top - 1
    BY <1>3, <2>2, <2>3, <2>4
  <2> QED
    BY <1>4, <2>5
<1> QED
  BY <1>2, <1>4, <1>6, <1>7, <1>9, <1>10 DEF t, at, room

LEMMA BeginPlan ==
  ASSUME PlanInv, NEW request \in Calls, Begin(request)
  PROVE  PlanInv'
<1>1. /\ call = None /\ record' = Record(cells, request) /\ Len(record') <= MaxLen + 1
      /\ cells' = cells /\ files' = files /\ call' = request /\ request # None
  BY NoneAssumption DEF Begin
<1>2. cells \in [Addresses -> Cells] /\ files = Contents(cells)
  BY <1>1 DEF PlanInv, Typed, IdleKnows
<1> DEFINE r == record'  at == End(cells)
<1>3. r \in Seq(Cells) /\ Len(r) \in Nat /\ Len(r) >= 1
  <2>1. request.name \in Names
    BY <1>1, <1>2, RecordIs
  <2>2. PICK f \in Flags, d \in Seq(Cells) : Len(d) <= MaxLen /\ r = RecordBytes(request.name, f, d)
    BY <1>1, <1>2, RecordIs
  <2>3. r \in Seq(Cells) /\ Len(r) = Len(d) + 1
    <3>1. Cells \in SUBSET Cells /\ d \in Seq(Cells) /\ f \in Flags /\ Len(d) <= MaxLen
      BY <2>2
    <3>2. /\ RecordBytes(request.name, f, d) \in Seq(Cells)
          /\ Len(RecordBytes(request.name, f, d)) = Len(d) + 1
      BY ONLY <2>1, <3>1, BytesFacts, request \in Calls
    <3> QED
      BY <2>2, <3>2
  <2> QED
    BY <2>3, LenProperties
<1> HIDE DEF r
<1>4. at \in 0 .. Capacity /\ at \in Nat
  BY LogFacts
<1>5. CASE Fits(cells, Len(r)) /\ Blank(cells, at, Len(r))
  <2>1. stage' = "putting" /\ todo' = Put(at, r)
    BY <1>5 DEF Begin, r
  <2>2. at + Len(r) <= Capacity /\ \A a \in at .. at + Len(r) - 1 : cells[a] = Erased
    BY <1>5 DEF Fits, Blank
  <2> HIDE DEF at
  <2>3. /\ todo' \in Seq(Steps) /\ Orderly(todo') /\ Programming(todo')
        /\ \A j \in DOMAIN todo' : todo'[j].do = "program" => cells[todo'[j].at] = Erased
    BY <1>2, <1>3, <1>4, <2>1, <2>2, PutPlan
  <2>4. Typed'
    BY <1>1, <1>2, <1>3, <2>1, <2>3 DEF Typed, r
  <2>5. ErasedAhead'
    BY <1>1, <2>3 DEF ErasedAhead
  <2> QED
    BY <2>1, <2>3, <2>4, <2>5 DEF PlanInv, IdleKnows, CompactsTo
<1>6. CASE ~(Fits(cells, Len(r)) /\ Blank(cells, at, Len(r)))
  <2>1. stage' = "compacting" /\ todo' = Compact(cells, Len(r))
    BY <1>6 DEF Begin, r
  <2>2. /\ todo' \in Seq(Steps) /\ Orderly(todo') /\ Programming(todo')
        /\ \A j \in DOMAIN todo' : todo'[j].do = "program" => \E i \in DOMAIN todo' : Wipes(todo'[i], todo'[j].at)
        /\ \E img, top, room : Compacts(todo', cells, Contents(cells), Len(r), img, top, room)
    BY <1>2, <1>3, <2>1, CompactionStarts
  <2>3. Typed'
    BY <1>1, <1>2, <1>3, <2>1, <2>2 DEF Typed, r
  <2>4. ErasedAhead'
    BY <2>2 DEF ErasedAhead
  <2>5. \E img, top, room : Compacts(todo', cells', files', Len(record'), img, top, room)
    BY <1>1, <1>2, <2>2 DEF r
  <2> QED
    BY <2>1, <2>2, <2>3, <2>4, <2>5 DEF PlanInv, IdleKnows, CompactsTo
<1> QED
  BY <1>5, <1>6

LEMMA TailUnder ==
  ASSUME NEW t \in Seq(Steps), t # <<>>, NEW a
  PROVE  /\ (\E j \in DOMAIN Tail(t) : Covers(Tail(t)[j], a)) =
              \E j \in DOMAIN t : j # 1 /\ Covers(t[j], a)
         /\ (\E j \in DOMAIN Tail(t) : Wipes(Tail(t)[j], a)) =
              \E j \in DOMAIN t : j # 1 /\ Wipes(t[j], a)
         /\ (\A j \in DOMAIN t : ~Programs(t[j], a)) =>
              \A j \in DOMAIN Tail(t) : ~Programs(Tail(t)[j], a)
<1>1. \A j \in DOMAIN Tail(t) : j + 1 \in DOMAIN t /\ j + 1 # 1 /\ Tail(t)[j] = t[j + 1]
  <2>1. ASSUME NEW j \in DOMAIN Tail(t)
        PROVE  j + 1 \in DOMAIN t /\ j + 1 # 1 /\ Tail(t)[j] = t[j + 1]
    <3>1. j \in Nat /\ j + 1 \in DOMAIN t /\ Tail(t)[j] = t[j + 1]
      BY TailFacts
    <3>2. j # 0
      BY HeadTailProperties, LenProperties
    <3> QED
      BY <3>1, <3>2
  <2> QED
    BY <2>1
<1>2. \A j \in DOMAIN t : j # 1 => j - 1 \in DOMAIN Tail(t) /\ Tail(t)[j - 1] = t[j]
  BY TailFacts
<1> QED
  BY <1>1, <1>2

\* A compaction under way goes on to where it was going.
GoesOn == \A img, top, room :
            Compacts(todo, cells, files, Len(record), img, top, room) =>
              Compacts(todo', cells', files', Len(record'), img, top, room)

\* What the head of the list leaves to the rest of it.
LEMMA HeadDone ==
  ASSUME PlanInv, todo # <<>>, todo' = Tail(todo), cells' \in [Addresses -> Cells],
         UNCHANGED <<call, record, stage, files>>,
         ErasedAhead',
         \A img, room : Underway(todo, cells, img, room)
                        /\ (\A j \in DOMAIN todo : todo[j].do = "erase" \/ \E top : StepOf(todo[j], img, 0, top)) =>
                          Underway(todo', cells', img, room)
  PROVE  PlanInv' /\ GoesOn
<1>1. /\ Typed /\ todo \in Seq(Steps) /\ stage # "idle"
  BY DEF PlanInv, Typed
<1>2. /\ Tail(todo) \in Seq(Steps) /\ Orderly(Tail(todo)) /\ Programming(Tail(todo))
      /\ \A img, top : (\A j \in DOMAIN todo : todo[j].do = "erase" \/ StepOf(todo[j], img, 0, top)) =>
           \A j \in DOMAIN Tail(todo) : Tail(todo)[j].do = "erase" \/ StepOf(Tail(todo)[j], img, 0, top)
  BY <1>1, TailFacts, TailKeeps DEF PlanInv, Typed
<1>3. Typed'
  BY <1>1, <1>2 DEF Typed
<1>4. GoesOn
  <2> SUFFICES ASSUME NEW img, NEW top, NEW room,
                      Compacts(todo, cells, files, Len(record), img, top, room)
               PROVE  Compacts(todo', cells', files', Len(record'), img, top, room)
    BY DEF GoesOn
  <2>1. /\ \A j \in DOMAIN todo : todo[j].do = "erase" \/ StepOf(todo[j], img, 0, top)
        /\ Underway(todo, cells, img, room)
    BY DEF Compacts
  <2>2. Underway(todo', cells', img, room)
    BY <2>1
  <2>3. \A j \in DOMAIN todo' : todo'[j].do = "erase" \/ StepOf(todo'[j], img, 0, top)
    BY <1>2, <2>1
  <2> QED
    BY <2>2, <2>3 DEF Compacts
<1>5. CompactsTo'
  BY <1>4 DEF PlanInv, CompactsTo, GoesOn
<1> QED
  BY <1>1, <1>2, <1>3, <1>4, <1>5 DEF PlanInv, IdleKnows

LEMMA ErasePlan ==
  ASSUME PlanInv, EraseSector
  PROVE  PlanInv' /\ GoesOn
<1>1. /\ todo # <<>> /\ Head(todo).do = "erase" /\ todo' = Tail(todo) /\ todo \in Seq(Steps)
      /\ UNCHANGED <<call, record, stage, files>> /\ cells \in [Addresses -> Cells]
  BY DEF EraseSector, PlanInv, Typed
<1> DEFINE x == Head(todo).at
<1>2. cells' = [a \in Addresses |-> IF a \in x .. x + Sector - 1 THEN Erased ELSE cells[a]]
  BY DEF EraseSector
<1>3. cells' \in [Addresses -> Cells]
  BY <1>1, <1>2 DEF Cells
<1>4. /\ Head(todo) = todo[1] /\ todo[1] \in Steps /\ x \in Nat /\ 1 \in DOMAIN todo
      /\ todo[1].do = "erase" /\ todo[1].at = x
  <2>1. Head(todo) = todo[1] /\ todo[1] \in Steps /\ 1 \in DOMAIN todo
    BY <1>1, TailFacts
  <2> QED
    BY <1>1, <2>1 DEF Steps
<1>5. ASSUME NEW a \in Addresses
      PROVE  /\ Wipes(todo[1], a) => cells'[a] = Erased
             /\ cells[a] = Erased => cells'[a] = Erased
             /\ ~Wipes(todo[1], a) => cells'[a] = cells[a]
  <2>1. a \in Nat /\ Sector \in Nat
    BY CapacityAssumption DEF Addresses
  <2>2. Wipes(todo[1], a) <=> a \in x .. x + Sector - 1
    BY <1>4, <2>1 DEF Wipes
  <2> HIDE DEF x
  <2> QED
    BY <1>2, <2>2
<1>6. \A a : ~Covers(todo[1], a)
  BY <1>4 DEF Covers
<1>7. ErasedAhead'
  <2> SUFFICES ASSUME NEW j \in DOMAIN todo', todo'[j].do = "program"
               PROVE  cells'[todo'[j].at] = Erased \/ \E i \in DOMAIN todo' : Wipes(todo'[i], todo'[j].at)
    BY DEF ErasedAhead
  <2> DEFINE a == todo'[j].at
  <2>1. j + 1 \in DOMAIN todo /\ todo'[j] = todo[j + 1]
    BY <1>1, TailFacts
  <2>2. a \in Addresses /\ (cells[a] = Erased \/ \E i \in DOMAIN todo : Wipes(todo[i], a))
    BY <2>1 DEF PlanInv, Typed, Programming, ErasedAhead
  <2> HIDE DEF a
  <2>3. cells'[a] = Erased \/ \E i \in DOMAIN todo : i # 1 /\ Wipes(todo[i], a)
    BY <1>5, <2>2
  <2>4. cells'[a] = Erased \/ \E i \in DOMAIN todo' : Wipes(todo'[i], a)
    BY <1>1, <2>3, TailUnder
  <2> QED
    BY <2>4 DEF a
<1>8. ASSUME NEW img, NEW room, Underway(todo, cells, img, room)
      PROVE  Underway(todo', cells', img, room)
  <2> SUFFICES ASSUME NEW a \in Addresses, a < room
               PROVE  \/ \E j \in DOMAIN todo' : Covers(todo'[j], a)
                      \/ /\ \A j \in DOMAIN todo' : ~Programs(todo'[j], a)
                         /\ IF \E j \in DOMAIN todo' : Wipes(todo'[j], a)
                            THEN img[a] = Erased ELSE cells'[a] = img[a]
    BY DEF Underway
  <2>1. CASE \E j \in DOMAIN todo : Covers(todo[j], a)
    <3>1. \E j \in DOMAIN todo : j # 1 /\ Covers(todo[j], a)
      BY <1>6, <2>1
    <3> QED
      BY <1>1, <3>1, TailUnder
  <2>2. CASE /\ \A j \in DOMAIN todo : ~Programs(todo[j], a)
             /\ IF \E j \in DOMAIN todo : Wipes(todo[j], a) THEN img[a] = Erased ELSE cells[a] = img[a]
    <3>1. \A j \in DOMAIN todo' : ~Programs(todo'[j], a)
      BY <1>1, <2>2, TailUnder
    <3>2. (\E j \in DOMAIN todo' : Wipes(todo'[j], a)) <=> \E j \in DOMAIN todo : j # 1 /\ Wipes(todo[j], a)
      BY <1>1, TailUnder
    <3>3. CASE \E j \in DOMAIN todo : j # 1 /\ Wipes(todo[j], a)
      BY <2>2, <3>1, <3>2, <3>3
    <3>4. CASE ~\E j \in DOMAIN todo : j # 1 /\ Wipes(todo[j], a)
      <4>1. cells'[a] = img[a]
        <5>1. CASE Wipes(todo[1], a)
          BY <1>4, <1>5, <2>2, <5>1
        <5>2. CASE ~Wipes(todo[1], a)
          BY <1>5, <2>2, <3>4, <5>2
        <5> QED
          BY <5>1, <5>2
      <4> QED
        BY <3>1, <3>2, <3>4, <4>1
    <3> QED
      BY <3>3, <3>4
  <2> QED
    BY <1>8, <2>1, <2>2 DEF Underway
<1> QED
  BY <1>1, <1>3, <1>7, <1>8, HeadDone

\* The head of the list is the programming of an erased cell, and what else is
\* to be programmed lies beyond it.
LEMMA HeadPrograms ==
  ASSUME PlanInv, todo # <<>>, Head(todo).do = "program"
  PROVE  /\ Head(todo) = todo[1] /\ 1 \in DOMAIN todo /\ Head(todo).at \in Addresses
         /\ cells[Head(todo).at] = Erased
         /\ Head(todo).cells \in Seq(Cells) /\ Len(Head(todo).cells) = 1 /\ Head(todo).cells[1] \in Cells
         /\ \A j \in DOMAIN todo : todo[j].do # "erase"
         /\ \A j \in DOMAIN Tail(todo) : Tail(todo)[j].do = "program" => Head(todo).at < Tail(todo)[j].at
<1>1. todo \in Seq(Steps) /\ Orderly(todo) /\ Programming(todo) /\ ErasedAhead
  BY DEF PlanInv, Typed
<1>2. Head(todo) = todo[1] /\ 1 \in DOMAIN todo /\ todo[1] \in Steps
  BY <1>1, TailFacts
<1>3. \A j \in DOMAIN todo : todo[j].do # "erase"
  BY <1>1, <1>2, HeadFirst
<1>4. \A j \in DOMAIN Tail(todo) : Tail(todo)[j].do = "program" => Head(todo).at < Tail(todo)[j].at
  BY <1>1, <1>2, HeadFirst
<1>5. Head(todo).at \in Addresses /\ Len(Head(todo).cells) = 1
  BY <1>1, <1>2 DEF Programming
<1>6. cells[Head(todo).at] = Erased
  BY <1>1, <1>2, <1>3 DEF ErasedAhead, Wipes
<1>7. Head(todo).cells \in Seq(Cells) /\ DOMAIN Head(todo).cells = 1 .. Len(Head(todo).cells)
  BY <1>1, <1>2, StepFacts
<1>8. 1 \in DOMAIN Head(todo).cells
  BY <1>5, <1>7
<1>9. Head(todo).cells[1] \in Cells
  BY <1>7, <1>8, ElementOfSeq
<1> QED
  BY <1>2, <1>3, <1>4, <1>5, <1>6, <1>7, <1>9

LEMMA ProgramPlan ==
  ASSUME PlanInv, todo # <<>>, Head(todo).do = "program", todo' = Tail(todo),
         cells' \in [Addresses -> Cells],
         \A a \in Addresses : a # Head(todo).at => cells'[a] = cells[a],
         UNCHANGED <<call, record, stage, files>>
  PROVE  PlanInv' /\ GoesOn
<1> DEFINE x == Head(todo).at
<1>1. /\ Head(todo) = todo[1] /\ 1 \in DOMAIN todo /\ x \in Addresses /\ x \in Nat
      /\ todo[1].do = "program" /\ todo[1].at = x
      /\ \A j \in DOMAIN todo : todo[j].do # "erase"
      /\ \A j \in DOMAIN Tail(todo) : Tail(todo)[j].do = "program" => x < Tail(todo)[j].at
      /\ todo \in Seq(Steps)
  BY HeadPrograms DEF PlanInv, Typed, Addresses
<1> HIDE DEF x
<1>2. \A j \in DOMAIN todo' : j + 1 \in DOMAIN todo /\ todo'[j] = todo[j + 1]
  BY <1>1, TailFacts
<1>3. ErasedAhead'
  <2> SUFFICES ASSUME NEW j \in DOMAIN todo', todo'[j].do = "program"
               PROVE  cells'[todo'[j].at] = Erased
    BY DEF ErasedAhead
  <2>1. todo'[j].at \in Addresses /\ cells[todo'[j].at] = Erased
    BY <1>1, <1>2 DEF PlanInv, Typed, Programming, ErasedAhead, Wipes
  <2>2. x < todo'[j].at /\ todo'[j].at \in Nat
    BY <1>1, <2>1 DEF Addresses
  <2> QED
    BY <1>1, <2>1, <2>2 DEF x
<1>4. ASSUME NEW img, NEW room, Underway(todo, cells, img, room)
      PROVE  Underway(todo', cells', img, room)
  <2> SUFFICES ASSUME NEW a \in Addresses, a < room
               PROVE  \/ \E j \in DOMAIN todo' : Covers(todo'[j], a)
                      \/ /\ \A j \in DOMAIN todo' : ~Programs(todo'[j], a)
                         /\ IF \E j \in DOMAIN todo' : Wipes(todo'[j], a)
                            THEN img[a] = Erased ELSE cells'[a] = img[a]
    BY DEF Underway
  <2>1. CASE \E j \in DOMAIN todo : Covers(todo[j], a)
    <3>1. \E j \in DOMAIN todo : j # 1 /\ Covers(todo[j], a)
      BY <1>1, <2>1 DEF Covers
    <3> QED
      BY <1>1, <3>1, TailUnder
  <2>2. CASE /\ \A j \in DOMAIN todo : ~Programs(todo[j], a)
             /\ IF \E j \in DOMAIN todo : Wipes(todo[j], a) THEN img[a] = Erased ELSE cells[a] = img[a]
    <3>1. \A j \in DOMAIN todo' : ~Programs(todo'[j], a)
      BY <1>1, <2>2, TailUnder
    <3>2. (~\E j \in DOMAIN todo : Wipes(todo[j], a)) /\ ~\E j \in DOMAIN todo' : Wipes(todo'[j], a)
      BY <1>1, <1>2 DEF Wipes
    <3>3. a # x
      BY <1>1, <2>2 DEF Programs
    <3>4. cells'[a] = img[a]
      BY <2>2, <3>2, <3>3 DEF x
    <3> QED
      BY <3>1, <3>2, <3>4
  <2> QED
    BY <1>4, <2>1, <2>2 DEF Underway
<1> QED
  BY <1>3, <1>4, HeadDone

\* A cell is left holding what it was given, or less.
LEMMA PartsFit ==
  ASSUME NEW cell \in Cells, NEW part \in PartsOf(cell)
  PROVE  part \in Cells
<1>1. CASE part \in {Erased, Torn}
  BY <1>1 DEF Cells
<1>2. CASE cell \in Headers /\ part = [cell EXCEPT !.name = NoName]
  <2>1. part \in Headers
    BY <1>2 DEF Headers
  <2> QED
    BY <2>1 DEF Cells
<1> QED
  BY <1>1, <1>2 DEF PartsOf

LEMMA ProgramCellPlan ==
  ASSUME PlanInv, ProgramCell
  PROVE  PlanInv' /\ GoesOn
<1>1. /\ todo # <<>> /\ Head(todo).do = "program" /\ todo' = Tail(todo)
      /\ UNCHANGED <<call, record, stage, files>>
      /\ cells' = [cells EXCEPT ![Head(todo).at] = Programmed(@, Head(todo).cells[1])]
  BY DEF ProgramCell
<1>2. cells \in [Addresses -> Cells] /\ Head(todo).at \in Addresses /\ Head(todo).cells[1] \in Cells
  BY <1>1, HeadPrograms DEF PlanInv, Typed
<1>3. \A old : Programmed(old, Head(todo).cells[1]) \in Cells
  BY <1>2 DEF Programmed, Cells
<1>4. cells' \in [Addresses -> Cells] /\ \A a \in Addresses : a # Head(todo).at => cells'[a] = cells[a]
  BY <1>1, <1>2, <1>3
<1> QED
  BY <1>1, <1>4, ProgramPlan

LEMMA BadCellPlan ==
  ASSUME PlanInv, BadCell
  PROVE  PlanInv'
<1>1. /\ todo # <<>> /\ Head(todo).do = "program" /\ todo' = Tail(todo)
      /\ UNCHANGED <<call, record, stage, files>>
  BY DEF BadCell
<1>2. PICK part \in PartsOf(Head(todo).cells[1]) :
        cells' = [cells EXCEPT ![Head(todo).at] = IF @ = Erased THEN part ELSE Torn]
  BY <1>1 DEF BadCell, HalfDone
<1>3. cells \in [Addresses -> Cells] /\ Head(todo).at \in Addresses /\ Head(todo).cells[1] \in Cells
  BY <1>1, HeadPrograms DEF PlanInv, Typed
<1>4. part \in Cells /\ Torn \in Cells
  BY <1>3, PartsFit DEF Cells
<1>5. cells' \in [Addresses -> Cells] /\ \A a \in Addresses : a # Head(todo).at => cells'[a] = cells[a]
  BY <1>2, <1>3, <1>4
<1> QED
  BY <1>1, <1>5, ProgramPlan

LEMMA VerifyPlan ==
  ASSUME PlanInv, VerifyRecord
  PROVE  PlanInv' /\ (todo' # <<>> \/ stage' # "idle" => GoesOn)
<1>1. todo # <<>> /\ Head(todo).do = "verify" /\ cells' = cells /\ cells \in [Addresses -> Cells]
      /\ todo \in Seq(Steps)
  BY DEF VerifyRecord, PlanInv, Typed
<1>2. CASE \E how : Return(how)
  <2>1. todo' = <<>> /\ stage' = "idle"
    BY <1>2 DEF Return
  <2> QED
    BY <1>1, <1>2, <2>1, ReturnPlan
<1>3. CASE Verified(Head(todo)) /\ todo' = Tail(todo) /\ UNCHANGED <<call, record, stage, files>>
  <2>1. /\ Head(todo) = todo[1] /\ 1 \in DOMAIN todo /\ todo[1].do = "verify" /\ todo[1] \in Steps
        /\ \A j \in DOMAIN todo : todo[j].do # "erase"
        /\ \A j \in DOMAIN Tail(todo) : Tail(todo)[j].do = "program" =>
             todo[1].at + Len(todo[1].cells) <= Tail(todo)[j].at
    BY <1>1, TailFacts, HeadFirst DEF PlanInv
  <2>2. \A j \in DOMAIN todo' : j + 1 \in DOMAIN todo /\ todo'[j] = todo[j + 1]
    BY <1>1, <1>3, TailFacts
  <2>3. ErasedAhead'
    BY <1>1, <2>1, <2>2 DEF PlanInv, ErasedAhead, Wipes
  <2>4. /\ todo[1].at \in Nat /\ Len(todo[1].cells) \in Nat
        /\ DOMAIN todo[1].cells = 1 .. Len(todo[1].cells)
    BY <1>1, <2>1, StepFacts
  <2>5. ASSUME NEW img, NEW room, Underway(todo, cells, img, room),
               \A j \in DOMAIN todo : todo[j].do = "erase" \/ \E top : StepOf(todo[j], img, 0, top)
        PROVE  Underway(todo', cells', img, room)
    <3> SUFFICES ASSUME NEW a \in Addresses, a < room
                 PROVE  \/ \E j \in DOMAIN todo' : Covers(todo'[j], a)
                        \/ /\ \A j \in DOMAIN todo' : ~Programs(todo'[j], a)
                           /\ IF \E j \in DOMAIN todo' : Wipes(todo'[j], a)
                              THEN img[a] = Erased ELSE cells'[a] = img[a]
      BY DEF Underway
    <3>1. (~\E j \in DOMAIN todo : Wipes(todo[j], a)) /\ ~\E j \in DOMAIN todo' : Wipes(todo'[j], a)
      BY <2>1, <2>2 DEF Wipes
    <3>2. CASE \E j \in DOMAIN todo : j # 1 /\ Covers(todo[j], a)
      BY <1>1, <1>3, <3>2, TailUnder
    <3>3. CASE Covers(todo[1], a)
      <4>1. \A j \in DOMAIN todo' : ~Programs(todo'[j], a)
        <5> SUFFICES ASSUME NEW j \in DOMAIN todo', Programs(todo'[j], a) PROVE FALSE
          OBVIOUS
        <5>1. todo[1].at + Len(todo[1].cells) <= a
          BY <1>3, <2>1 DEF Programs
        <5>2. a \in Nat /\ a < todo[1].at + Len(todo[1].cells)
          BY <3>3 DEF Covers, Addresses
        <5> QED
          BY <2>4, <5>1, <5>2
      <4> DEFINE k == a - todo[1].at + 1
      <4>2. k \in DOMAIN todo[1].cells /\ todo[1].at + k - 1 = a
        <5> DEFINE x == todo[1].at  n == Len(todo[1].cells)
        <5>1. a \in Nat /\ x <= a /\ a < x + n
          BY <3>3 DEF Covers, Addresses
        <5>2. x \in Nat /\ n \in Nat /\ DOMAIN todo[1].cells = 1 .. n
          BY <2>4
        <5> HIDE DEF x, n
        <5>3. a - x + 1 \in 1 .. n /\ x + (a - x + 1) - 1 = a
          BY <5>1, <5>2
        <5> QED
          BY <5>2, <5>3 DEF x
      <4> HIDE DEF k
      <4>3. todo[1].cells[k] = img[a]
        BY <2>1, <2>5, <4>2 DEF StepOf
      <4>4. cells[a] = todo[1].cells[k]
        BY <1>3, <2>1, <4>2 DEF Verified
      <4>5. cells'[a] = img[a]
        BY <1>1, <4>3, <4>4
      <4> QED
        BY <3>1, <4>1, <4>5
    <3>4. CASE \A j \in DOMAIN todo : ~Covers(todo[j], a)
      <4>1. (\A j \in DOMAIN todo : ~Programs(todo[j], a)) /\ cells[a] = img[a]
        BY <2>5, <3>1, <3>4 DEF Underway
      <4>2. \A j \in DOMAIN todo' : ~Programs(todo'[j], a)
        BY <1>1, <1>3, <4>1, TailUnder
      <4> QED
        BY <1>1, <3>1, <4>1, <4>2
    <3> QED
      BY <3>2, <3>3, <3>4
  <2> QED
    BY <1>1, <1>3, <2>3, <2>5, HeadDone
<1> QED
  BY <1>2, <1>3 DEF VerifyRecord

\* When a compaction is over, the window reads as the files do, its log takes
\* up what they occupy, and the record's span is blank.
LEMMA CompactionEnds ==
  ASSUME PlanInv, stage = "compacting", todo = <<>>
  PROVE  /\ cells \in [Addresses -> Cells] /\ record \in Seq(Cells) /\ Len(record) \in Nat /\ Len(record) >= 1
         /\ End(cells) \in Nat /\ Contents(cells) = files /\ Occupied(files) = End(cells)
         /\ \A a \in Addresses : End(cells) <= a /\ a < End(cells) + Len(record) => cells[a] = Erased
<1>1. PICK img, top, room : Compacts(todo, cells, files, Len(record), img, top, room)
  BY DEF PlanInv, CompactsTo
<1>2. cells \in [Addresses -> Cells] /\ record \in Seq(Cells) /\ Len(record) \in Nat /\ Len(record) >= 1
  BY LenProperties DEF PlanInv, Typed
<1>3. /\ top \in Nat /\ top <= Capacity /\ room \in Nat /\ top + Len(record) <= room
      /\ End(img) = top /\ Contents(img) = files /\ Occupied(files) = top
      /\ \A a \in Addresses : a >= top => img[a] = Erased
  BY <1>1, CapacityAssumption DEF Compacts
<1>4. \A a \in Addresses : a < room => cells[a] = img[a]
  BY <1>1, EmptyFacts DEF Compacts, Underway
<1>5. top < room
  BY <1>2, <1>3
<1>6. \A a \in Addresses : a < End(img) => cells[a] = img[a]
  BY <1>3, <1>4, <1>5, CapacityAssumption DEF Addresses
<1>7. ~IsRecord(cells, End(img))
  <2>1. CASE top \in Addresses
    <3>1. cells[top] = Erased
      BY <1>3, <1>4, <1>5, <2>1
    <3> QED
      BY <1>3, <3>1, ErasedIsNone
  <2>2. CASE top \notin Addresses
    <3>1. ~(top < Capacity)
      BY <1>3, <2>2, CapacityAssumption DEF Addresses
    <3> QED
      BY <1>3, <3>1 DEF IsRecord
  <2> QED
    BY <2>1, <2>2
<1>8. End(cells) = End(img) /\ Contents(cells) = Contents(img)
  BY <1>6, <1>7, LogIsLocal
<1>9. ASSUME NEW a \in Addresses, top <= a, a < top + Len(record) PROVE cells[a] = Erased
  <2>1. a < room /\ a >= top
    BY <1>2, <1>3, <1>9, CapacityAssumption DEF Addresses
  <2> QED
    BY <1>3, <1>4, <2>1
<1> QED
  BY <1>2, <1>3, <1>8, <1>9

LEMMA ReappendPlan ==
  ASSUME PlanInv, Reappend
  PROVE  PlanInv'
<1>1. stage = "compacting" /\ todo = <<>> /\ cells' = cells
  BY DEF Reappend
<1>2. /\ cells \in [Addresses -> Cells] /\ record \in Seq(Cells) /\ Len(record) \in Nat /\ Len(record) >= 1
      /\ End(cells) \in Nat
      /\ \A a \in Addresses : End(cells) <= a /\ a < End(cells) + Len(record) => cells[a] = Erased
  BY <1>1, CompactionEnds
<1>3. CASE Fits(cells, Len(record))
  <2> DEFINE at == End(cells)
  <2>1. stage' = "putting" /\ todo' = Put(at, record) /\ UNCHANGED <<call, record, files>>
    BY <1>3 DEF Reappend
  <2>2. at + Len(record) <= Capacity
    BY <1>3 DEF Fits
  <2>3. at \in Nat /\ \A a \in Addresses : at <= a /\ a < at + Len(record) => cells[a] = Erased
    BY <1>2
  <2> HIDE DEF at
  <2>4. \A a \in at .. at + Len(record) - 1 : cells[a] = Erased
    <3> SUFFICES ASSUME NEW a \in at .. at + Len(record) - 1 PROVE cells[a] = Erased
      OBVIOUS
    <3>1. a \in Addresses /\ at <= a /\ a < at + Len(record)
      BY <1>2, <2>2, <2>3, CapacityAssumption DEF Addresses
    <3> QED
      BY <2>3, <3>1
  <2>5. /\ todo' \in Seq(Steps) /\ Orderly(todo') /\ Programming(todo')
        /\ \A j \in DOMAIN todo' : todo'[j].do = "program" => cells[todo'[j].at] = Erased
    BY <1>2, <2>1, <2>2, <2>3, <2>4, PutPlan
  <2>6. call # None
    BY <1>1 DEF PlanInv, Typed
  <2>7. Typed'
    BY <1>1, <1>2, <2>1, <2>5, <2>6 DEF Typed
  <2>8. ErasedAhead'
    BY <1>1, <2>5 DEF ErasedAhead
  <2> QED
    BY <2>1, <2>5, <2>7, <2>8 DEF PlanInv, IdleKnows, CompactsTo
<1>4. CASE ~Fits(cells, Len(record))
  <2>1. Return("full")
    BY <1>4 DEF Reappend
  <2> QED
    BY <1>1, <1>2, <2>1, ReturnPlan
<1> QED
  BY <1>3, <1>4

LEMMA ResetPlan ==
  ASSUME PlanInv, Reset
  PROVE  PlanInv'
<1>1. Return("cut") /\ cells \in [Addresses -> Cells]
  BY DEF Reset, PlanInv, Typed
<1>2. CASE cells' = cells
  BY <1>1, <1>2, ReturnPlan
<1>3. CASE todo # <<>> /\ HalfDone(Head(todo))
  <2>1. CASE /\ Head(todo).do = "erase"
             /\ cells' = [a \in Addresses |->
                           IF a \in Head(todo).at .. Head(todo).at + Sector - 1 THEN Torn ELSE cells[a]]
    <3>1. cells' \in [Addresses -> Cells]
      BY <1>1, <2>1 DEF Cells
    <3> QED
      BY <1>1, <3>1, ReturnPlan
  <2>2. CASE /\ Head(todo).do = "program"
             /\ \E part \in PartsOf(Head(todo).cells[1]) :
                  cells' = [cells EXCEPT ![Head(todo).at] = IF @ = Erased THEN part ELSE Torn]
    <3>1. PICK part \in PartsOf(Head(todo).cells[1]) :
            cells' = [cells EXCEPT ![Head(todo).at] = IF @ = Erased THEN part ELSE Torn]
      BY <2>2
    <3>2. part \in Cells /\ Torn \in Cells
      BY <1>3, <2>2, HeadPrograms, PartsFit DEF Cells
    <3>3. cells' \in [Addresses -> Cells]
      BY <1>1, <3>1, <3>2
    <3> QED
      BY <1>1, <3>3, ReturnPlan
  <2> QED
    BY <1>3, <2>1, <2>2 DEF HalfDone
<1> QED
  BY <1>2, <1>3 DEF Reset

LEMMA StepPlan == PlanInv /\ [FlashNext]_flashVars => PlanInv'
<1> SUFFICES ASSUME PlanInv, [FlashNext]_flashVars PROVE PlanInv'
  OBVIOUS
<1>1. ASSUME NEW request \in Calls, Begin(request) PROVE PlanInv'
  BY <1>1, BeginPlan
<1>2. CASE EraseSector
  BY <1>2, ErasePlan
<1>3. CASE ProgramCell
  BY <1>3, ProgramCellPlan
<1>4. CASE VerifyRecord
  BY <1>4, VerifyPlan
<1>5. CASE Reappend
  BY <1>5, ReappendPlan
<1>6. CASE BadCell
  BY <1>6, BadCellPlan
<1>7. CASE Reset
  BY <1>7, ResetPlan
<1>8. CASE UNCHANGED flashVars
  BY <1>8 DEF flashVars, PlanInv, Typed, ErasedAhead, IdleKnows, CompactsTo
<1> QED
  BY <1>1, <1>2, <1>3, <1>4, <1>5, <1>6, <1>7, <1>8 DEF FlashNext

\* The plan of a call is kept from start to end.
THEOREM PlanIsKept == FlashSpec => []PlanInv
<1> QED
  BY InitPlan, StepPlan, PTL DEF FlashSpec

-----------------------------------------------------------------------------
\* No cell is programmed that is not erased, whatever lay in the window and
\* wherever a reset or a bad cell strikes (lib.rs:30: the write would AND into
\* live data): a record goes where its whole span was blank, a compaction
\* erases all that it programs, and nothing is programmed twice.
THEOREM NothingIsOverprogrammed == FlashSpec => []NeverOverprograms
<1>1. PlanInv => NeverOverprograms
  BY HeadPrograms DEF NeverOverprograms
<1> QED
  BY <1>1, PlanIsKept, PTL

LEMMA FullStep == PlanInv /\ [FlashNext]_flashVars =>
                    (outcome' = "full" /\ outcome # "full" => Occupied(files) + Len(record) > Capacity)
<1> SUFFICES ASSUME PlanInv, [FlashNext]_flashVars, outcome' = "full", outcome # "full"
             PROVE  Occupied(files) + Len(record) > Capacity
  OBVIOUS
<1>1. Reappend /\ ~Fits(cells, Len(record))
  BY DEF FlashNext, flashVars, Begin, EraseSector, ProgramCell, VerifyRecord, Reappend, BadCell, Reset, Return
<1>2. stage = "compacting" /\ todo = <<>>
  BY <1>1 DEF Reappend
<1>3. Occupied(files) = End(cells) /\ End(cells) \in Nat /\ Len(record) \in Nat
  BY <1>2, CompactionEnds
<1> QED
  BY <1>1, <1>3, CapacityAssumption DEF Fits

\* A write is refused as "full" only when the files as they stand leave no
\* room for it: a compaction ends with a window in which the log takes up what
\* they occupy and no more, however many superseded records, tombstones and
\* torn tails it began with.
THEOREM RefusesOnlyWhenFull == FlashSpec => FullOnlyWhenFull
<1> QED
  BY PlanIsKept, FullStep, PTL DEF FlashSpec, FullOnlyWhenFull

-----------------------------------------------------------------------------
\* What a record that is put, or put in part, leaves of the files.

\* The record of a call: its bytes are no headers, but for the first.
IsRecordOf(bytes, n, f, d) ==
  /\ n \in Names /\ f \in Flags /\ d \in Seq(Cells \ Headers) /\ Len(d) <= MaxLen
  /\ bytes = RecordBytes(n, f, d)

\* What a cell may hold that was erased and had v put into it.
Left(v) == {v} \cup PartsOf(v)

\* c is the window base with some of bytes put at its end.
Puts(c, base, bytes) ==
  \A a \in Addresses : IF End(base) <= a /\ a < End(base) + Len(bytes)
                       THEN c[a] \in Left(bytes[a - End(base) + 1])
                       ELSE c[a] = base[a]

LEMMA RecordOf ==
  ASSUME NEW bytes, NEW n, NEW f, NEW d, IsRecordOf(bytes, n, f, d)
  PROVE  /\ bytes \in Seq(Cells) /\ Len(bytes) = Len(d) + 1 /\ Len(d) \in Nat /\ Len(bytes) \in Nat
         /\ bytes[1] = [name |-> n, flags |-> f, len |-> Len(d)] /\ bytes[1] \in Headers
         /\ \A i \in 1 .. Len(d) : bytes[i + 1] = d[i] /\ d[i] \in Cells \ Headers
         /\ \A v \in Left(bytes[1]) : v \in Headers => v.len = Len(d) /\ v.name \in {n, NoName}
         /\ \A i \in 2 .. Len(bytes) : \A v \in Left(bytes[i]) : v \notin Headers
<1>1. /\ bytes \in Seq(Cells) /\ Len(bytes) = Len(d) + 1 /\ Len(d) \in Nat
      /\ bytes[1] = [name |-> n, flags |-> f, len |-> Len(d)] /\ bytes[1] \in Headers
      /\ \A i \in 1 .. Len(d) : bytes[i + 1] = d[i] /\ d[i] \in Cells \ Headers
  <2> DEFINE S == Cells \ Headers
  <2>1. n \in Names /\ f \in Flags /\ d \in Seq(S) /\ Len(d) <= MaxLen /\ bytes = RecordBytes(n, f, d)
        /\ S \in SUBSET Cells
    BY DEF IsRecordOf
  <2>2. Len(d) \in Nat
    BY <2>1, LenProperties
  <2> HIDE DEF S
  <2>3. /\ RecordBytes(n, f, d) \in Seq(Cells) /\ Len(RecordBytes(n, f, d)) = Len(d) + 1
        /\ RecordBytes(n, f, d)[1] = [name |-> n, flags |-> f, len |-> Len(d)]
        /\ [name |-> n, flags |-> f, len |-> Len(d)] \in Headers
        /\ \A i \in 1 .. Len(d) : RecordBytes(n, f, d)[i + 1] = d[i] /\ d[i] \in S
    BY <2>1, BytesFacts
  <2> QED
    BY <2>1, <2>2, <2>3 DEF S
<1> DEFINE h == [name |-> n, flags |-> f, len |-> Len(d)]
<1>2. h.name = n /\ h.len = Len(d)
  OBVIOUS
<1>3. ASSUME NEW v \in Left(bytes[1]), v \in Headers
      PROVE  v.len = Len(d) /\ v.name \in {n, NoName}
  <2>1. v \in {h, [h EXCEPT !.name = NoName]}
    BY <1>1, <1>3, ErasedIsNone DEF Left, PartsOf
  <2>2. [h EXCEPT !.name = NoName] = [name |-> NoName, flags |-> f, len |-> Len(d)]
    OBVIOUS
  <2> QED
    BY <1>2, <2>1, <2>2
<1>4. ASSUME NEW i \in 2 .. Len(bytes), NEW v \in Left(bytes[i]) PROVE v \notin Headers
  <2>1. i - 1 \in 1 .. Len(d) /\ (i - 1) + 1 = i
    BY <1>1
  <2>2. bytes[i] \notin Headers
    BY <1>1, <2>1
  <2> QED
    BY <2>2, ErasedIsNone DEF Left, PartsOf
<1> QED
  BY <1>1, <1>3, <1>4

\* A log ends where no header is, if every header is that of a record.
LEMMA NothingBeyond ==
  ASSUME NEW c, Sound(c), NEW a \in Addresses, End(c) <= a
  PROVE  c[a] \notin Headers
<1> SUFFICES ASSUME a \in Starts(c) PROVE FALSE
  BY DEF Sound
<1>1. /\ Past(c, a) = a + 1 + c[a].len /\ Past(c, a) <= End(c) /\ c[a].len \in 0 .. MaxLen /\ a \in Nat
      /\ End(c) \in 0 .. Capacity
  BY LogFacts
<1> QED
  BY <1>1, LengthAssumption, CapacityAssumption

LEMMA PutLeaves ==
  ASSUME NEW c, NEW base, Sound(base),
         NEW bytes, NEW n, NEW f, NEW d, IsRecordOf(bytes, n, f, d),
         End(base) + Len(bytes) <= Capacity, Puts(c, base, bytes)
  PROVE  /\ Sound(c)
         /\ \A m \in Names \ {n} : Read(c, m) = Read(base, m)
         /\ (\A k \in 1 .. Len(bytes) : c[End(base) + k - 1] = bytes[k]) =>
              Read(c, n) = IF f = "deleted" THEN None ELSE d
<1> DEFINE at == End(base)
           len == Len(bytes)
<1>0. /\ Len(bytes) = Len(d) + 1 /\ Len(d) \in Nat /\ Len(bytes) \in Nat
           /\ bytes[1] = [name |-> n, flags |-> f, len |-> Len(d)] /\ bytes[1] \in Headers
           /\ \A i \in 1 .. Len(d) : bytes[i + 1] = d[i]
  BY RecordOf
<1>10. \A v \in Left(bytes[1]) : v \in Headers => v.len = Len(d) /\ v.name \in {n, NoName}
  BY RecordOf
<1>11. \A i \in 2 .. Len(bytes) : \A v \in Left(bytes[i]) : v \notin Headers
  BY RecordOf
<1>1. /\ at \in Nat /\ at + len <= Capacity /\ len \in Nat /\ len = Len(d) + 1 /\ Len(d) \in Nat
  <2>1. at \in 0 .. Capacity
    BY LogFacts
  <2> QED
    BY <1>0, <2>1, CapacityAssumption
<1>2. \A a \in Addresses : /\ a < at => c[a] = base[a]
                           /\ at + len <= a => c[a] = base[a] /\ c[a] \notin Headers
  <2> SUFFICES ASSUME NEW a \in Addresses
               PROVE  /\ a < at => c[a] = base[a]
                      /\ at + len <= a => c[a] = base[a] /\ c[a] \notin Headers
    OBVIOUS
  <2>1. a \in Nat
    BY DEF Addresses
  <2>2. ~(at <= a /\ a < at + len) => c[a] = base[a]
    BY DEF Puts
  <2>3. at <= a => base[a] \notin Headers
    BY NothingBeyond
  <2> HIDE DEF at, len
  <2> QED
    BY <1>1, <2>1, <2>2, <2>3
<1>3. \A a \in Addresses : at <= a /\ a < at + len => c[a] \in Left(bytes[a - at + 1])
  BY DEF Puts
<1>4. \A a \in Starts(base) : a \in Addresses /\ a \in Nat /\ a < at
  <2> SUFFICES ASSUME NEW a \in Starts(base) PROVE a \in Addresses /\ a \in Nat /\ a < at
    OBVIOUS
  <2>1. /\ a \in Addresses /\ a \in Nat /\ base[a].len \in 0 .. MaxLen
        /\ Past(base, a) = a + 1 + base[a].len /\ Past(base, a) <= at
    BY LogFacts
  <2> HIDE DEF at
  <2> QED
    BY <1>1, <2>1, LengthAssumption
<1> HIDE DEF at, len
<1>5. at \in Addresses /\ c[at] \in Left(bytes[1])
  <2>1. at \in Addresses /\ at <= at /\ at < at + len /\ at - at + 1 = 1
    BY <1>1, CapacityAssumption DEF Addresses
  <2> QED
    BY <1>3, <2>1
<1>6. \A a \in Addresses : at < a /\ a < at + len => c[a] \notin Headers
  <2> SUFFICES ASSUME NEW a \in Addresses, at < a, a < at + len PROVE c[a] \notin Headers
    OBVIOUS
  <2>1. a - at + 1 \in 2 .. len /\ at <= a
    BY <1>1 DEF Addresses
  <2>2. c[a] \in Left(bytes[a - at + 1])
    BY <1>3, <2>1
  <2> QED
    BY <1>11, <2>1, <2>2 DEF len
<1>7. ASSUME NEW a \in Addresses, c[a] \in Headers
      PROVE  a = at \/ (a < at /\ base[a] \in Headers)
  <2>1. a \in Nat
    BY DEF Addresses
  <2> QED
    BY <1>1, <1>2, <1>6, <1>7, <2>1
<1>8. CASE c[at] \notin Headers
  <2>1. ~IsRecord(c, End(base))
    BY <1>8 DEF IsRecord, at
  <2>2. Starts(c) = Starts(base) /\ End(c) = End(base) /\ Contents(c) = Contents(base)
    BY <1>2, <2>1, LogIsLocal DEF at
  <2>3. Sound(c)
    BY <1>7, <1>8, <2>2 DEF Sound
  <2>4. \A m \in Names : Read(c, m) = Read(base, m)
    BY <2>2 DEF Contents
  <2>5. 1 \in 1 .. Len(bytes) /\ at + 1 - 1 = at
    BY <1>1 DEF len
  <2>6. ~\A k \in 1 .. Len(bytes) : c[End(base) + k - 1] = bytes[k]
    BY <1>8, <1>0, <2>5 DEF at
  <2> QED
    BY <2>3, <2>4, <2>6
<1>9. CASE c[at] \in Headers
  <2>1. c[at].len = Len(d) /\ c[at].name \in {n, NoName} /\ n \in Names
    BY <1>5, <1>9, <1>10 DEF IsRecordOf
  <2>2. IsRecord(c, at) /\ Past(c, at) = at + len
    <3>1. at < Capacity /\ at + 1 + c[at].len = at + len
      BY <1>1, <1>5, <2>1, CapacityAssumption DEF Addresses
    <3> QED
      BY <1>1, <1>9, <3>1 DEF IsRecord, Past
  <2>3. ~IsRecord(c, at + len)
    <3> SUFFICES ASSUME at + len < Capacity, c[at + len] \in Headers PROVE FALSE
      BY DEF IsRecord
    <3>1. at + len \in Addresses
      BY <1>1, CapacityAssumption DEF Addresses
    <3> QED
      BY <1>1, <1>2, <3>1
  <2>4. /\ Starts(c) = Starts(base) \cup {at}
        /\ \A m : m # c[at].name => Read(c, m) = Read(base, m)
        /\ \A m : m = c[at].name => Read(c, m) = IF c[at].flags = "deleted" THEN None ELSE DataOf(c, at)
    BY <1>2, <2>2, <2>3, LogGrows DEF at
  <2>5. Sound(c)
    BY <1>7, <2>4 DEF Sound
  <2>6. ASSUME NEW m \in Names \ {n} PROVE Read(c, m) = Read(base, m)
    BY <2>1, <2>4, NamesAssumption
  <2>7. ASSUME \A k \in 1 .. Len(bytes) : c[End(base) + k - 1] = bytes[k]
        PROVE  Read(c, n) = IF f = "deleted" THEN None ELSE d
    <3>1. \A k \in 1 .. len : c[at + k - 1] = bytes[k]
      BY <2>7 DEF at, len
    <3>2. 1 \in 1 .. len /\ at + 1 - 1 = at
      BY <1>1
    <3>3. c[at] = bytes[1]
      BY <3>1, <3>2
    <3>4. c[at] = [name |-> n, flags |-> f, len |-> Len(d)]
      BY <3>3, <1>0
    <3>5. c[at].name = n /\ c[at].flags = f
      BY <3>4
    <3>6. \A k \in 1 .. Len(d) : c[at + k] = d[k]
      <4> SUFFICES ASSUME NEW k \in 1 .. Len(d) PROVE c[at + k] = d[k]
        OBVIOUS
      <4>1. k + 1 \in 1 .. len /\ at + (k + 1) - 1 = at + k
        BY <1>1
      <4>2. c[at + k] = bytes[k + 1]
        BY <3>1, <4>1
      <4> QED
        BY <4>2, <1>0
    <3>7. d = [k \in 1 .. Len(d) |-> d[k]]
      BY LenProperties DEF IsRecordOf
    <3>8. DataOf(c, at) = [k \in 1 .. Len(d) |-> c[at + k]]
      BY <2>1 DEF DataOf
    <3>9. DataOf(c, at) = d
      BY <3>6, <3>7, <3>8
    <3> QED
      BY <2>4, <3>5, <3>9
  <2> QED
    BY <2>5, <2>6, <2>7
<1> QED
  BY <1>8, <1>9

\* The steps of a put that are still to do.
PutList(t, at, bytes) ==
  /\ t \in Seq(Steps) /\ t # <<>>
  /\ t[Len(t)] = [do |-> "verify", at |-> at, cells |-> bytes]
  /\ \A j \in 1 .. Len(t) - 1 :
       \E k \in 1 .. Len(bytes) : t[j] = [do |-> "program", at |-> at + k - 1, cells |-> <<bytes[k]>>]

LEMMA PutListStarts ==
  ASSUME NEW at \in Nat, NEW bytes \in Seq(Cells)
  PROVE  PutList(Put(at, bytes), at, bytes)
<1> DEFINE t == Put(at, bytes)  n == Len(bytes)
<1>1. /\ t \in Seq(Steps) /\ Len(t) = n + 1 /\ n \in Nat
      /\ \A j \in 1 .. n : t[j] = [do |-> "program", at |-> at + j - 1, cells |-> <<bytes[j]>>]
      /\ t[n + 1] = [do |-> "verify", at |-> at, cells |-> bytes]
  BY PutFacts
<1> HIDE DEF t, n
<1>2. t # <<>>
  BY <1>1
<1>3. Len(t) - 1 = n
  BY <1>1
<1> QED
  BY <1>1, <1>2, <1>3 DEF PutList, t, n

LEMMA PutListGoesOn ==
  ASSUME NEW t, NEW at \in Nat, NEW bytes \in Seq(Cells), PutList(t, at, bytes)
  PROVE  /\ Head(t).do # "erase"
         /\ Head(t).do = "program" =>
              /\ PutList(Tail(t), at, bytes)
              /\ \E k \in 1 .. Len(bytes) : Head(t).at = at + k - 1 /\ Head(t).cells = <<bytes[k]>>
         /\ Head(t).do = "verify" => Tail(t) = <<>> /\ Head(t).at = at /\ Head(t).cells = bytes
<1> DEFINE n == Len(t)
<1>1. /\ t \in Seq(Steps) /\ t # <<>> /\ n \in Nat /\ n >= 1 /\ DOMAIN t = 1 .. n /\ Head(t) = t[1]
      /\ Tail(t) \in Seq(Steps) /\ Len(Tail(t)) = n - 1
      /\ \A i \in 1 .. n - 1 : Tail(t)[i] = t[i + 1]
  <2>1. t \in Seq(Steps) /\ t # <<>>
    BY DEF PutList
  <2>2. n \in Nat /\ DOMAIN t = 1 .. n /\ n # 0
    BY <2>1, LenProperties, EmptySeq
  <2>3. /\ Tail(t) \in Seq(Steps) /\ Len(Tail(t)) = n - 1
        /\ \A i \in 1 .. Len(Tail(t)) : Tail(t)[i] = t[i + 1]
    BY <2>1, HeadTailProperties
  <2>4. Head(t) = t[1]
    BY <2>1, TailFacts
  <2> QED
    BY <2>1, <2>2, <2>3, <2>4
<1>2. t[n] = [do |-> "verify", at |-> at, cells |-> bytes]
  BY DEF PutList
<1>3. \A j \in 1 .. n - 1 :
        \E k \in 1 .. Len(bytes) : t[j] = [do |-> "program", at |-> at + k - 1, cells |-> <<bytes[k]>>]
  BY DEF PutList
<1> HIDE DEF n
<1>4. CASE n = 1
  <2>1. Head(t).do = "verify" /\ Head(t).at = at /\ Head(t).cells = bytes
    <3>1. Head(t) = [do |-> "verify", at |-> at, cells |-> bytes]
      BY <1>1, <1>2, <1>4
    <3> QED
      BY <3>1, StepFields
  <2>2. Len(Tail(t)) = 0
    BY <1>1, <1>4
  <2>3. Tail(t) = <<>>
    BY <1>1, <2>2, EmptySeq
  <2> QED
    BY <2>1, <2>3
<1>5. CASE n > 1
  <2>1. 1 \in 1 .. n - 1
    BY <1>1, <1>5
  <2>2. PICK k \in 1 .. Len(bytes) : t[1] = [do |-> "program", at |-> at + k - 1, cells |-> <<bytes[k]>>]
    BY <1>3, <2>1
  <2>3. Head(t).do = "program" /\ Head(t).at = at + k - 1 /\ Head(t).cells = <<bytes[k]>>
    BY <1>1, <2>2, StepFields
  <2>4. Len(Tail(t)) = n - 1 /\ n - 1 \in 1 .. n - 1 /\ (n - 1) + 1 = n
    BY <1>1, <1>5
  <2>5. Tail(t)[Len(Tail(t))] = t[n]
    BY <1>1, <2>4
  <2>6. Tail(t) # <<>>
    <3> DEFINE u == Tail(t)
    <3> HIDE DEF u
    <3>1. Len(u) = n - 1 /\ u \in Seq(Steps)
      BY <1>1 DEF u
    <3>2. u # <<>>
      BY <1>1, <1>5, <3>1, EmptySeq
    <3> QED
      BY <3>2 DEF u
  <2>7. ASSUME NEW j \in 1 .. Len(Tail(t)) - 1
        PROVE  \E i \in 1 .. Len(bytes) : Tail(t)[j] = [do |-> "program", at |-> at + i - 1, cells |-> <<bytes[i]>>]
    <3>1. j \in 1 .. n - 1 /\ j + 1 \in 1 .. n - 1
      BY <1>1, <2>4
    <3>2. Tail(t)[j] = t[j + 1]
      BY <1>1, <3>1
    <3>3. PICK i \in 1 .. Len(bytes) : t[j + 1] = [do |-> "program", at |-> at + i - 1, cells |-> <<bytes[i]>>]
      BY <1>3, <3>1
    <3> QED
      BY <3>2, <3>3
  <2>8. Tail(t)[Len(Tail(t))] = [do |-> "verify", at |-> at, cells |-> bytes]
    BY <1>2, <2>5
  <2>9. PutList(Tail(t), at, bytes)
    BY <1>1, <2>6, <2>7, <2>8 DEF PutList
  <2> QED
    BY <2>3, <2>9
<1>6. n = 1 \/ n > 1
  BY <1>1
<1> QED
  BY ONLY <1>4, <1>5, <1>6

\* A record may be put where its span is blank.
LEMMA PutsStart ==
  ASSUME NEW c, NEW bytes,
         \A a \in Addresses : End(c) <= a /\ a < End(c) + Len(bytes) => c[a] = Erased
  PROVE  Puts(c, c, bytes)
BY DEF Puts, Left, PartsOf

\* And each of its cells is left holding what it may.
LEMMA PutsMore ==
  ASSUME NEW c \in [Addresses -> Cells], NEW d, NEW base, NEW bytes \in Seq(Cells), NEW k \in 1 .. Len(bytes), NEW v,
         Puts(c, base, bytes), v \in Left(bytes[k]), d = [c EXCEPT ![End(base) + k - 1] = v]
  PROVE  Puts(d, base, bytes)
<1> DEFINE at == End(base)
<1>1. at \in Nat /\ k \in Nat /\ Len(bytes) \in Nat
  <2>1. at \in 0 .. Capacity
    BY LogFacts
  <2> HIDE DEF at
  <2> QED
    BY <2>1, CapacityAssumption, LenProperties
<1> SUFFICES ASSUME NEW a \in Addresses
             PROVE  IF at <= a /\ a < at + Len(bytes) THEN d[a] \in Left(bytes[a - at + 1]) ELSE d[a] = base[a]
  BY DEF Puts
<1>2. IF at <= a /\ a < at + Len(bytes) THEN c[a] \in Left(bytes[a - at + 1]) ELSE c[a] = base[a]
  BY DEF Puts
<1> HIDE DEF at
<1>3. CASE a = at + k - 1
  <2>1. at <= a /\ a < at + Len(bytes) /\ a - at + 1 = k
    BY <1>1, <1>3
  <2>2. d[a] = v
    BY <1>3 DEF at
  <2> QED
    BY <2>1, <2>2
<1>4. CASE a # at + k - 1
  <2>1. d[a] = c[a]
    BY <1>4 DEF at
  <2> QED
    BY <1>2, <2>1
<1> QED
  BY <1>3, <1>4

-----------------------------------------------------------------------------
\* The invariant of the store, where no reset and no bad cell strikes during a
\* compaction.

\* The call in progress will leave of its file what its record says.
Told ==
  stage # "idle" =>
    /\ call \in Calls
    /\ \E f, d : /\ IsRecordOf(record, call.name, f, d)
                 /\ Promise!After(call, files[call.name]) = IF f = "deleted" THEN None ELSE d

\* What is to be verified is to be programmed first, or it is as in img and
\* will not be wiped.
Rightly(t, c, img) ==
  \A a \in Addresses : (\E j \in DOMAIN t : Covers(t[j], a)) =>
    \/ \E j \in DOMAIN t : Programs(t[j], a)
    \/ c[a] = img[a] /\ \A j \in DOMAIN t : ~Wipes(t[j], a)

Restores(t, c, img, room) ==
  /\ Sound(img) /\ Rightly(t, c, img)
  /\ \A a \in Addresses : a >= room => c[a] \notin Headers

Restoring ==
  stage = "compacting" =>
    \E img, top, room : /\ Compacts(todo, cells, files, Len(record), img, top, room)
                        /\ Restores(todo, cells, img, room)

\* The record is being put at the end of a window that reads as the files do.
Appends(t, c, contents, bytes, base) ==
  /\ Sound(base) /\ Contents(base) = contents
  /\ End(base) + Len(bytes) <= Capacity
  /\ Puts(c, base, bytes) /\ PutList(t, End(base), bytes)

Appending == stage = "putting" => \E base : Appends(todo, cells, files, record, base)

StoreInv == /\ PlanInv /\ (stage = "idle" => Sound(cells))
            /\ Told /\ Restoring /\ Appending

StoreStep == StoreInv' /\ [Promise!Next]_<<files, call, outcome>>

LEMMA InitStore == FlashInit => StoreInv /\ Promise!Init
<1> SUFFICES ASSUME FlashInit PROVE StoreInv /\ Promise!Init
  OBVIOUS
<1>1. /\ cells \in [Addresses -> {Erased, Torn}] /\ stage = "idle" /\ call = None /\ outcome = "ok"
      /\ files = Contents(cells)
  BY DEF FlashInit
<1>2. \A a \in Addresses : cells[a] \notin Headers
  BY <1>1, ErasedIsNone
<1>3. Sound(cells)
  BY <1>2 DEF Sound
<1>4. PlanInv
  BY InitPlan
<1>5. Starts(cells) = {}
  <2>1. \A a \in Starts(cells) : a \in Addresses /\ cells[a] \in Headers
    BY LogFacts
  <2> QED
    BY <1>2, <2>1
<1>6. files = [n \in Names |-> None]
  <2>1. \A n : Matches(cells, n) = {}
    BY <1>5 DEF Matches
  <2> QED
    BY <1>1, <2>1 DEF Contents, Read
<1> QED
  BY <1>1, <1>3, <1>4, <1>6 DEF StoreInv, Told, Restoring, Appending, Promise!Init

LEMMA BeginStore ==
  ASSUME StoreInv, NEW request \in Calls, Begin(request)
  PROVE  StoreStep
<1>1. /\ call = None /\ record' = Record(cells, request) /\ Len(record') <= MaxLen + 1
      /\ cells' = cells /\ files' = files /\ call' = request /\ outcome' = "busy"
      /\ ~NothingToDo(cells, request)
  BY DEF Begin
<1>2. PlanInv'
  BY BeginPlan DEF StoreInv
<1>3. cells \in [Addresses -> Cells] /\ files = Contents(cells) /\ Sound(cells)
  BY <1>1 DEF StoreInv, PlanInv, Typed, IdleKnows
<1>4. stage' \in {"putting", "compacting"}
  BY DEF Begin
<1> DEFINE r == record'  at == End(cells)
<1>5. r \in Seq(Cells) /\ Len(r) \in Nat /\ Len(r) >= 1
  BY <1>2, <1>4, LenProperties DEF PlanInv, Typed
<1>6. Told'
  <2>1. PICK f \in Flags, d \in Seq(Cells) :
          /\ Len(d) <= MaxLen /\ r = RecordBytes(request.name, f, d)
          /\ Sound(cells) => d \in Seq(Cells \ Headers)
          /\ ~NothingToDo(cells, request) =>
               Promise!After(request, Read(cells, request.name)) = IF f = "deleted" THEN None ELSE d
    BY <1>1, <1>3, RecordIs
  <2>2. request.name \in Names
    BY <1>1, <1>3, RecordIs
  <2>3. IsRecordOf(r, request.name, f, d)
    BY <1>3, <2>1, <2>2 DEF IsRecordOf
  <2>4. files[request.name] = Read(cells, request.name)
    BY <1>3, <2>2 DEF Contents
  <2>5. Promise!After(call', files'[call'.name]) = IF f = "deleted" THEN None ELSE d
    BY <1>1, <2>1, <2>4
  <2>6. IsRecordOf(record', call'.name, f, d)
    BY <1>1, <2>3
  <2> QED
    BY <1>1, <2>5, <2>6 DEF Told
<1> HIDE DEF r
<1>7. at \in Nat
  <2>1. at \in 0 .. Capacity
    BY LogFacts
  <2> HIDE DEF at
  <2> QED
    BY <2>1, CapacityAssumption
<1>8. Restoring' /\ Appending'
  <2>1. CASE Fits(cells, Len(r)) /\ Blank(cells, at, Len(r))
    <3>1. stage' = "putting" /\ todo' = Put(at, r)
      BY <2>1 DEF Begin, r
    <3>2. at + Len(r) <= Capacity
      BY <2>1 DEF Fits
    <3>3. \A a \in at .. at + Len(r) - 1 : cells[a] = Erased
      BY <2>1 DEF Blank
    <3>4. \A a \in Addresses : at <= a /\ a < at + Len(r) => cells[a] = Erased
      <4> HIDE DEF at
      <4> QED
        BY <1>5, <1>7, <3>3 DEF Addresses
    <3>5. Puts(cells, cells, r)
      BY <3>4, PutsStart
    <3>6. PutList(todo', at, r)
      BY <1>5, <1>7, <3>1, PutListStarts
    <3>7. Appends(todo', cells', files', record', cells)
      BY <1>1, <1>3, <3>2, <3>5, <3>6 DEF Appends, r
    <3> QED
      BY <3>1, <3>7 DEF Restoring, Appending
  <2>2. CASE ~(Fits(cells, Len(r)) /\ Blank(cells, at, Len(r)))
    <3>1. stage' = "compacting" /\ todo' = Compact(cells, Len(r))
      BY <2>2 DEF Begin, r
    <3>2. PICK img, top, room :
            /\ Compacts(todo', cells, Contents(cells), Len(r), img, top, room)
            /\ room = at + Len(r) /\ (Sound(cells) => Sound(img))
            /\ \A a \in Addresses :
                 (\E j \in DOMAIN todo' : Covers(todo'[j], a)) => \E j \in DOMAIN todo' : Programs(todo'[j], a)
      BY <1>3, <1>5, <3>1, CompactionStarts
    <3>3. Compacts(todo', cells', files', Len(record'), img, top, room)
      BY <1>1, <1>3, <3>2 DEF r
    <3>4. ASSUME NEW a \in Addresses, a >= room PROVE cells[a] \notin Headers
      <4>1. at <= a
        <5> HIDE DEF at
        <5> QED
          BY <1>5, <1>7, <3>2, <3>4 DEF Addresses
      <4> QED
        BY <1>3, <4>1, NothingBeyond
    <3>5. Rightly(todo', cells', img)
      BY <3>2 DEF Rightly
    <3>6. Restores(todo', cells', img, room)
      BY <1>1, <1>3, <3>2, <3>4, <3>5 DEF Restores
    <3> QED
      BY <3>1, <3>3, <3>6 DEF Restoring, Appending
  <2> QED
    BY <2>1, <2>2
<1>9. StoreInv'
  BY <1>2, <1>4, <1>6, <1>8 DEF StoreInv
<1>10. Promise!Begin(request)
  BY <1>1 DEF Promise!Begin
<1>11. Promise!Calls = Calls
  BY DEF Promise!Calls, Calls, Promise!Data, Data
<1> QED
  BY <1>9, <1>10, <1>11 DEF StoreStep, Promise!Next

\* What every step that is no return leaves alone.
LEMMA StepsOn ==
  ASSUME StoreInv, PlanInv', UNCHANGED <<call, record, stage, files, outcome>>, stage # "idle",
         Restoring', Appending'
  PROVE  StoreStep
<1>1. Told'
  BY DEF StoreInv, Told
<1>2. StoreInv'
  BY <1>1 DEF StoreInv
<1> QED
  BY <1>2 DEF StoreStep

\* A return, and what it may leave of the file it was about.
LEMMA CutStep ==
  ASSUME StoreInv, PlanInv', Return("cut"), call # None, Sound(cells'),
         \A m \in Names \ {call.name} : Read(cells', m) = files[m]
  PROVE  StoreStep
<1>1. stage' = "idle" /\ files' = Contents(cells') /\ call' = None /\ outcome' = "cut"
  BY DEF Return
<1>2. StoreInv'
  BY <1>1 DEF StoreInv, Told, Restoring, Appending
<1>3. \A m \in Names \ {call.name} : files'[m] = files[m]
  BY <1>1 DEF Contents
<1>4. Promise!CutShort
  BY <1>1, <1>3 DEF Promise!CutShort, Promise!Return
<1> QED
  BY <1>2, <1>4 DEF StoreStep, Promise!Next

LEMMA EraseStore ==
  ASSUME StoreInv, EraseSector
  PROVE  StoreStep
<1>1. /\ todo # <<>> /\ Head(todo).do = "erase" /\ todo' = Tail(todo)
      /\ UNCHANGED <<call, record, stage, outcome, files>>
      /\ cells' = [a \in Addresses |->
                    IF a \in Head(todo).at .. Head(todo).at + Sector - 1 THEN Erased ELSE cells[a]]
  BY DEF EraseSector
<1>2. PlanInv /\ PlanInv' /\ GoesOn /\ todo \in Seq(Steps)
  BY ErasePlan DEF StoreInv, PlanInv, Typed
<1>3. stage = "compacting"
  <2>1. stage \in {"idle", "compacting", "putting"} /\ stage # "idle" /\ record \in Seq(Cells)
    BY <1>1, <1>2 DEF PlanInv, Typed
  <2>2. ASSUME stage = "putting" PROVE FALSE
    <3>1. PICK base : Appends(todo, cells, files, record, base)
      BY <2>2 DEF StoreInv, Appending
    <3> DEFINE at == End(base)
    <3>2. at \in Nat
      <4>1. at \in 0 .. Capacity
        BY LogFacts
      <4> HIDE DEF at
      <4> QED
        BY <4>1, CapacityAssumption
    <3>3. PutList(todo, at, record)
      BY <3>1 DEF Appends
    <3> HIDE DEF at
    <3> QED
      BY <1>1, <2>1, <3>2, <3>3, PutListGoesOn
  <2> QED
    BY <2>1, <2>2
<1>4. PICK img, top, room : /\ Compacts(todo, cells, files, Len(record), img, top, room)
                            /\ Restores(todo, cells, img, room)
  BY <1>3 DEF StoreInv, Restoring
<1>5. Compacts(todo', cells', files', Len(record'), img, top, room)
  BY <1>2, <1>4 DEF GoesOn
<1>6. /\ Head(todo) = todo[1] /\ todo[1].do = "erase" /\ 1 \in DOMAIN todo
      /\ todo[1].at \in Nat
  <2>1. Head(todo) = todo[1] /\ todo[1] \in Steps /\ 1 \in DOMAIN todo
    BY <1>1, <1>2, TailFacts
  <2> QED
    BY <1>1, <2>1 DEF Steps
<1>7. ASSUME NEW a \in Addresses
      PROVE  /\ cells'[a] \in {Erased, cells[a]}
             /\ ~Wipes(todo[1], a) => cells'[a] = cells[a]
  <2>1. a \in Nat /\ Sector \in Nat
    BY CapacityAssumption DEF Addresses
  <2> DEFINE x == todo[1].at
  <2>2. Wipes(todo[1], a) <=> a \in x .. x + Sector - 1
    BY <1>6, <2>1 DEF Wipes
  <2>3. cells'[a] = IF a \in x .. x + Sector - 1 THEN Erased ELSE cells[a]
    BY <1>1, <1>6
  <2> HIDE DEF x
  <2> QED
    BY <2>2, <2>3
<1>8. Rightly(todo', cells', img)
  <2> SUFFICES ASSUME NEW a \in Addresses, \E j \in DOMAIN todo' : Covers(todo'[j], a)
               PROVE  \/ \E j \in DOMAIN todo' : Programs(todo'[j], a)
                      \/ cells'[a] = img[a] /\ \A j \in DOMAIN todo' : ~Wipes(todo'[j], a)
    BY DEF Rightly
  <2>1. \E j \in DOMAIN todo : Covers(todo[j], a)
    BY <1>1, <1>2, TailUnder
  <2>2. CASE \E j \in DOMAIN todo : Programs(todo[j], a)
    <3>1. PICK j \in DOMAIN todo : Programs(todo[j], a)
      BY <2>2
    <3>2. j # 1
      BY <1>6, <3>1 DEF Programs
    <3>3. j - 1 \in DOMAIN todo' /\ todo'[j - 1] = todo[j]
      BY <1>1, <1>2, <3>2, TailFacts
    <3> QED
      BY <3>1, <3>3
  <2>3. CASE cells[a] = img[a] /\ \A j \in DOMAIN todo : ~Wipes(todo[j], a)
    <3>1. \A j \in DOMAIN todo' : ~Wipes(todo'[j], a)
      BY <1>1, <1>2, <2>3, TailUnder
    <3>2. cells'[a] = img[a]
      BY <1>6, <1>7, <2>3
    <3> QED
      BY <3>1, <3>2
  <2> QED
    BY <1>4, <2>1, <2>2, <2>3 DEF Restores, Rightly
<1>9. Restores(todo', cells', img, room)
  BY <1>4, <1>7, <1>8, ErasedIsNone DEF Restores
<1> QED
  BY <1>1, <1>2, <1>3, <1>5, <1>9, StepsOn DEF Restoring, Appending

\* While a record is put, the head of the list is one of its cells, or the
\* verification that ends it.
LEMMA PuttingHead ==
  ASSUME StoreInv, stage = "putting", NEW base, Appends(todo, cells, files, record, base)
  PROVE  /\ todo # <<>> /\ cells \in [Addresses -> Cells] /\ record \in Seq(Cells) /\ call # None
         /\ Head(todo).do # "erase"
         /\ Head(todo).do = "program" =>
              /\ PutList(Tail(todo), End(base), record)
              /\ \E k \in 1 .. Len(record) :
                   Head(todo).at = End(base) + k - 1 /\ Head(todo).cells = <<record[k]>>
         /\ Head(todo).do = "verify" =>
              Tail(todo) = <<>> /\ Head(todo).at = End(base) /\ Head(todo).cells = record
<1>1. record \in Seq(Cells) /\ cells \in [Addresses -> Cells] /\ call # None
  BY DEF StoreInv, PlanInv, Typed
<1> DEFINE at == End(base)
<1>2. at \in Nat
  <2>1. at \in 0 .. Capacity
    BY LogFacts
  <2> HIDE DEF at
  <2> QED
    BY <2>1, CapacityAssumption
<1>3. PutList(todo, at, record)
  BY DEF Appends
<1> HIDE DEF at
<1>4. todo # <<>>
  BY <1>3 DEF PutList
<1>5. /\ Head(todo).do # "erase"
      /\ Head(todo).do = "program" =>
           /\ PutList(Tail(todo), at, record)
           /\ \E k \in 1 .. Len(record) :
                Head(todo).at = at + k - 1 /\ Head(todo).cells = <<record[k]>>
      /\ Head(todo).do = "verify" => Tail(todo) = <<>> /\ Head(todo).at = at /\ Head(todo).cells = record
  BY <1>1, <1>2, <1>3, PutListGoesOn
<1> QED
  BY <1>1, <1>4, <1>5 DEF at

\* What the flash is left with, wherever the put is cut short.
LEMMA PuttingLeaves ==
  ASSUME StoreInv, stage = "putting", NEW base, Appends(todo, cells, files, record, base),
         NEW c, Puts(c, base, record)
  PROVE  /\ Sound(c)
         /\ \A m \in Names \ {call.name} : Read(c, m) = files[m]
         /\ (\A k \in 1 .. Len(record) : c[End(base) + k - 1] = record[k]) =>
              call \in Calls /\ Read(c, call.name) = Promise!After(call, files[call.name])
<1>1. PICK f, d : /\ IsRecordOf(record, call.name, f, d)
                  /\ Promise!After(call, files[call.name]) = IF f = "deleted" THEN None ELSE d
  BY DEF StoreInv, Told
<1>2. call \in Calls
  BY DEF StoreInv, Told
<1>3. Sound(base) /\ Contents(base) = files /\ End(base) + Len(record) <= Capacity
  BY DEF Appends
<1>4. /\ Sound(c)
      /\ \A m \in Names \ {call.name} : Read(c, m) = Read(base, m)
      /\ (\A k \in 1 .. Len(record) : c[End(base) + k - 1] = record[k]) =>
           Read(c, call.name) = IF f = "deleted" THEN None ELSE d
  BY <1>1, <1>3, PutLeaves
<1>5. \A m \in Names : files[m] = Read(base, m)
  BY <1>3 DEF Contents
<1> QED
  BY <1>1, <1>2, <1>4, <1>5

\* A cell of the record is programmed, in full or in part.
LEMMA PuttingProgram ==
  ASSUME StoreInv, stage = "putting", todo # <<>>, Head(todo).do = "program",
         NEW v, v \in Left(Head(todo).cells[1]), NEW c, c = [cells EXCEPT ![Head(todo).at] = v],
         NEW base, Appends(todo, cells, files, record, base)
  PROVE  Puts(c, base, record) /\ Appends(Tail(todo), c, files, record, base)
<1>1. /\ cells \in [Addresses -> Cells] /\ record \in Seq(Cells)
      /\ PutList(Tail(todo), End(base), record)
      /\ \E k \in 1 .. Len(record) :
           Head(todo).at = End(base) + k - 1 /\ Head(todo).cells = <<record[k]>>
  BY PuttingHead
<1>2. PICK k \in 1 .. Len(record) : Head(todo).at = End(base) + k - 1 /\ Head(todo).cells = <<record[k]>>
  BY <1>1
<1>3. Head(todo).cells[1] = record[k]
  BY <1>2
<1>4. v \in Left(record[k]) /\ c = [cells EXCEPT ![End(base) + k - 1] = v]
  BY <1>2, <1>3
<1>5. Puts(cells, base, record)
  BY DEF Appends
<1>6. Puts(c, base, record)
  BY <1>1, <1>4, <1>5, PutsMore
<1> QED
  BY <1>1, <1>6 DEF Appends

LEMMA ProgramStore ==
  ASSUME StoreInv, ProgramCell
  PROVE  StoreStep
<1>1. /\ todo # <<>> /\ Head(todo).do = "program" /\ todo' = Tail(todo)
      /\ UNCHANGED <<call, record, stage, outcome, files>>
      /\ cells' = [cells EXCEPT ![Head(todo).at] = Programmed(@, Head(todo).cells[1])]
  BY DEF ProgramCell
<1>2. PlanInv /\ PlanInv' /\ GoesOn /\ todo \in Seq(Steps)
  BY ProgramCellPlan DEF StoreInv, PlanInv, Typed
<1>3. stage # "idle" /\ stage \in {"idle", "compacting", "putting"} /\ cells \in [Addresses -> Cells]
  BY <1>1, <1>2 DEF PlanInv, Typed
<1> DEFINE x == Head(todo).at  v == Head(todo).cells[1]
<1>4. /\ Head(todo) = todo[1] /\ 1 \in DOMAIN todo /\ x \in Addresses /\ cells[x] = Erased
      /\ \A j \in DOMAIN todo : todo[j].do # "erase"
  BY <1>1, <1>2, HeadPrograms
<1>5. cells' = [cells EXCEPT ![x] = v]
  BY <1>1, <1>3, <1>4 DEF Programmed
<1>6. CASE stage = "putting"
  <2>1. PICK base : Appends(todo, cells, files, record, base)
    BY <1>6 DEF StoreInv, Appending
  <2>2. v \in Left(v)
    BY DEF Left
  <2>3. Appends(Tail(todo), cells', files, record, base)
    BY <1>1, <1>5, <1>6, <2>1, <2>2, PuttingProgram
  <2>4. Appends(todo', cells', files', record', base)
    BY <1>1, <2>3
  <2> QED
    BY <1>1, <1>2, <1>3, <1>6, <2>4, StepsOn DEF Restoring, Appending
<1>7. CASE stage = "compacting"
  <2>1. PICK img, top, room : /\ Compacts(todo, cells, files, Len(record), img, top, room)
                              /\ Restores(todo, cells, img, room)
    BY <1>7 DEF StoreInv, Restoring
  <2>2. Compacts(todo', cells', files', Len(record'), img, top, room)
    BY <1>2, <2>1 DEF GoesOn
  <2>3. v = img[x] /\ x \in 0 .. top - 1 /\ top <= room /\ top \in Nat /\ room \in Nat
    <3>1. /\ \A j \in DOMAIN todo : todo[j].do = "erase" \/ StepOf(todo[j], img, 0, top)
          /\ top \in 0 .. Capacity /\ room \in Nat /\ top + Len(record) <= room
      BY <2>1 DEF Compacts
    <3>2. x \in 0 .. top - 1 /\ Head(todo).cells = <<img[x]>>
      BY <1>1, <1>4, <3>1 DEF StepOf
    <3>3. Len(record) \in Nat
      BY <1>2, LenProperties DEF PlanInv, Typed
    <3>4. top <= room /\ top \in Nat
      BY <3>1, <3>3, CapacityAssumption
    <3>5. v = img[x]
      BY <3>2
    <3> QED
      BY <3>1, <3>2, <3>4, <3>5
  <2> HIDE DEF x, v
  <2>4. cells'[x] = img[x] /\ \A a \in Addresses : a # x => cells'[a] = cells[a]
    BY <1>3, <1>4, <1>5, <2>3
  <2>5. Rightly(todo', cells', img)
    <3> SUFFICES ASSUME NEW a \in Addresses, \E j \in DOMAIN todo' : Covers(todo'[j], a)
                 PROVE  \/ \E j \in DOMAIN todo' : Programs(todo'[j], a)
                        \/ cells'[a] = img[a] /\ \A j \in DOMAIN todo' : ~Wipes(todo'[j], a)
      BY DEF Rightly
    <3>1. \E j \in DOMAIN todo : Covers(todo[j], a)
      BY <1>1, <1>2, TailUnder
    <3>2. \A j \in DOMAIN todo' : ~Wipes(todo'[j], a)
      <4>1. \A j \in DOMAIN todo' : j + 1 \in DOMAIN todo /\ todo'[j] = todo[j + 1]
        BY <1>1, <1>2, TailFacts
      <4> QED
        BY <1>4, <4>1 DEF Wipes
    <3>3. CASE \E j \in DOMAIN todo : Programs(todo[j], a)
      <4>1. PICK j \in DOMAIN todo : Programs(todo[j], a)
        BY <3>3
      <4>2. CASE j = 1
        <5>1. a = x
          BY <1>4, <4>1, <4>2 DEF Programs, x
        <5> QED
          BY <2>4, <3>2, <5>1
      <4>3. CASE j # 1
        <5>1. j - 1 \in DOMAIN todo' /\ todo'[j - 1] = todo[j]
          BY <1>1, <1>2, <4>3, TailFacts
        <5> QED
          BY <4>1, <5>1
      <4> QED
        BY <4>2, <4>3
    <3>4. CASE cells[a] = img[a] /\ \A j \in DOMAIN todo : ~Wipes(todo[j], a)
      BY <2>4, <3>2, <3>4
    <3> QED
      BY <2>1, <3>1, <3>3, <3>4 DEF Restores, Rightly
  <2>6. ASSUME NEW a \in Addresses, a >= room PROVE cells'[a] \notin Headers
    <3>1. a # x
      BY <2>3, <2>6 DEF Addresses
    <3> QED
      BY <2>1, <2>4, <2>6, <3>1 DEF Restores
  <2>7. Restores(todo', cells', img, room)
    BY <2>1, <2>5, <2>6 DEF Restores
  <2> QED
    BY <1>1, <1>2, <1>3, <1>7, <2>2, <2>7, StepsOn DEF Restoring, Appending
<1> QED
  BY <1>3, <1>6, <1>7

LEMMA VerifyCompaction ==
  ASSUME StoreInv, VerifyRecord, stage = "compacting"
  PROVE  StoreStep
<1>1. todo # <<>> /\ Head(todo).do = "verify" /\ cells' = cells /\ todo \in Seq(Steps) /\ PlanInv
  BY DEF VerifyRecord, StoreInv, PlanInv, Typed
<1>2. PICK img, top, room : /\ Compacts(todo, cells, files, Len(record), img, top, room)
                            /\ Restores(todo, cells, img, room)
  BY DEF StoreInv, Restoring
<1>3. /\ Head(todo) = todo[1] /\ 1 \in DOMAIN todo /\ todo[1].do = "verify" /\ todo[1] \in Steps
      /\ \A j \in DOMAIN todo : todo[j].do # "erase"
      /\ \A j \in DOMAIN Tail(todo) : Tail(todo)[j].do = "program" =>
           todo[1].at + Len(todo[1].cells) <= Tail(todo)[j].at
  BY <1>1, TailFacts, HeadFirst DEF PlanInv
<1> DEFINE x == todo[1].at  n == Len(todo[1].cells)
<1>4. x \in Nat /\ n \in Nat /\ DOMAIN todo[1].cells = 1 .. n
  BY <1>1, <1>3, StepFacts
<1>5. x + n <= top /\ top \in 0 .. Capacity /\ \A k \in DOMAIN todo[1].cells : todo[1].cells[k] = img[x + k - 1]
  BY <1>2, <1>3 DEF Compacts, StepOf
<1>6. ASSUME NEW k \in DOMAIN todo[1].cells PROVE cells[x + k - 1] = todo[1].cells[k]
  <2> DEFINE a == x + k - 1
  <2> HIDE DEF x, n
  <2>1. a \in Addresses /\ x <= a /\ a < x + n
    BY <1>4, <1>5, CapacityAssumption DEF Addresses
  <2>2. Covers(todo[1], a)
    BY <1>3, <2>1 DEF Covers, x, n
  <2>3. ASSUME NEW j \in DOMAIN todo, Programs(todo[j], a) PROVE FALSE
    <3>1. j # 1 /\ todo[j].do = "program" /\ todo[j].at = a
      BY <1>3, <2>3 DEF Programs
    <3>2. j - 1 \in DOMAIN Tail(todo) /\ Tail(todo)[j - 1] = todo[j]
      BY <1>1, <3>1, TailFacts
    <3>3. x + n <= a
      BY <1>3, <3>1, <3>2 DEF x, n
    <3> QED
      BY <1>4, <2>1, <3>3 DEF Addresses
  <2> HIDE DEF a
  <2>4. cells[a] = img[a]
    BY <1>2, <1>3, <2>1, <2>2, <2>3 DEF Restores, Rightly
  <2> QED
    BY <1>5, <2>4 DEF a
<1>7. Verified(Head(todo))
  BY <1>3, <1>6 DEF Verified
<1>8. todo' = Tail(todo) /\ UNCHANGED <<call, record, stage, outcome, files>>
  BY <1>7 DEF VerifyRecord
<1>9. PlanInv' /\ GoesOn
  <2>1. stage' # "idle"
    BY <1>8
  <2> QED
    BY <1>1, <2>1, VerifyPlan
<1>10. Compacts(todo', cells', files', Len(record'), img, top, room)
  BY <1>2, <1>9 DEF GoesOn
<1>11. Rightly(todo', cells', img)
  <2> SUFFICES ASSUME NEW a \in Addresses, \E j \in DOMAIN todo' : Covers(todo'[j], a)
               PROVE  \/ \E j \in DOMAIN todo' : Programs(todo'[j], a)
                      \/ cells'[a] = img[a] /\ \A j \in DOMAIN todo' : ~Wipes(todo'[j], a)
    BY DEF Rightly
  <2>1. \E j \in DOMAIN todo : Covers(todo[j], a)
    BY <1>1, <1>8, TailUnder
  <2>2. \A j \in DOMAIN todo' : ~Wipes(todo'[j], a)
    <3>1. \A j \in DOMAIN todo' : j + 1 \in DOMAIN todo /\ todo'[j] = todo[j + 1]
      BY <1>1, <1>8, TailFacts
    <3> QED
      BY <1>3, <3>1 DEF Wipes
  <2>3. CASE \E j \in DOMAIN todo : Programs(todo[j], a)
    <3>1. PICK j \in DOMAIN todo : Programs(todo[j], a)
      BY <2>3
    <3>2. j # 1
      BY <1>3, <3>1 DEF Programs
    <3>3. j - 1 \in DOMAIN todo' /\ todo'[j - 1] = todo[j]
      BY <1>1, <1>8, <3>2, TailFacts
    <3> QED
      BY <3>1, <3>3
  <2>4. CASE cells[a] = img[a]
    BY <1>1, <2>2, <2>4
  <2> QED
    BY <1>2, <2>1, <2>3, <2>4 DEF Restores, Rightly
<1>12. Restores(todo', cells', img, room)
  BY <1>1, <1>2, <1>11 DEF Restores
<1> QED
  BY <1>8, <1>9, <1>10, <1>12, StepsOn DEF Restoring, Appending

LEMMA VerifyStore ==
  ASSUME StoreInv, VerifyRecord
  PROVE  StoreStep
<1>1. todo # <<>> /\ Head(todo).do = "verify" /\ cells' = cells
  BY DEF VerifyRecord
<1>2. stage \in {"idle", "compacting", "putting"} /\ stage # "idle"
  BY <1>1 DEF StoreInv, PlanInv, Typed
<1>3. CASE stage = "putting"
  <2>1. PICK base : Appends(todo, cells, files, record, base)
    BY <1>3 DEF StoreInv, Appending
  <2>2. /\ Tail(todo) = <<>> /\ Head(todo).at = End(base) /\ Head(todo).cells = record /\ call # None
        /\ record \in Seq(Cells)
    BY <1>1, <1>3, <2>1, PuttingHead
  <2>3. Puts(cells, base, record) /\ Contents(base) = files
    BY <2>1 DEF Appends
  <2>4. /\ Sound(cells)
        /\ \A m \in Names \ {call.name} : Read(cells, m) = files[m]
        /\ (\A k \in 1 .. Len(record) : cells[End(base) + k - 1] = record[k]) =>
             call \in Calls /\ Read(cells, call.name) = Promise!After(call, files[call.name])
    BY <1>3, <2>1, <2>3, PuttingLeaves
  <2>5. PlanInv'
    BY VerifyPlan DEF StoreInv
  <2>6. CASE ~Verified(Head(todo))
    <3>1. Return("cut")
      BY <2>6 DEF VerifyRecord
    <3> QED
      BY <1>1, <2>2, <2>4, <2>5, <3>1, CutStep
  <2>7. CASE Verified(Head(todo))
    <3>1. Return("ok")
      BY <1>3, <2>2, <2>7 DEF VerifyRecord
    <3>2. outcome' = "ok" /\ call' = None /\ stage' = "idle" /\ files' = Contents(cells)
      BY <1>1, <3>1 DEF Return
    <3>3. StoreInv'
      BY <1>1, <2>4, <2>5, <3>2 DEF StoreInv, Told, Restoring, Appending
    <3>4. \A k \in 1 .. Len(record) : cells[End(base) + k - 1] = record[k]
      <4>1. DOMAIN record = 1 .. Len(record)
        BY <2>2, LenProperties
      <4> QED
        BY <2>2, <2>7, <4>1 DEF Verified
    <3>5. Read(cells, call.name) = Promise!After(call, files[call.name])
      BY <2>4, <3>4
    <3>6. files' = [n \in Names |-> Read(cells, n)] /\ files = [n \in Names |-> Read(base, n)]
      BY <2>3, <3>2 DEF Contents
    <3>7. files' = [files EXCEPT ![call.name] = Promise!After(call, files[call.name])]
      BY <2>4, <3>5, <3>6
    <3>8. Promise!Complete
      BY <2>2, <3>2, <3>7 DEF Promise!Complete, Promise!Return
    <3> QED
      BY <3>3, <3>8 DEF StoreStep, Promise!Next
  <2> QED
    BY <2>6, <2>7
<1>4. CASE stage = "compacting"
  BY <1>4, VerifyCompaction
<1> QED
  BY <1>2, <1>3, <1>4

LEMMA ReappendStore ==
  ASSUME StoreInv, Reappend
  PROVE  StoreStep
<1>1. stage = "compacting" /\ todo = <<>> /\ cells' = cells /\ PlanInv /\ PlanInv'
  BY ReappendPlan DEF Reappend, StoreInv
<1>2. /\ cells \in [Addresses -> Cells] /\ record \in Seq(Cells) /\ Len(record) \in Nat /\ Len(record) >= 1
      /\ End(cells) \in Nat /\ Contents(cells) = files
      /\ \A a \in Addresses : End(cells) <= a /\ a < End(cells) + Len(record) => cells[a] = Erased
  BY <1>1, CompactionEnds
<1>3. Sound(cells)
  <2>1. PICK img, top, room : /\ Compacts(todo, cells, files, Len(record), img, top, room)
                              /\ Restores(todo, cells, img, room)
    BY <1>1 DEF StoreInv, Restoring
  <2>2. /\ \A a \in Addresses : a < room => cells[a] = img[a]
        /\ top \in Nat /\ End(img) = top /\ room \in Nat /\ top + Len(record) <= room /\ top <= Capacity
        /\ \A a \in Addresses : a >= top => img[a] = Erased
    BY <1>1, <2>1, EmptyFacts, CapacityAssumption DEF Compacts, Underway
  <2>3. top < room
    BY <1>2, <2>2
  <2>4. \A a \in Addresses : a < End(img) => cells[a] = img[a]
    BY <2>2, <2>3 DEF Addresses
  <2>5. ~IsRecord(cells, End(img))
    <3> SUFFICES ASSUME top < Capacity PROVE ~IsRecord(cells, top)
      BY <2>2 DEF IsRecord
    <3>1. top \in Addresses
      BY <2>2, CapacityAssumption DEF Addresses
    <3>2. cells[top] = Erased
      BY <2>2, <2>3, <3>1
    <3> QED
      BY <3>2, ErasedIsNone
  <2>6. Starts(cells) = Starts(img)
    BY <2>4, <2>5, LogIsLocal
  <2>7. ASSUME NEW a \in Addresses, cells[a] \in Headers PROVE a \in Starts(cells)
    <3>1. a < room
      <4>1. ~(a >= room)
        BY <2>1, <2>7 DEF Restores
      <4> QED
        BY <2>2, <4>1 DEF Addresses
    <3> QED
      BY <2>1, <2>2, <2>6, <2>7, <3>1 DEF Restores, Sound
  <2> QED
    BY <2>7 DEF Sound
<1>4. CASE Fits(cells, Len(record))
  <2>1. stage' = "putting" /\ todo' = Put(End(cells), record) /\ UNCHANGED <<call, record, files, outcome>>
    BY <1>4 DEF Reappend
  <2>2. Puts(cells, cells, record)
    BY <1>2, PutsStart
  <2>3. PutList(todo', End(cells), record)
    BY <1>2, <2>1, PutListStarts
  <2>4. Appends(todo', cells', files', record', cells)
    BY <1>1, <1>2, <1>3, <1>4, <2>1, <2>2, <2>3 DEF Appends, Fits
  <2>5. Told'
    BY <1>1, <2>1 DEF StoreInv, Told
  <2>6. Restoring' /\ Appending'
    BY <2>1, <2>4 DEF Restoring, Appending
  <2>7. StoreInv'
    BY <1>1, <2>1, <2>5, <2>6 DEF StoreInv
  <2> QED
    BY <2>1, <2>7 DEF StoreStep
<1>5. CASE ~Fits(cells, Len(record))
  <2>1. Return("full")
    BY <1>5 DEF Reappend
  <2>2. stage' = "idle" /\ files' = Contents(cells') /\ call' = None /\ outcome' = "full"
    BY <2>1 DEF Return
  <2>3. call # None
    BY <1>1 DEF PlanInv, Typed
  <2>4. StoreInv'
    BY <1>1, <1>3, <2>2 DEF StoreInv, Told, Restoring, Appending
  <2>5. Promise!Refuse
    BY <1>1, <1>2, <2>2, <2>3 DEF Promise!Refuse, Promise!Return
  <2> QED
    BY <2>4, <2>5 DEF StoreStep, Promise!Next
<1> QED
  BY <1>4, <1>5

\* A cell done in part, while a record is put.
LEMMA PuttingHalf ==
  ASSUME StoreInv, stage = "putting", NEW base, Appends(todo, cells, files, record, base),
         HalfDone(Head(todo))
  PROVE  Puts(cells', base, record) /\ Appends(Tail(todo), cells', files, record, base)
<1>1. todo # <<>> /\ Head(todo).do # "erase"
  BY PuttingHead
<1>2. PICK part \in PartsOf(Head(todo).cells[1]) :
        /\ Head(todo).do = "program"
        /\ cells' = [cells EXCEPT ![Head(todo).at] = IF @ = Erased THEN part ELSE Torn]
  BY <1>1 DEF HalfDone
<1>3. cells[Head(todo).at] = Erased
  BY <1>1, <1>2, HeadPrograms DEF StoreInv
<1>4. cells' = [cells EXCEPT ![Head(todo).at] = part]
  BY <1>2, <1>3
<1>5. part \in Left(Head(todo).cells[1])
  BY DEF Left
<1> QED
  BY <1>1, <1>2, <1>4, <1>5, PuttingProgram

LEMMA BadCellStore ==
  ASSUME StoreInv, BadCell, "compacting" \notin Faults
  PROVE  StoreStep
<1>1. /\ stage = "putting" /\ HalfDone(Head(todo)) /\ todo' = Tail(todo)
      /\ UNCHANGED <<call, record, stage, outcome, files>>
  BY FaultsAssumption DEF BadCell
<1>2. PlanInv'
  BY BadCellPlan DEF StoreInv
<1>3. PICK base : Appends(todo, cells, files, record, base)
  BY <1>1 DEF StoreInv, Appending
<1>4. Appends(todo', cells', files', record', base)
  BY <1>1, <1>3, PuttingHalf
<1> QED
  BY <1>1, <1>2, <1>4, StepsOn DEF Restoring, Appending

LEMMA ResetStore ==
  ASSUME StoreInv, Reset, "compacting" \notin Faults
  PROVE  StoreStep
<1>1. stage = "putting" /\ Return("cut") /\ (cells' = cells \/ HalfDone(Head(todo)))
  BY FaultsAssumption DEF Reset
<1>2. PlanInv'
  BY ResetPlan DEF StoreInv
<1>3. PICK base : Appends(todo, cells, files, record, base)
  BY <1>1 DEF StoreInv, Appending
<1>4. Puts(cells', base, record)
  <2>1. CASE cells' = cells
    BY <1>3, <2>1 DEF Appends
  <2>2. CASE HalfDone(Head(todo))
    BY <1>1, <1>3, <2>2, PuttingHalf
  <2> QED
    BY <1>1, <2>1, <2>2
<1>5. Sound(cells') /\ \A m \in Names \ {call.name} : Read(cells', m) = files[m]
  BY <1>1, <1>3, <1>4, PuttingLeaves
<1>6. call # None
  BY <1>1, <1>3, PuttingHead
<1> QED
  BY <1>1, <1>2, <1>5, <1>6, CutStep

LEMMA StoreStepIs ==
  ASSUME "compacting" \notin Faults, StoreInv, [FlashNext]_flashVars
  PROVE  StoreStep
<1>1. ASSUME NEW request \in Calls, Begin(request) PROVE StoreStep
  BY <1>1, BeginStore
<1>2. CASE EraseSector
  BY <1>2, EraseStore
<1>3. CASE ProgramCell
  BY <1>3, ProgramStore
<1>4. CASE VerifyRecord
  BY <1>4, VerifyStore
<1>5. CASE Reappend
  BY <1>5, ReappendStore
<1>6. CASE BadCell
  BY <1>6, BadCellStore
<1>7. CASE Reset
  BY <1>7, ResetStore
<1>8. CASE UNCHANGED flashVars
  <2>1. StoreInv'
    BY <1>8 DEF flashVars, StoreInv, PlanInv, Typed, ErasedAhead, IdleKnows, CompactsTo, Told, Restoring, Appending
  <2> QED
    BY <1>8, <2>1 DEF flashVars, StoreStep
<1> QED
  BY <1>1, <1>2, <1>3, <1>4, <1>5, <1>6, <1>7, <1>8 DEF FlashNext

\* Where no reset and no bad cell strikes during a compaction, `read` answers
\* between calls what the completed calls have left; a call that is cut short
\* touches the file it was about and no other, and one refused touches none.
THEOREM StoreIsImplemented ==
  ASSUME "compacting" \notin Faults
  PROVE  FlashSpec => ImplementsStore
<1>1. FlashInit => StoreInv /\ Promise!Init
  BY InitStore
<1>2. StoreInv /\ [FlashNext]_flashVars => StoreInv' /\ [Promise!Next]_<<files, call, outcome>>
  BY StoreStepIs DEF StoreStep
<1> QED
  BY <1>1, <1>2, PTL DEF FlashSpec, ImplementsStore, Promise!Spec
=============================================================================
