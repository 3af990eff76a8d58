----------------------- MODULE EmbeddingProfilesProofs -----------------------
(***************************************************************************)
(* EmbeddingReembeddingJob next to the service, for any number of          *)
(* memories, versions, runs and provider switches and any batch size:      *)
(* ProfileInv is kept, so accepted vectors are fresh and a run without     *)
(* failures covers what it must.                                           *)
(***************************************************************************)
EXTENDS EmbeddingProfiles, FiniteSetTheorems, TLAPS

------------------------------------------------------------------------------
(* Least and greatest identifiers, and pages *)

LEMMA LeastNat ==
  ASSUME NEW S, S \subseteq Nat, S # {}
  PROVE  \E x \in S : \A y \in S : x <= y
  <1>1. \A x, y \in Nat : x < y => <<x, y>> \in OpToRel(<, Nat)
    BY DEF OpToRel
  <1>2. PICK x \in S : \A y \in S : ~ (<<y, x>> \in OpToRel(<, Nat))
    BY NatLessThanWellFounded, WFMin, Zenon
  <1>3. \A y \in S : ~ (y < x)
    BY <1>1, <1>2, Zenon
  <1> QED BY <1>3

LEMMA GreatestId ==
  ASSUME NEW S, S \subseteq Ids, S # {}
  PROVE  Max(S) \in S /\ \A y \in S : Max(S) >= y
  <1> DEFINE T == {MaxId - y : y \in S}
  <1>1. MaxId \in Nat /\ \A y \in S : y \in Nat /\ MaxId - y \in Nat
    BY ProfileAssumption DEF Ids
  <1>2. PICK t \in T : \A u \in T : t <= u
    BY <1>1, LeastNat
  <1>3. PICK x \in S : t = MaxId - x
    BY <1>2
  <1>4. \A y \in S : x >= y
    <2> SUFFICES ASSUME NEW y \in S PROVE x >= y
      OBVIOUS
    <2>1. MaxId - x <= MaxId - y
      BY <1>2, <1>3
    <2> QED BY <1>1, <2>1
  <1> QED BY <1>4 DEF Max

LEMMA IdsFinite ==
  ASSUME NEW S, S \subseteq Ids
  PROVE  IsFiniteSet(S) /\ Cardinality(S) \in Nat /\ Cardinality(S) \in 0..MaxId
  <1>1. IsFiniteSet(Ids) /\ Cardinality(Ids) = MaxId
    BY ProfileAssumption, FS_Interval DEF Ids
  <1>2. IsFiniteSet(S) /\ Cardinality(S) <= Cardinality(Ids)
    BY <1>1, FS_Subset
  <1> QED BY <1>1, <1>2, FS_CardinalityType, ProfileAssumption

\* The job takes the candidates one by one: there is a current one.
LEMMA CurrentIn ==
  ASSUME ProfileTypeOK, page # {}
  PROVE  Current \in page /\ Current \in Candidate /\ Current.id \in Ids
  <1> DEFINE S == {c.id : c \in page}
  <1>1. \A c \in page : c \in Candidate /\ c.id \in Ids /\ c.id \in Nat
    BY DEF ProfileTypeOK, Candidate, Ids
  <1>2. PICK x \in S : \A y \in S : x <= y
    BY <1>1, LeastNat
  <1>3. \E c \in page : \A d \in page : c.id <= d.id
    BY <1>2
  <1>4. Current \in page
    BY <1>3 DEF Current
  <1> QED BY <1>1, <1>4

\* What list_for_reembedding takes past a cursor
Past(from) == {i \in Ids : i > from /\ Eligible(i)}

Taken(from) ==
  {i \in Past(from) : Cardinality({j \in Past(from) : j <= i}) <= BatchSize}

\* The memories that a page leaves to the next one come after all it has, and
\* the page is full.
LEMMA LeftForLater ==
  ASSUME NEW from \in Nat, NEW i \in Past(from), i \notin Taken(from)
  PROVE  /\ \A k \in Taken(from) : k < i
         /\ Cardinality(Taken(from)) >= BatchSize
  <1> DEFINE P == Past(from)
             T == Taken(from)
             Upto(k) == {j \in P : j <= k}
  <1>1. P \subseteq Ids /\ T \subseteq P /\ \A j \in P : j \in Nat
    BY DEF Past, Taken, Ids
  <1>2. \A k \in P : IsFiniteSet(Upto(k)) /\ Cardinality(Upto(k)) \in Nat
    BY <1>1, IdsFinite
  <1>3. IsFiniteSet(T) /\ Cardinality(T) \in Nat /\ BatchSize \in Nat
    BY <1>1, IdsFinite, ProfileAssumption
  <1>4. \A k \in P : k \in T <=> Cardinality(Upto(k)) <= BatchSize
    BY DEF Taken
  <1>5. i \in P /\ i \notin T
    OBVIOUS
  <1> HIDE DEF P, T
  <1>6. ASSUME NEW k \in T PROVE k < i
    <2> SUFFICES ASSUME i <= k PROVE FALSE
      BY <1>1, <1>5
    <2>1. Upto(i) \in SUBSET Upto(k)
      BY <1>1, <1>5, <1>6
    <2>2. Cardinality(Upto(i)) <= Cardinality(Upto(k))
      BY <1>1, <1>2, <2>1, FS_Subset
    <2>3. Cardinality(Upto(i)) <= BatchSize
      <3>1. k \in P /\ Cardinality(Upto(k)) <= BatchSize
        BY <1>1, <1>4, <1>6
      <3>2. Cardinality(Upto(i)) \in Nat /\ Cardinality(Upto(k)) \in Nat
        BY <1>2, <1>5, <3>1
      <3> QED BY <1>3, <2>2, <3>1, <3>2
    <2> QED BY <1>4, <1>5, <2>3
  <1>7. Cardinality(T) >= BatchSize
    <2>1. PICK m \in P \ T : \A k \in P \ T : m <= k
      BY <1>1, <1>5, LeastNat
    <2>2. Upto(m) \in SUBSET (T \cup {m})
      BY <1>1, <2>1
    <2>3. IsFiniteSet(T \cup {m}) /\ Cardinality(T \cup {m}) = Cardinality(T) + 1
      BY <1>3, <2>1, FS_AddElement
    <2>4. Cardinality(Upto(m)) <= Cardinality(T) + 1
      BY <2>2, <2>3, FS_Subset
    <2>5. Cardinality(Upto(m)) > BatchSize
      BY <1>1, <1>2, <1>3, <1>4, <2>1
    <2>6. Cardinality(Upto(m)) \in Nat
      BY <1>2, <2>1
    <2> QED BY <1>3, <2>4, <2>5, <2>6
  <1> QED BY <1>6, <1>7 DEF T

\* A page: every memory once, as it is, and as many as were taken.
LEMMA PageFacts ==
  ASSUME ProfileTypeOK, NEW from \in Nat
  PROVE  /\ Page(from) \subseteq Candidate
         /\ \A c \in Page(from) :
              /\ c.id \in Taken(from) /\ rows[c.id] # Absent
              /\ c.version = rows[c.id].version /\ c.content = rows[c.id].content
         /\ \A c, d \in Page(from) : c.id = d.id => c = d
         /\ \A i \in Taken(from) : \E c \in Page(from) : c.id = i
         /\ Cardinality(Page(from)) = Cardinality(Taken(from))
  <1> DEFINE T == Taken(from)
             cand(i) == [id |-> i, version |-> rows[i].version, content |-> rows[i].content]
  <1>1. Page(from) = {cand(i) : i \in T}
    BY DEF Page, Taken, Past
  <1>2. \A i \in T : i \in Ids /\ rows[i] # Absent /\ rows[i] \in Memory
    BY DEF Taken, Past, Eligible, ProfileTypeOK
  <1>3. \A i \in T : cand(i) \in Candidate /\ cand(i).id = i
                     /\ cand(i).version = rows[i].version /\ cand(i).content = rows[i].content
    BY <1>2 DEF Candidate, Memory
  <1>4. Cardinality(Page(from)) = Cardinality(T)
    <2> DEFINE f == [i \in T |-> cand(i)]
    <2>1. T \subseteq Ids
      BY <1>2
    <2>2. IsFiniteSet(T)
      BY <2>1, IdsFinite
    <2>3. f \in [T -> Page(from)] /\ \A i \in T : f[i] = cand(i)
      BY <1>1
    <2>4. \A i, j \in T : f[i] = f[j] => i = j
      BY <1>3, <2>3
    <2>5. \A c \in Page(from) : \E i \in T : f[i] = c
      BY <1>1, <2>3
    <2> HIDE DEF f, T, cand
    <2>6. f \in Bijection(T, Page(from))
      BY <2>3, <2>4, <2>5 DEF Bijection, Injection, Surjection, IsInjective
    <2>7. ExistsBijection(T, Page(from))
      BY <2>6 DEF ExistsBijection
    <2> QED BY <2>2, <2>7, FS_Bijection
  <1> HIDE DEF cand
  <1> QED BY <1>1, <1>2, <1>3, <1>4

------------------------------------------------------------------------------
(* The service *)

LEMMA ProfileInitInv == ProfileInit => ProfileInv
  <1> SUFFICES ASSUME ProfileInit PROVE ProfileInv
    OBVIOUS
  <1>1. ProfileTypeOK
    <2>1. NoUpserts \in [Ids -> Vector \cup {Absent}]
      BY DEF NoUpserts
    <2>2. 0 \in 0..MaxId /\ 0 \in 0..MaxRuns /\ 0 \in 0..MaxSwitches /\ 64 \in Dimensions
      BY ProfileAssumption DEF Dimensions
    <2>3. full \in BOOLEAN /\ broken \in BOOLEAN /\ failures \in BOOLEAN
      BY DEF ProfileInit
    <2> QED BY <2>1, <2>2, <2>3 DEF ProfileInit, ProfileTypeOK
  <1>2. VectorsOK /\ PageOK /\ JobOK /\ DueOK
    BY DEF ProfileInit, VectorsOK, PageOK, JobOK, DueOK, NoUpserts
  <1> QED BY <1>1, <1>2 DEF ProfileInv

\* A memory is written under a new identifier, updated to a later version or
\* forgotten; its vector, if it keeps one, is of its new version or older.
LEMMA MemoryStep ==
  ASSUME ProfileInv, NEW i \in Ids,
         NEW x \in Memory \cup {Absent}, NEW y \in Vector \cup {Absent},
         rows' = [rows EXCEPT ![i] = x], semantic' = [semantic EXCEPT ![i] = y],
         issued \subseteq issued', issued' \subseteq Ids, due' = due \ {i},
         UNCHANGED <<service, step, position, pending, broken, report>>,
         x = Absent => pending[i] = Absent /\ y = Absent,
         x # Absent => /\ i \in issued'
                       /\ i \notin issued \/ (rows[i] # Absent /\ rows[i].version < x.version),
         y # Absent => /\ y.source <= x.version
                       /\ y.source = x.version => y.content = x.content
  PROVE  ProfileInv'
  <1>1. /\ rows'[i] = x /\ semantic'[i] = y
        /\ \A j \in Ids \ {i} : rows'[j] = rows[j] /\ semantic'[j] = semantic[j]
    BY DEF ProfileInv, ProfileTypeOK
  <1>2. ProfileTypeOK'
    BY DEF ProfileInv, ProfileTypeOK, service, position, report
  <1>3. x # Absent /\ i \in issued =>
          rows[i] # Absent /\ rows[i].version < x.version
          /\ rows[i].version \in Nat /\ x.version \in Nat
    BY DEF ProfileInv, ProfileTypeOK, Memory
  <1>4. VectorsOK'
    <2> SUFFICES ASSUME NEW j \in Ids
                 PROVE  /\ rows'[j] # Absent => j \in issued'
                        /\ semantic'[j] # Absent => rows'[j] # Absent
                             /\ semantic'[j].source <= rows'[j].version
                             /\ (semantic'[j].source = rows'[j].version =>
                                   semantic'[j].content = rows'[j].content)
                        /\ pending[j] # Absent => rows'[j] # Absent
                             /\ pending[j].source <= rows'[j].version
                             /\ (pending[j].source = rows'[j].version =>
                                   pending[j].content = rows'[j].content)
      BY DEF VectorsOK, Was
    <2>1. CASE j # i
      BY <1>1, <2>1 DEF ProfileInv, VectorsOK, Was
    <2>2. CASE j = i
      <3>1. pending[i] # Absent => /\ rows[i] # Absent /\ i \in issued /\ x # Absent
                                   /\ pending[i].source <= rows[i].version
                                   /\ pending[i].source \in Nat
        BY DEF ProfileInv, ProfileTypeOK, VectorsOK, Was, Vector
      <3>2. pending[i] # Absent => pending[i].source < x.version /\ x.version \in Nat
                                   /\ pending[i].source \in Nat
        BY <1>3, <3>1
      <3> QED BY <1>1, <2>2, <3>1, <3>2
    <2> QED BY <2>1, <2>2
  <1>5. PageOK'
    <2>1. ASSUME NEW c \in page, rows'[c.id] # Absent
          PROVE  /\ c.version <= rows'[c.id].version
                 /\ c.version = rows'[c.id].version => c.content = rows'[c.id].content
      <3>1. c.id \in Ids /\ c.version \in Nat /\ c.id \in issued
        BY DEF ProfileInv, ProfileTypeOK, Candidate, PageOK
      <3>2. CASE c.id # i
        BY <1>1, <2>1, <3>1, <3>2 DEF ProfileInv, PageOK, Was
      <3>3. CASE c.id = i
        <4>1. rows[i] # Absent /\ rows[i].version < x.version
              /\ rows[i].version \in Nat /\ x.version \in Nat
          BY <1>1, <1>3, <2>1, <3>1, <3>3
        <4>2. c.version <= rows[i].version
          BY <3>3, <4>1 DEF ProfileInv, PageOK, Was
        <4> QED BY <1>1, <3>1, <3>3, <4>1, <4>2
      <3> QED BY <3>2, <3>3
    <2> QED BY <2>1 DEF ProfileInv, PageOK, Was, position
  <1>6. JobOK'
    BY DEF ProfileInv, JobOK, position, report
  <1>7. DueOK'
    <2> SUFFICES ASSUME NEW j \in due, j # i
                 PROVE  /\ rows'[j] # Absent
                        /\ step' \in {"list", "check", "upsert"} => Eligible(j)'
                        /\ \A c \in page' : c.id = j => c.version = rows'[j].version
                        /\ pending'[j] # Absent => pending'[j].source = rows'[j].version
                        /\ ~failures' => WillCover(j)'
      BY DEF DueOK
    <2>1. rows'[j] = rows[j] /\ semantic'[j] = semantic[j]
      BY <1>1 DEF ProfileInv, ProfileTypeOK
    <2>2. Eligible(j)' = Eligible(j) /\ Covered(j)' = Covered(j) /\ WillCover(j)' = WillCover(j)
      BY <2>1 DEF Eligible, Covered, WillCover, position
    <2> QED BY <2>1, <2>2 DEF ProfileInv, DueOK, position, report
  <1> QED BY <1>2, <1>4, <1>5, <1>6, <1>7 DEF ProfileInv

LEMMA ServiceInv ==
  ASSUME ProfileInv, ServiceStep
  PROVE  ProfileInv'
  <1>1. ASSUME NEW i \in Ids, NEW c \in Contents, Write(i, c) PROVE ProfileInv'
    <2> DEFINE x == [version |-> 1, content |-> c, dimension |-> runtime]
               y == IF runtime = 384 THEN [source |-> 1, content |-> c] ELSE Absent
    <2>1. /\ i \notin issued /\ issued' = issued \cup {i} /\ rows' = [rows EXCEPT ![i] = x]
          /\ UNCHANGED <<service, step, position, pending, broken, due, report>>
      BY <1>1 DEF Write
    <2>2. x \in Memory /\ x # Absent /\ x.version = 1 /\ x.content = c
      BY ProfileAssumption DEF Memory, ProfileInv, ProfileTypeOK
    <2>3. /\ y \in Vector \cup {Absent}
          /\ y # Absent => y.source = 1 /\ y.content = c
      BY ProfileAssumption DEF Vector
    <2>4. rows[i] = Absent /\ semantic[i] = Absent /\ i \notin due
      BY <2>1 DEF ProfileInv, VectorsOK, DueOK
    <2>5. semantic' = [semantic EXCEPT ![i] = y]
      BY <1>1, <2>4 DEF Write, ProfileInv, ProfileTypeOK
    <2>6. due' = due \ {i} /\ issued' \subseteq Ids
      BY <2>1, <2>4 DEF ProfileInv, ProfileTypeOK
    <2>7. /\ y # Absent => y.source <= x.version /\ (y.source = x.version => y.content = x.content)
          /\ issued \subseteq issued' /\ i \in issued'
      BY <2>1, <2>2, <2>3
    <2> HIDE DEF x, y
    <2> QED BY <2>1, <2>2, <2>3, <2>5, <2>6, <2>7, MemoryStep
  <1>2. ASSUME NEW i \in Ids, NEW c \in Contents, Update(i, c) PROVE ProfileInv'
    <2> DEFINE r == rows[i]
               x == Updated(r, c)
               y == IF runtime = 384 /\ semantic[i] # Absent
                    THEN [source |-> r.version + 1, content |-> c] ELSE semantic[i]
    <2>1. /\ r # Absent /\ r \in Memory /\ r.version < MaxVersion /\ rows' = [rows EXCEPT ![i] = x]
          /\ due' = due \ {i}
          /\ UNCHANGED <<issued, service, step, position, pending, broken, report>>
      BY <1>2 DEF Update, ProfileInv, ProfileTypeOK
    <2>2. r.version \in Nat /\ r.version + 1 \in 1..MaxVersion
      BY <2>1, ProfileAssumption DEF Memory
    <2>3. x \in Memory /\ x # Absent /\ x.version = r.version + 1 /\ x.content = c
      BY <2>2, ProfileAssumption DEF Updated, Memory, ProfileInv, ProfileTypeOK
    <2>4. semantic' = [semantic EXCEPT ![i] = y]
      BY <1>2 DEF Update, ProfileInv, ProfileTypeOK
    <2>5. /\ y \in Vector \cup {Absent}
          /\ y # Absent => y.source <= x.version /\ (y.source = x.version => y.content = x.content)
      <3>1. CASE runtime = 384 /\ semantic[i] # Absent
        BY <2>2, <2>3, <3>1 DEF Vector
      <3>2. CASE ~(runtime = 384 /\ semantic[i] # Absent)
        <4>1. semantic[i] \in Vector \cup {Absent}
          BY DEF ProfileInv, ProfileTypeOK
        <4>2. semantic[i] # Absent => semantic[i].source <= r.version /\ semantic[i].source \in Nat
          BY <4>1 DEF ProfileInv, VectorsOK, Was, Vector
        <4> QED BY <2>2, <2>3, <3>2, <4>1, <4>2
      <3> QED BY <3>1, <3>2
    <2>6. i \in issued /\ issued \subseteq Ids /\ r.version < x.version
      BY <2>1, <2>2, <2>3 DEF ProfileInv, VectorsOK, ProfileTypeOK
    <2> HIDE DEF x, y
    <2> QED BY <2>1, <2>3, <2>4, <2>5, <2>6, MemoryStep
  <1>3. ASSUME NEW i \in Ids, Forget(i) PROVE ProfileInv'
    <2>1. issued \subseteq Ids
      BY DEF ProfileInv, ProfileTypeOK
    <2> QED BY <1>3, <2>1, MemoryStep DEF Forget
  <1>4. CASE Switch
    <2>1. /\ UNCHANGED <<tables, step, position, pending, broken, due, report>>
          /\ runtime' \in Dimensions /\ switches' \in 0..MaxSwitches
      BY <1>4, ProfileAssumption DEF Switch, ProfileInv, ProfileTypeOK
    <2>2. ProfileTypeOK'
      BY <2>1 DEF ProfileInv, ProfileTypeOK, tables, position, report
    <2>3. VectorsOK' /\ PageOK' /\ JobOK'
      BY <2>1 DEF ProfileInv, VectorsOK, PageOK, JobOK, Was, tables, position, report
    <2>4. DueOK'
      BY <2>1 DEF ProfileInv, DueOK, WillCover, Eligible, Covered, tables, position, report
    <2> QED BY <2>2, <2>3, <2>4 DEF ProfileInv
  <1> QED BY <1>1, <1>2, <1>3, <1>4 DEF ServiceStep

------------------------------------------------------------------------------
(* The job *)

\* Steps of the job that leave the tables and its transaction alone
LEMMA JobTables ==
  ASSUME ProfileInv, UNCHANGED <<tables, service>>
  PROVE  /\ \A i \in Ids : Eligible(i)' = Eligible(i) /\ Covered(i)' = Covered(i)
         /\ UNCHANGED pending => VectorsOK'
         /\ \A i, v, t : Was(i, v, t)' = Was(i, v, t)
  <1>1. \A i \in Ids : Eligible(i)' = Eligible(i) /\ Covered(i)' = Covered(i)
    BY DEF Eligible, Covered, tables
  <1>2. UNCHANGED pending => VectorsOK'
    BY DEF ProfileInv, VectorsOK, Was, tables
  <1>3. \A i, v, t : Was(i, v, t)' = Was(i, v, t)
    BY DEF Was, tables
  <1> QED BY <1>1, <1>2, <1>3

\* The page may only get smaller.
LEMMA PageShrinks ==
  ASSUME ProfileInv, UNCHANGED <<tables, service>>, page' \subseteq page
  PROVE  PageOK'
  BY DEF ProfileInv, PageOK, Was, tables

LEMMA StartJobInv ==
  ASSUME ProfileInv, StartJob
  PROVE  ProfileInv'
  <1>1. /\ step \in {"idle", "done"} /\ step' = "list" /\ runs < MaxRuns /\ runs' = runs + 1
        /\ cursor' \in {0} \cup issued /\ failures' = FALSE
        /\ due' = {i \in Ids : i > cursor' /\ Eligible(i)}
        /\ UNCHANGED <<tables, service, page, full, pending, broken, eligible>>
    BY DEF StartJob
  <1>2. page = {} /\ pending = NoUpserts /\ ~broken
    BY <1>1 DEF ProfileInv, JobOK
  <1>3. cursor' \in 0..MaxId /\ runs' \in 0..MaxRuns
    BY <1>1, ProfileAssumption DEF ProfileInv, ProfileTypeOK, Ids
  <1>4. ProfileTypeOK'
    BY <1>1, <1>3 DEF ProfileInv, ProfileTypeOK, tables, service
  <1>5. VectorsOK' /\ PageOK'
    BY <1>1, JobTables, PageShrinks
  <1>6. JobOK'
    BY <1>1, <1>2 DEF JobOK
  <1>7. DueOK'
    BY <1>1, <1>2 DEF DueOK, WillCover, Eligible, Covered, NoUpserts, tables
  <1> QED BY <1>4, <1>5, <1>6, <1>7 DEF ProfileInv

\* The page takes the first memories past the cursor, and leaves only later ones.
LEMMA ListPageInv ==
  ASSUME ProfileInv, ListPage
  PROVE  ProfileInv'
  <1> DEFINE found == Page(cursor)
  <1>1. /\ step = "list" /\ page' = found /\ full' = MorePages(found)
        /\ \/ found # {} /\ cursor' = NextCursor(found) /\ step' = "check"
           \/ found = {} /\ step' = "count" /\ UNCHANGED cursor
        /\ UNCHANGED <<tables, service, pending, broken, due, report>>
    BY DEF ListPage
  <1>2. /\ pending = NoUpserts /\ ~broken /\ cursor \in Nat /\ cursor \in 0..MaxId /\ ProfileTypeOK
        /\ \A i \in due : i \in Ids /\ Eligible(i)
    BY <1>1, ProfileAssumption DEF ProfileInv, JobOK, ProfileTypeOK, DueOK
  <1>3. /\ found \subseteq Candidate
        /\ \A c \in found : /\ c.id \in Taken(cursor) /\ rows[c.id] # Absent
                            /\ c.version = rows[c.id].version /\ c.content = rows[c.id].content
        /\ \A c, d \in found : c.id = d.id => c = d
        /\ \A i \in Taken(cursor) : \E c \in found : c.id = i
        /\ Cardinality(found) = Cardinality(Taken(cursor))
    BY <1>2, PageFacts
  <1> HIDE DEF found
  <1>4. Taken(cursor) \subseteq Ids /\ IsFiniteSet(Taken(cursor)) /\ Cardinality(Taken(cursor)) \in Nat
    <2>1. Taken(cursor) \subseteq Ids
      BY DEF Taken, Past
    <2> QED BY <2>1, IdsFinite
  <1>5. found # {} => /\ NextCursor(found) \in Taken(cursor)
                      /\ NextCursor(found) \in 0..MaxId
    <2> SUFFICES ASSUME found # {}
                 PROVE  NextCursor(found) \in Taken(cursor) /\ NextCursor(found) \in 0..MaxId
      OBVIOUS
    <2> DEFINE S == {c.id : c \in found}
    <2>1. S \subseteq Taken(cursor) /\ S \subseteq Ids /\ S # {}
      BY <1>3, <1>4
    <2>2. Max(S) \in S
      BY <2>1, GreatestId
    <2> QED BY <1>4, <2>1, <2>2, ProfileAssumption DEF NextCursor, Ids
  <1>6. ProfileTypeOK'
    <2>1. page' \subseteq Candidate /\ full' \in BOOLEAN
      BY <1>1, <1>3 DEF MorePages
    <2>2. cursor' \in 0..MaxId /\ step' \in {"check", "count"}
      BY <1>1, <1>2, <1>5
    <2> QED BY <1>1, <1>2, <2>1, <2>2 DEF ProfileTypeOK, tables, service, report
  <1>7. VectorsOK'
    BY <1>1, JobTables
  <1>8. PageOK'
    <2>1. \A c \in found : c.id \in issued /\ rows[c.id].version \in Nat
      BY <1>3, <1>4 DEF ProfileInv, VectorsOK, ProfileTypeOK, Memory
    <2> QED BY <1>1, <1>3, <2>1 DEF PageOK, Was, tables
  <1>9. JobOK'
    BY <1>1, <1>2 DEF JobOK
  <1>10. DueOK'
    <2> SUFFICES ASSUME NEW i \in due
                 PROVE  /\ rows[i] # Absent
                        /\ Eligible(i)
                        /\ \A c \in found : c.id = i => c.version = rows[i].version
                        /\ ~failures => WillCover(i)'
      BY <1>1, <1>2 DEF DueOK, NoUpserts, tables, report, Eligible, ProfileTypeOK
    <2>1. rows[i] # Absent /\ Eligible(i) /\ i \in Ids
      BY <1>2 DEF Eligible
    <2>2. \A c \in found : c.id = i => c.version = rows[i].version
      BY <1>3
    <2>3. ASSUME ~failures PROVE WillCover(i)'
      <3>1. Covered(i) \/ i > cursor
        BY <1>1, <1>2, <2>1, <2>3 DEF ProfileInv, DueOK, WillCover, JobOK, NoUpserts
      <3>2. CASE Covered(i)
        BY <1>1, <2>1, <3>2, JobTables DEF WillCover
      <3>3. CASE i \in Taken(cursor)
        BY <1>1, <1>3, <3>3 DEF WillCover
      <3>4. CASE i > cursor /\ i \notin Taken(cursor)
        <4>1. i \in Past(cursor)
          BY <2>1, <3>4 DEF Past
        <4>2. /\ \A k \in Taken(cursor) : k < i
              /\ Cardinality(Taken(cursor)) >= BatchSize
          BY <1>2, <3>4, <4>1, LeftForLater
        <4>3. MorePages(found)
          BY <1>3, <4>2 DEF MorePages
        <4>4. Taken(cursor) # {}
          BY <1>4, <4>2, FS_EmptySet, ProfileAssumption
        <4>5. found # {}
          BY <1>3, <4>4
        <4>6. step' = "check" /\ cursor' = NextCursor(found)
          BY <1>1, <4>5
        <4>7. cursor' < i /\ cursor' \in Nat /\ i \in Nat
          BY <1>4, <1>5, <2>1, <4>2, <4>5, <4>6, ProfileAssumption DEF Ids
        <4> QED BY <1>1, <4>3, <4>6, <4>7 DEF WillCover
      <3> QED BY <3>1, <3>2, <3>3, <3>4
    <2> QED BY <2>1, <2>2, <2>3
  <1> QED BY <1>6, <1>7, <1>8, <1>9, <1>10 DEF ProfileInv

LEMMA SkipFailedInv ==
  ASSUME ProfileInv, SkipFailed
  PROVE  ProfileInv'
  <1>1. /\ step = "check" /\ page' \subseteq page /\ failures' = TRUE
        /\ UNCHANGED <<tables, service, step, cursor, full, pending, broken, due, eligible, runs>>
    BY DEF SkipFailed
  <1>2. ProfileTypeOK'
    BY <1>1 DEF ProfileInv, ProfileTypeOK, tables, service
  <1>3. VectorsOK' /\ PageOK'
    BY <1>1, JobTables, PageShrinks
  <1>4. JobOK'
    BY <1>1 DEF ProfileInv, JobOK
  <1>5. DueOK'
    BY <1>1 DEF ProfileInv, DueOK, Eligible, tables
  <1> QED BY <1>2, <1>3, <1>4, <1>5 DEF ProfileInv

\* A candidate that is dropped as stale is of a memory that changed.
LEMMA CheckVersionInv ==
  ASSUME ProfileInv, CheckVersion
  PROVE  ProfileInv'
  <1> DEFINE c == Current
             unchanged == rows[c.id] # Absent /\ rows[c.id].version = c.version
  <1>1. /\ step = "check" /\ page # {} /\ ~broken
        /\ \/ unchanged /\ step' = "upsert" /\ UNCHANGED page
           \/ ~unchanged /\ page' = page \ {c} /\ UNCHANGED step
        /\ UNCHANGED <<tables, service, cursor, full, pending, broken, due, report>>
    BY DEF CheckVersion
  <1>2. c \in page
    BY <1>1, CurrentIn DEF ProfileInv
  <1>3. ProfileTypeOK'
    BY <1>1 DEF ProfileInv, ProfileTypeOK, tables, service, report
  <1>4. VectorsOK' /\ PageOK'
    BY <1>1, JobTables, PageShrinks
  <1>5. JobOK'
    BY <1>1 DEF ProfileInv, JobOK, report
  <1>6. DueOK'
    <2> SUFFICES ASSUME NEW i \in due
                 PROVE  /\ rows[i] # Absent
                        /\ Eligible(i)
                        /\ \A d \in page : d.id = i => d.version = rows[i].version
                        /\ pending[i] # Absent => pending[i].source = rows[i].version
                        /\ ~failures => WillCover(i)'
      BY <1>1 DEF DueOK, Eligible, tables, report
    <2>1. /\ rows[i] # Absent /\ Eligible(i) /\ i \in Ids
          /\ \A d \in page : d.id = i => d.version = rows[i].version
          /\ pending[i] # Absent => pending[i].source = rows[i].version
          /\ ~failures => WillCover(i)
      BY <1>1 DEF ProfileInv, DueOK, ProfileTypeOK
    <2>2. c.id = i => unchanged
      BY <1>2, <2>1
    <2> HIDE DEF c
    <2>3. (\E d \in page : d.id = i) => \E d \in page' : d.id = i
      BY <1>1, <2>2
    <2>4. Covered(i)' = Covered(i)
      BY <1>1, <2>1, JobTables
    <2>5. ~failures => WillCover(i)'
      BY <1>1, <2>1, <2>3, <2>4 DEF WillCover
    <2> QED BY <2>1, <2>5
  <1> QED BY <1>3, <1>4, <1>5, <1>6 DEF ProfileInv

\* The vector that is staged is of the version and content the page was read with.
LEMMA UpsertInv ==
  ASSUME ProfileInv, Upsert
  PROVE  ProfileInv'
  <1>1. PICK c : c = Current
    OBVIOUS
  <1>2. c \in page /\ c \in Candidate /\ c.id \in Ids
    BY <1>1, CurrentIn DEF Upsert, ProfileInv, JobOK
  <1>3. /\ step = "upsert" /\ step' = "check" /\ page' = page \ {c}
        /\ UNCHANGED <<tables, service, cursor, full, due, eligible, runs>>
    BY <1>1 DEF Upsert
  <1>4. PageOK'
    BY <1>3, PageShrinks
  <1>5. CASE /\ rows[c.id] # Absent /\ pending' = [pending EXCEPT ![c.id] = VectorOf(c)]
             /\ UNCHANGED <<broken, failures>>
    <2>1. VectorOf(c) \in Vector /\ VectorOf(c).source = c.version /\ VectorOf(c).content = c.content
          /\ VectorOf(c) # Absent
      BY <1>2, ProfileAssumption DEF VectorOf, Vector, Candidate
    <2>2. /\ pending' \in [Ids -> Vector \cup {Absent}] /\ pending'[c.id] = VectorOf(c)
          /\ \A i \in Ids \ {c.id} : pending'[i] = pending[i]
      BY <1>2, <1>5, <2>1 DEF ProfileInv, ProfileTypeOK
    <2>3. ProfileTypeOK'
      BY <1>3, <1>5, <2>2 DEF ProfileInv, ProfileTypeOK, tables, service
    <2>4. VectorsOK'
      <3>1. Was(c.id, c.version, c.content)
        BY <1>2, <1>5 DEF ProfileInv, PageOK
      <3> QED BY <1>2, <1>3, <1>5, <2>1, <2>2, <3>1 DEF ProfileInv, VectorsOK, Was, tables
    <2>5. JobOK'
      BY <1>3, <1>5 DEF ProfileInv, JobOK
    <2>6. DueOK'
      <3> SUFFICES ASSUME NEW i \in due
                   PROVE  /\ rows[i] # Absent
                          /\ Eligible(i)
                          /\ \A d \in page' : d.id = i => d.version = rows[i].version
                          /\ pending'[i] # Absent => pending'[i].source = rows[i].version
                          /\ ~failures => WillCover(i)'
        BY <1>3, <1>5 DEF DueOK, Eligible, tables
      <3>1. /\ rows[i] # Absent /\ Eligible(i) /\ i \in Ids
            /\ \A d \in page : d.id = i => d.version = rows[i].version
            /\ pending[i] # Absent => pending[i].source = rows[i].version
            /\ ~failures => WillCover(i)
        BY <1>3 DEF ProfileInv, DueOK, ProfileTypeOK
      <3>2. Covered(i)' = Covered(i)
        BY <1>3, <3>1, JobTables
      <3>3. CASE i = c.id
        BY <1>2, <1>3, <2>1, <2>2, <3>1, <3>3 DEF WillCover
      <3>4. CASE i # c.id
        <4>1. pending'[i] = pending[i] /\ ((\E d \in page : d.id = i) => \E d \in page' : d.id = i)
          BY <1>3, <2>2, <3>1, <3>4
        <4> QED BY <1>3, <3>1, <3>2, <4>1 DEF WillCover
      <3> QED BY <3>3, <3>4
    <2> QED BY <1>4, <2>3, <2>4, <2>5, <2>6 DEF ProfileInv
  <1>6. CASE broken' = TRUE /\ failures' = TRUE /\ UNCHANGED pending
    <2>1. ProfileTypeOK'
      BY <1>3, <1>6 DEF ProfileInv, ProfileTypeOK, tables, service
    <2>2. VectorsOK'
      BY <1>3, <1>6, JobTables
    <2>3. JobOK'
      BY <1>3, <1>6 DEF JobOK
    <2>4. DueOK'
      BY <1>3, <1>6 DEF ProfileInv, DueOK, Eligible, tables
    <2> QED BY <1>4, <2>1, <2>2, <2>3, <2>4 DEF ProfileInv
  <1> QED BY <1>1, <1>5, <1>6 DEF Upsert

\* The commit gives every memory of the page its vector.
LEMMA EndPageInv ==
  ASSUME ProfileInv, EndPage
  PROVE  ProfileInv'
  <1>1. /\ step = "check" /\ page = {} /\ full' = FALSE /\ pending' = NoUpserts /\ broken' = FALSE
        /\ step' = IF full THEN "list" ELSE "count"
        /\ UNCHANGED <<rows, issued, service, cursor, page, due, report>>
    BY DEF EndPage
  <1>2. \A i \in Ids : semantic'[i] = IF ~broken /\ pending[i] # Absent THEN pending[i] ELSE semantic[i]
    BY DEF EndPage
  <1>3. semantic' \in [Ids -> Vector \cup {Absent}]
    BY DEF EndPage, ProfileInv, ProfileTypeOK
  <1>4. \A i \in Ids : pending'[i] = Absent
    BY <1>1 DEF NoUpserts
  <1>5. ProfileTypeOK'
    <2>1. pending' \in [Ids -> Vector \cup {Absent}]
      BY <1>1 DEF NoUpserts
    <2>2. full' \in BOOLEAN /\ broken' \in BOOLEAN
      BY <1>1
    <2> QED BY <1>1, <1>3, <2>1, <2>2 DEF ProfileInv, ProfileTypeOK, service, report
  <1>6. VectorsOK'
    BY <1>1, <1>2, <1>4 DEF ProfileInv, VectorsOK, Was
  <1>7. PageOK'
    BY <1>1 DEF PageOK
  <1>8. JobOK'
    BY <1>1 DEF JobOK
  <1>9. DueOK'
    <2> SUFFICES ASSUME NEW i \in due
                 PROVE  /\ rows[i] # Absent /\ Eligible(i)
                        /\ pending'[i] = Absent
                        /\ ~failures => WillCover(i)'
      BY <1>1 DEF DueOK, Eligible, report
    <2>1. /\ rows[i] # Absent /\ Eligible(i) /\ i \in Ids
          /\ pending[i] # Absent => pending[i].source = rows[i].version
          /\ ~failures => WillCover(i) /\ ~broken
      BY <1>1 DEF ProfileInv, DueOK, ProfileTypeOK, JobOK
    <2>2. ~failures => WillCover(i)'
      BY <1>1, <1>2, <2>1 DEF WillCover, Covered
    <2> QED BY <1>4, <2>1, <2>2
  <1> QED BY <1>5, <1>6, <1>7, <1>8, <1>9 DEF ProfileInv

LEMMA CountInv ==
  ASSUME ProfileInv, CountEligible \/ CountCovered
  PROVE  ProfileInv'
  <1>1. /\ step \in {"count", "recount"} /\ step' \in {"recount", "cutover", "done"}
        /\ UNCHANGED <<tables, service, position, pending, broken, due, failures, runs>>
    BY DEF CountEligible, CountCovered
  <1>2. eligible' \in 0..MaxId
    <2>1. {i \in Ids : Eligible(i)} \subseteq Ids /\ 0 \in 0..MaxId
      BY ProfileAssumption
    <2> QED BY <2>1, IdsFinite DEF CountEligible, CountCovered
  <1>3. ProfileTypeOK'
    BY <1>1, <1>2 DEF ProfileInv, ProfileTypeOK, tables, service, position
  <1>4. VectorsOK' /\ PageOK'
    BY <1>1, JobTables, PageShrinks DEF position
  <1>5. JobOK'
    BY <1>1 DEF ProfileInv, JobOK, position
  <1>6. DueOK'
    BY <1>1 DEF ProfileInv, DueOK, WillCover, Covered, tables, position
  <1> QED BY <1>3, <1>4, <1>5, <1>6 DEF ProfileInv

\* A cutover keeps versions and contents.
LEMMA CutoverInv ==
  ASSUME ProfileInv, Cutover
  PROVE  ProfileInv'
  <1>1. /\ step = "cutover" /\ step' = "done"
        /\ UNCHANGED <<semantic, issued, service, position, pending, broken, due, report>>
    BY DEF Cutover
  <1>2. ASSUME NEW i \in Ids
        PROVE  /\ rows'[i] \in Memory \cup {Absent}
               /\ rows[i] # Absent <=> rows'[i] # Absent
               /\ rows[i] # Absent => rows'[i].version = rows[i].version
                                      /\ rows'[i].content = rows[i].content
    <2>1. rows[i] \in Memory \cup {Absent}
      BY DEF ProfileInv, ProfileTypeOK
    <2>2. rows'[i] = IF Eligible(i) THEN [rows[i] EXCEPT !.dimension = 384] ELSE rows[i]
      BY DEF Cutover
    <2> QED BY <2>1, <2>2, ProfileAssumption DEF Eligible, Memory, Dimensions
  <1>3. rows' = [i \in Ids |-> rows'[i]]
    BY DEF Cutover
  <1>4. ProfileTypeOK'
    <2>1. rows' \in [Ids -> Memory \cup {Absent}]
      BY <1>2, <1>3
    <2> QED BY <1>1, <2>1 DEF ProfileInv, ProfileTypeOK, service, position, report
  <1>5. VectorsOK'
    BY <1>1, <1>2 DEF ProfileInv, VectorsOK, Was
  <1>6. PageOK' /\ JobOK'
    BY <1>1 DEF ProfileInv, PageOK, JobOK, position, report
  <1>7. DueOK'
    <2>1. due \subseteq Ids /\ page = {}
      BY <1>1 DEF ProfileInv, ProfileTypeOK, JobOK
    <2> QED BY <1>1, <1>2, <2>1 DEF ProfileInv, DueOK, WillCover, Covered, position, report
  <1> QED BY <1>4, <1>5, <1>6, <1>7 DEF ProfileInv

LEMMA KillJobInv ==
  ASSUME ProfileInv, KillJob
  PROVE  ProfileInv'
  <1>1. /\ step' = "idle" /\ cursor' = 0 /\ page' = {} /\ full' = FALSE
        /\ pending' = NoUpserts /\ broken' = FALSE
        /\ due' = {} /\ failures' = FALSE /\ eligible' = 0
        /\ UNCHANGED <<tables, service, runs>>
    BY DEF KillJob
  <1>2. ProfileTypeOK'
    <2>1. NoUpserts \in [Ids -> Vector \cup {Absent}] /\ 0 \in 0..MaxId
      BY ProfileAssumption DEF NoUpserts
    <2>2. full' \in BOOLEAN /\ broken' \in BOOLEAN /\ failures' \in BOOLEAN
      BY <1>1
    <2> QED BY <1>1, <2>1, <2>2 DEF ProfileInv, ProfileTypeOK, tables, service
  <1>3. VectorsOK'
    BY <1>1 DEF ProfileInv, VectorsOK, Was, NoUpserts, tables
  <1>4. PageOK' /\ JobOK' /\ DueOK'
    BY <1>1 DEF PageOK, JobOK, DueOK
  <1> QED BY <1>2, <1>3, <1>4 DEF ProfileInv

LEMMA ProfileNextInv == ProfileInv /\ [ProfileNext]_profiles => ProfileInv'
  <1> SUFFICES ASSUME ProfileInv, [ProfileNext]_profiles PROVE ProfileInv'
    OBVIOUS
  <1>1. CASE UNCHANGED profiles
    <2>1. ProfileTypeOK'
      BY <1>1 DEF ProfileInv, ProfileTypeOK, profiles, tables, service, position, report
    <2>2. VectorsOK' /\ PageOK' /\ JobOK'
      BY <1>1 DEF ProfileInv, VectorsOK, PageOK, JobOK, Was, profiles, tables, position, report
    <2>3. DueOK'
      BY <1>1 DEF ProfileInv, DueOK, WillCover, Eligible, Covered, profiles, tables, position, report
    <2> QED BY <2>1, <2>2, <2>3 DEF ProfileInv
  <1>2. CASE ProfileNext
    BY <1>2, ServiceInv, StartJobInv, ListPageInv, SkipFailedInv, CheckVersionInv, UpsertInv,
       EndPageInv, CountInv, CutoverInv, KillJobInv DEF ProfileNext, JobStep
  <1> QED BY <1>1, <1>2

------------------------------------------------------------------------------
\* ProfileInv holds in every reachable state (EmbeddingProfiles).
THEOREM ProfileInvariant == ProfileSpec => []ProfileInv
  BY ProfileInitInv, ProfileNextInv, PTL DEF ProfileSpec

\* A semantic vector that search accepts was made from the content the memory
\* has now (search_candidates, upsert_embedding_profile, repository.update).
THEOREM AcceptedVectorsFresh == ProfileSpec => []SemanticFresh
  <1>1. ProfileInv => SemanticFresh
    BY DEF ProfileInv, SemanticFresh, VectorsOK, Was, Covered
  <1> QED BY <1>1, ProfileInvariant, PTL

\* A run without failures covers every memory that was eligible past its cursor
\* when it started and was left alone since (EmbeddingReembeddingJob.run,
\* list_for_reembedding).
THEOREM RunsCover == ProfileSpec => []RunCovers
  <1>1. ProfileInv => RunCovers
    BY DEF ProfileInv, RunCovers, DueOK, WillCover, JobOK, NoUpserts, ProfileTypeOK
  <1> QED BY <1>1, ProfileInvariant, PTL
==============================================================================
