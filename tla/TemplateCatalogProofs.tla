----------------------- MODULE TemplateCatalogProofs ------------------------
(***************************************************************************)
(* Theorems about TemplateCatalog, for directories of any size and any     *)
(* templates.  The argument is CatInv: until a file is refused the catalog *)
(* is exactly the files read so far, each under a slug of its own, and     *)
(* whatever is in it passed the validators; a refusal leaves its cause in  *)
(* the directory.                                                          *)
(***************************************************************************)
EXTENDS TemplateCatalog, FiniteSetTheorems, TLAPS

USE CheckoutsAssumption

-----------------------------------------------------------------------------
(***************************************************************************)
(* The inductive invariant.                                                *)
(***************************************************************************)
\* Whatever is in the catalog is a file that was read and accepted.
HoldsFiles ==
    \A s \in DOMAIN catalog : \E i \in 1 .. read :
        files[i].slug = s /\ catalog[s] = files[i] /\ TemplateValid(files[i])

\* Until a file is refused, every file read is in it, and under its own slug.
HoldsAllRead ==
    status # "refused" =>
        /\ \A i \in 1 .. read : files[i].slug \in DOMAIN catalog /\ catalog[files[i].slug] = files[i]
        /\ \A i, j \in 1 .. read : files[i].slug = files[j].slug => i = j
        /\ Cardinality(DOMAIN catalog) = read

CatInv ==
    /\ files \in Checkouts /\ status \in {"loading", "serving", "refused"}
    /\ read \in 0 .. Len(files)
    /\ IsFiniteSet(DOMAIN catalog)
    /\ HoldsFiles /\ HoldsAllRead
    /\ status = "serving" => read = Len(files) /\ ContainsResolve
    /\ RefusedForCause

-----------------------------------------------------------------------------
\* Before the first file the catalog is empty.
LEMMA CatInitInv == CatInit => CatInv
<1> SUFFICES ASSUME CatInit PROVE CatInv
  OBVIOUS
<1>1. DOMAIN catalog = {} /\ read = 0 /\ status = "loading" /\ files \in Checkouts
  BY DEF CatInit
<1>2. Cardinality({}) = 0 /\ IsFiniteSet({})
  BY FS_EmptySet
<1> QED
  BY <1>1, <1>2 DEF CatInv, HoldsFiles, HoldsAllRead, RefusedForCause

\* A file is accepted beside the ones before it, or refused for what it is.
LEMMA LoadFileInv == CatInv /\ LoadFile => CatInv'
<1> SUFFICES ASSUME CatInv, LoadFile PROVE CatInv'
  OBVIOUS
<1> DEFINE n == read + 1
           t == files[n]
<1>1. /\ files \in Checkouts /\ read \in 0 .. Len(files) /\ Len(files) \in Nat
      /\ status = "loading" /\ read < Len(files) /\ read' = read + 1 /\ UNCHANGED files
      /\ DOMAIN files = 1 .. Len(files) /\ n \in DOMAIN files /\ read' \in 0 .. Len(files)
  BY DEF CatInv, LoadFile
<1>2. CASE FileAccepted(t)
  <2>1. /\ catalog' = [s \in DOMAIN catalog \cup {t.slug} |-> IF s = t.slug THEN t ELSE catalog[s]]
        /\ status' = status /\ TemplateValid(t) /\ t.slug \notin DOMAIN catalog
    BY <1>2 DEF LoadFile, FileAccepted, Duplicate
  <2>2. DOMAIN catalog' = DOMAIN catalog \cup {t.slug}
    BY <2>1
  <2>3. IsFiniteSet(DOMAIN catalog') /\ Cardinality(DOMAIN catalog') = read + 1
    <3>1. IsFiniteSet(DOMAIN catalog) /\ Cardinality(DOMAIN catalog) = read
      BY <1>1 DEF CatInv, HoldsAllRead
    <3>2. /\ IsFiniteSet(DOMAIN catalog \cup {t.slug})
          /\ Cardinality(DOMAIN catalog \cup {t.slug}) = read + 1
      BY <2>1, <3>1, FS_AddElement
    <3> QED
      BY <2>2, <3>2
  <2>4. HoldsFiles'
    <3> SUFFICES ASSUME NEW s \in DOMAIN catalog'
                 PROVE  \E i \in 1 .. read + 1 :
                          files[i].slug = s /\ catalog'[s] = files[i] /\ TemplateValid(files[i])
      BY <1>1 DEF HoldsFiles
    <3>1. CASE s = t.slug
      BY <1>1, <2>1, <3>1
    <3>2. CASE s # t.slug
      BY <1>1, <2>1, <2>2, <3>2 DEF CatInv, HoldsFiles
    <3> QED
      BY <3>1, <3>2
  <2>5. HoldsAllRead'
    <3>1. \A i \in 1 .. read : files[i].slug \in DOMAIN catalog /\ files[i].slug # t.slug
                               /\ catalog[files[i].slug] = files[i]
      BY <1>1, <2>1 DEF CatInv, HoldsAllRead
    <3>2. \A i \in 1 .. read + 1 : files[i].slug \in DOMAIN catalog' /\ catalog'[files[i].slug] = files[i]
      BY <1>1, <2>1, <2>2, <3>1
    <3>3. \A i, j \in 1 .. read + 1 : files[i].slug = files[j].slug => i = j
      BY <1>1, <3>1 DEF CatInv, HoldsAllRead
    <3> QED
      BY <1>1, <2>3, <3>2, <3>3 DEF HoldsAllRead
  <2> QED
    BY <1>1, <2>1, <2>3, <2>4, <2>5 DEF CatInv, RefusedForCause
<1>3. CASE ~FileAccepted(t)
  <2>1. status' = "refused" /\ UNCHANGED catalog
    BY <1>3 DEF LoadFile
  <2>2. HoldsFiles'
    BY <1>1, <2>1 DEF CatInv, HoldsFiles
  <2>3. \/ ~TemplateValid(files[n])
        \/ \E i \in 1 .. read : files[i].slug = files[n].slug
    BY <1>3 DEF FileAccepted, Duplicate, CatInv, HoldsFiles
  <2>4. \/ \E i \in DOMAIN files : ~TemplateValid(files[i])
        \/ \E i, j \in DOMAIN files : i # j /\ files[i].slug = files[j].slug
    BY <1>1, <2>3
  <2>5. RefusedForCause'
    BY <1>1, <2>4 DEF RefusedForCause
  <2> QED
    BY <1>1, <2>1, <2>2, <2>5 DEF CatInv, HoldsAllRead
<1> QED
  BY <1>2, <1>3

\* What a module contains is looked for among all files.
LEMMA CheckContainsInv == CatInv /\ CheckContains => CatInv'
<1> SUFFICES ASSUME CatInv, CheckContains PROVE CatInv'
  OBVIOUS
<1>1. /\ files \in Checkouts /\ status = "loading" /\ read = Len(files)
      /\ UNCHANGED <<files, read, catalog>>
      /\ DOMAIN files = 1 .. read
  BY DEF CatInv, CheckContains
<1>2. HoldsFiles' /\ HoldsAllRead'
  BY <1>1 DEF CatInv, CheckContains, HoldsFiles, HoldsAllRead
<1>3. RefusedForCause'
  <2>1. CASE ContainsResolve
    BY <2>1 DEF CheckContains, RefusedForCause
  <2>2. CASE ~ContainsResolve
    <3>1. PICK s \in DOMAIN catalog : ~(catalog[s].contains \subseteq DOMAIN catalog)
      BY <2>2 DEF ContainsResolve
    <3>2. PICK i \in 1 .. read : catalog[s] = files[i]
      BY DEF CatInv, HoldsFiles
    <3>3. PICK u \in files[i].contains : u \notin DOMAIN catalog
      BY <3>1, <3>2
    <3>4. \A j \in DOMAIN files : files[j].slug # u
      BY <1>1, <3>3 DEF CatInv, HoldsAllRead
    <3> QED
      BY <1>1, <3>4 DEF RefusedForCause
  <2> QED
    BY <2>1, <2>2
<1> QED
  BY <1>1, <1>2, <1>3 DEF CatInv, CheckContains, ContainsResolve

\* CatInv is an invariant: install sequences and stuttering leave it alone.
THEOREM CatInvariance == CatSpec => []CatInv
<1>1. CatInv /\ [CatNext]_catVars => CatInv'
  <2> SUFFICES ASSUME CatInv, [CatNext]_catVars PROVE CatInv'
    OBVIOUS
  <2>1. CASE UNCHANGED <<files, read, catalog, status>>
    BY <2>1 DEF CatInv, HoldsFiles, HoldsAllRead, ContainsResolve, RefusedForCause
  <2> QED
    BY <2>1, LoadFileInv, CheckContainsInv DEF CatNext, BuildMop, catVars
<1> QED
  BY <1>1, CatInitInv, PTL DEF CatSpec

-----------------------------------------------------------------------------
(***************************************************************************)
(* What follows from it.                                                   *)
(***************************************************************************)
\* Types; and no file takes another's place in the catalog.
THEOREM CatTypeCorrect == CatSpec => []CatTypeOK
<1>1. CatInv => CatTypeOK
  BY DEF CatInv, HoldsFiles, HoldsAllRead, CatTypeOK
<1> QED
  BY <1>1, CatInvariance, PTL

\* What is served is all of what the directory holds, and whatever a module
\* contains is there (load_catalog).
THEOREM ServedIsWhole == CatSpec => []CatalogIsWhole
<1>1. CatInv => CatalogIsWhole
  <2> SUFFICES ASSUME CatInv, status = "serving"
               PROVE  /\ Templates = {files[i] : i \in DOMAIN files}
                      /\ \A i, j \in DOMAIN files : files[i].slug = files[j].slug => i = j
                      /\ \A t \in Templates : t.contains \subseteq {u.slug : u \in Templates}
    BY DEF CatalogIsWhole
  <2>1. DOMAIN files = 1 .. read
    BY DEF CatInv
  <2>2. \A t \in Templates : \E i \in DOMAIN files : t = files[i]
    BY <2>1 DEF CatInv, HoldsFiles, Templates
  <2>3. \A i \in DOMAIN files : files[i] \in Templates
    BY <2>1 DEF CatInv, HoldsAllRead, Templates
  <2>4. \A i, j \in DOMAIN files : files[i].slug = files[j].slug => i = j
    BY <2>1 DEF CatInv, HoldsAllRead
  <2>5. ASSUME NEW s \in DOMAIN catalog PROVE s \in {u.slug : u \in Templates}
    BY DEF CatInv, HoldsFiles, Templates
  <2>6. \A t \in Templates : t.contains \subseteq {u.slug : u \in Templates}
    BY <2>5 DEF CatInv, ContainsResolve, Templates
  <2> QED
    BY <2>2, <2>3, <2>4, <2>6
<1> QED
  BY <1>1, CatInvariance, PTL

\* Startup is refused for a cause only, never for the order of the files.
THEOREM RefusalHasCause == CatSpec => []RefusedForCause
<1>1. CatInv => RefusedForCause
  BY DEF CatInv
<1> QED
  BY <1>1, CatInvariance, PTL

\* A template of the catalog passed the validators of the schema.
LEMMA Accepted == CatInv => \A m \in Measurements : MeasurementValid(m)
<1> SUFFICES ASSUME CatInv, NEW t \in Templates, NEW m \in t.measurements
             PROVE  MeasurementValid(m)
  BY DEF Measurements
<1>1. TemplateValid(t)
  BY DEF CatInv, HoldsFiles, Templates
<1> QED
  BY <1>1 DEF TemplateValid

\* No alarm lies where no value reaches it (two validators together).
THEOREM AlarmsReachable == CatSpec => []NoDeadAlarm
<1>1. CatInv => NoDeadAlarm
  BY Accepted DEF NoDeadAlarm, MeasurementValid, ThresholdsOrdered, Inside
<1> QED
  BY <1>1, CatInvariance, PTL

-----------------------------------------------------------------------------
(***************************************************************************)
(* The install sequence.  Where a step goes is how many come before it, so *)
(* that steps are told apart by their places and every place is taken      *)
(* (Ranking); the catalog no longer changes once it is served.             *)
(***************************************************************************)
Lower(S, R, s) == {r \in S : <<r, s>> \in R}

\* R is a strict total order of S, and each has the place that it gives him.
Orders(R, S) ==
    /\ \A x \in S : <<x, x>> \notin R
    /\ \A x, y, z \in S : <<x, y>> \in R /\ <<y, z>> \in R => <<x, z>> \in R
    /\ \A x, y \in S : x = y \/ <<x, y>> \in R \/ <<y, x>> \in R
Places(place, R, S) ==
    /\ place = [s \in S |-> place[s]]
    /\ \A s \in S : place[s] = 1 + Cardinality(Lower(S, R, s))

\* In a finite set with a strict total order every place is taken.
LEMMA Ranking ==
  ASSUME NEW S, IsFiniteSet(S), NEW R, Orders(R, S), NEW place, Places(place, R, S)
  PROVE  /\ \A x, y \in S : <<x, y>> \in R => place[x] < place[y]
         /\ \A x \in S : place[x] \in 1 .. Cardinality(S)
         /\ \A i \in 1 .. Cardinality(S) : \E x \in S : place[x] = i
<1> DEFINE below(s) == {r \in S : <<r, s>> \in R}
           h == Cardinality(S)
<1>1. \A x \in S : /\ IsFiniteSet(below(x)) /\ Cardinality(below(x)) \in Nat
                   /\ place[x] = 1 + Cardinality(below(x))
  BY FS_Subset, FS_CardinalityType DEF Lower, Places
<1>2. h \in Nat
  BY FS_CardinalityType
<1>3. ASSUME NEW x \in S, NEW y \in S, <<x, y>> \in R
      PROVE  place[x] < place[y]
  <2>1. below(x) \subseteq below(y) /\ x \in below(y) /\ x \notin below(x)
    BY <1>3 DEF Orders
  <2>2. Cardinality(below(x)) < Cardinality(below(y))
    <3> DEFINE T == below(x)  U == below(y)
    <3>1. IsFiniteSet(U) /\ T \in SUBSET U /\ T # U
      BY <1>1, <2>1
    <3> HIDE DEF T, U
    <3>2. Cardinality(T) < Cardinality(U)
      BY <3>1, FS_Subset, FS_CardinalityType
    <3> QED
      BY <3>2 DEF T, U
  <2> HIDE DEF below
  <2> QED
    BY <1>1, <2>2
<1>4. ASSUME NEW x \in S PROVE place[x] \in 1 .. h
  <2>1. below(x) \subseteq S /\ x \notin below(x)
    BY DEF Orders
  <2>2. Cardinality(below(x)) < h
    <3> DEFINE T == below(x)
    <3>1. T \in SUBSET S /\ T # S
      BY <2>1
    <3> HIDE DEF T
    <3>2. Cardinality(T) < Cardinality(S)
      BY <3>1, FS_Subset, FS_CardinalityType
    <3> QED
      BY <3>2 DEF T, h
  <2> HIDE DEF below, h
  <2> QED
    BY <1>1, <1>2, <2>2
<1>5. place \in Injection(S, 1 .. h)
  <2>1. place \in [S -> 1 .. h]
    <3>1. place = [s \in S |-> place[s]] /\ \A x \in S : place[x] \in 1 .. h
      BY <1>4 DEF Places
    <3> HIDE DEF h
    <3> QED
      BY <3>1
  <2>2. \A x, y \in S : place[x] = place[y] => x = y
    <3> SUFFICES ASSUME NEW x \in S, NEW y \in S, place[x] = place[y] PROVE x = y
      OBVIOUS
    <3>1. place[x] \in Nat /\ place[y] \in Nat
      BY <1>4
    <3>2. ~(place[x] < place[y]) /\ ~(place[y] < place[x])
      BY <3>1
    <3> QED
      BY <1>3, <3>2 DEF Orders
  <2> QED
    BY <2>1, <2>2 DEF Injection, IsInjective
<1>6. IsFiniteSet(1 .. h) /\ Cardinality(1 .. h) = h
  BY <1>2, FS_Interval
<1>7. place \in Surjection(S, 1 .. h)
  BY <1>5, <1>6, FS_Injection
<1> QED
  BY <1>3, <1>4, <1>7 DEF Surjection, h

\* What a step is made of.
LEMMA StepIsTyped ==
  ASSUME CatInv, NEW s \in Steps
  PROVE  /\ s = [device |-> s.device, n |-> s.n, task |-> catalog[s.device[1]].tasks[s.n]]
         /\ s.device = <<s.device[1], s.device[2]>>
         /\ s.device[1] \in Int /\ s.device[2] \in {0, 1} /\ s.n \in Int
         /\ s.task.level \in Int /\ s.task.name \in Int
<1>1. PICK d \in Installed : s \in StepsOf(d)
  BY DEF Steps
<1>2. PICK i \in DOMAIN files : catalog[d[1]] = files[i] /\ files[i].slug = d[1]
  BY <1>1 DEF CatInv, HoldsFiles, Installed
<1> DEFINE tasks == files[i].tasks
<1>3. /\ d[1] \in Int /\ d[2] \in {0, 1} /\ d = <<d[1], d[2]>> /\ files[i].slug \in Int
      /\ Len(tasks) \in Nat /\ DOMAIN tasks = 1 .. Len(tasks)
      /\ \A n \in DOMAIN tasks : tasks[n].level \in Int /\ tasks[n].name \in Int
  BY <1>1, <1>2, TasksAssumption DEF CatInv, Installed
<1>4. PICK n \in DOMAIN tasks : s = [device |-> d, n |-> n, task |-> tasks[n]]
  BY <1>1, <1>2 DEF StepsOf
<1> QED
  BY <1>2, <1>3, <1>4

LEMMA StepsAreFinite == CatInv => IsFiniteSet(Steps)
<1> SUFFICES ASSUME CatInv PROVE IsFiniteSet(Steps)
  OBVIOUS
<1>1. IsFiniteSet(Installed)
  <2>1. IsFiniteSet({0, 1})
    <3>1. IsFiniteSet({0} \cup {1})
      BY FS_Singleton, FS_Union
    <3>2. {0, 1} = {0} \cup {1}
      OBVIOUS
    <3> QED
      BY <3>1, <3>2, Zenon
  <2> QED
    BY <2>1, FS_Product DEF CatInv, Installed
<1>2. ASSUME NEW d \in Installed PROVE IsFiniteSet(StepsOf(d))
  <2> DEFINE tasks == catalog[d[1]].tasks
             f == [n \in DOMAIN tasks |-> [device |-> d, n |-> n, task |-> tasks[n]]]
  <2>1. PICK i \in DOMAIN files : catalog[d[1]] = files[i]
    BY DEF CatInv, HoldsFiles, Installed
  <2>2. Len(tasks) \in Nat /\ DOMAIN tasks = 1 .. Len(tasks)
    BY <2>1, TasksAssumption DEF CatInv
  <2>3. IsFiniteSet(DOMAIN tasks)
    BY <2>2, FS_Interval
  <2>4. f \in Surjection(DOMAIN tasks, StepsOf(d))
    BY DEF Surjection, StepsOf
  <2> HIDE DEF f
  <2> QED
    BY <2>3, <2>4, FS_Surjection
<1> DEFINE f == [d \in Installed |-> StepsOf(d)]
           all == {StepsOf(d) : d \in Installed}
<1>3. IsFiniteSet(all)
  <2>1. f \in Surjection(Installed, all)
    BY DEF Surjection
  <2> HIDE DEF f, all
  <2> QED
    BY <1>1, <2>1, FS_Surjection
<1>4. \A T \in all : IsFiniteSet(T)
  BY <1>2
<1> QED
  BY <1>3, <1>4, FS_UNION DEF Steps

\* The order of the rows is strict and total: two devices have two tags.
LEMMA StepsAreOrdered ==
  ASSUME CatInv
  PROVE  /\ \A r \in Steps : ~Before(r, r)
         /\ \A r, s, t \in Steps : Before(r, s) /\ Before(s, t) => Before(r, t)
         /\ \A r, s \in Steps : r = s \/ Before(r, s) \/ Before(s, r)
         /\ \A r, s \in Steps : r.task.level < s.task.level => Before(r, s)
<1> DEFINE tag(s) == Tagged(s.device)
<1>1. \A s \in Steps : /\ tag(s) \in Int /\ s.n \in Int
                       /\ s.task.level \in Int /\ s.task.name \in Int
  BY StepIsTyped DEF Tagged
<1>2. \A r, s \in Steps :
         Before(r, s) <=> \/ r.task.level < s.task.level
                          \/ r.task.level = s.task.level /\ tag(r) < tag(s)
                          \/ r.task.level = s.task.level /\ tag(r) = tag(s)
                               /\ r.task.name < s.task.name
                          \/ r.task.level = s.task.level /\ tag(r) = tag(s)
                               /\ r.task.name = s.task.name /\ r.n < s.n
  BY DEF Before, Precedes, Key, SortKey
<1>3. ASSUME NEW r \in Steps, NEW s \in Steps, tag(r) = tag(s), r.n = s.n
      PROVE  r = s
  <2>1. /\ r.device[1] \in Int /\ r.device[2] \in {0, 1}
        /\ s.device[1] \in Int /\ s.device[2] \in {0, 1}
        /\ r.device = <<r.device[1], r.device[2]>> /\ s.device = <<s.device[1], s.device[2]>>
    BY StepIsTyped
  <2>2. 2 * r.device[1] + r.device[2] = 2 * s.device[1] + s.device[2]
    BY <1>3 DEF Tagged
  <2>3. r.device[1] = s.device[1] /\ r.device[2] = s.device[2]
    BY <2>1, <2>2
  <2>4. r.device = s.device
    BY <2>1, <2>3
  <2> QED
    BY <1>3, <2>4, StepIsTyped
<1> HIDE DEF tag
<1>4. \A r \in Steps : ~Before(r, r)
  BY <1>1, <1>2
<1>5. ASSUME NEW r \in Steps, NEW s \in Steps, NEW t \in Steps, Before(r, s), Before(s, t)
      PROVE  Before(r, t)
  <2>1. /\ r.task.level <= s.task.level /\ s.task.level <= t.task.level
        /\ r.task.level = t.task.level => tag(r) <= tag(s) /\ tag(s) <= tag(t)
        /\ r.task.level = t.task.level /\ tag(r) = tag(t)
             => r.task.name <= s.task.name /\ s.task.name <= t.task.name
        /\ r.task.level = t.task.level /\ tag(r) = tag(t) /\ r.task.name = t.task.name
             => r.n < s.n /\ s.n < t.n
    BY <1>1, <1>2, <1>5
  <2> QED
    BY <1>1, <1>2, <2>1
<1>6. \A r, s \in Steps : r = s \/ Before(r, s) \/ Before(s, r)
  BY <1>1, <1>2, <1>3
<1> QED
  BY <1>2, <1>4, <1>5, <1>6

\* The rows are the steps, each at its place.
AreRows(rows) ==
    /\ DOMAIN rows = 1 .. Cardinality(Steps)
    /\ \A i \in DOMAIN rows : rows[i] \in Steps /\ Place(rows[i]) = i
    /\ \A s \in Steps : \E i \in DOMAIN rows : rows[i] = s

LEMMA PlacesAreTaken ==
  ASSUME CatInv
  PROVE  /\ AreRows(Rows)
         /\ \A r, s \in Steps : Before(r, s) => Place(r) < Place(s)
<1> DEFINE R == {p \in Steps \X Steps : Before(p[1], p[2])}
           place == [s \in Steps |-> Place(s)]
<1>1. \A r, s \in Steps : <<r, s>> \in R <=> Before(r, s)
  OBVIOUS
<1>2. \A s \in Steps : Lower(Steps, R, s) = {r \in Steps : Before(r, s)}
  BY <1>1 DEF Lower
<1> HIDE DEF R
<1>3. IsFiniteSet(Steps)
  BY StepsAreFinite
<1>4. /\ \A x, y \in Steps : <<x, y>> \in R => place[x] < place[y]
      /\ \A x \in Steps : place[x] \in 1 .. Cardinality(Steps)
      /\ \A i \in 1 .. Cardinality(Steps) : \E x \in Steps : place[x] = i
  <2>1. \A x \in Steps : <<x, x>> \notin R
    BY <1>1, StepsAreOrdered
  <2>2. \A x, y, z \in Steps : <<x, y>> \in R /\ <<y, z>> \in R => <<x, z>> \in R
    BY <1>1, StepsAreOrdered
  <2>3. \A x, y \in Steps : x = y \/ <<x, y>> \in R \/ <<y, x>> \in R
    BY <1>1, StepsAreOrdered
  <2>4. ASSUME NEW s \in Steps
        PROVE  place[s] = 1 + Cardinality(Lower(Steps, R, s))
    <3>1. Place(s) = 1 + Cardinality(Lower(Steps, R, s))
      BY <1>2 DEF Place
    <3> QED
      BY <3>1
  <2>5. Orders(R, Steps)
    BY <2>1, <2>2, <2>3 DEF Orders
  <2>6. Places(place, R, Steps)
    BY <2>4 DEF Places
  <2> HIDE DEF place
  <2> QED
    BY <1>3, <2>5, <2>6, Ranking
<1>5. \A r, s \in Steps : Before(r, s) => Place(r) < Place(s)
  BY <1>1, <1>4
<1>6. \A i \in 1 .. Cardinality(Steps) : \E x \in Steps : Place(x) = i
  BY <1>4
<1>7. \A x \in Steps : Place(x) \in 1 .. Cardinality(Steps)
  BY <1>4
<1>8. \A i \in 1 .. Cardinality(Steps) : Rows[i] \in Steps /\ Place(Rows[i]) = i
  <2> SUFFICES ASSUME NEW i \in 1 .. Cardinality(Steps)
               PROVE  Rows[i] \in Steps /\ Place(Rows[i]) = i
    OBVIOUS
  <2>1. Rows[i] = CHOOSE s \in Steps : Place(s) = i
    BY DEF Rows
  <2> QED
    BY <1>6, <2>1
<1>9. \A s \in Steps : Rows[Place(s)] = s
  <2> SUFFICES ASSUME NEW s \in Steps PROVE Rows[Place(s)] = s
    OBVIOUS
  <2> DEFINE t == Rows[Place(s)]
  <2>1. t \in Steps /\ Place(t) = Place(s) /\ Place(s) \in Nat
    BY <1>7, <1>8
  <2>2. ~Before(s, t) /\ ~Before(t, s)
    BY <1>5, <2>1
  <2> QED
    BY <2>1, <2>2, StepsAreOrdered
<1> QED
  BY <1>5, <1>7, <1>8, <1>9 DEF AreRows, Rows

\* A sequence is built of what is served, which stays.
MopInv == mop = <<>> \/ (status = "serving" /\ AreRows(mop))

LEMMA MopStays ==
  ASSUME CatInv, MopInv, [CatNext]_catVars
  PROVE  MopInv'
<1>1. CASE LoadFile \/ CheckContains
  BY <1>1 DEF MopInv, LoadFile, CheckContains
<1>2. CASE BuildMop
  <2>1. Steps' = Steps /\ \A s : Place(s)' = Place(s)
    <3>1. Steps' = Steps
      BY <1>2 DEF BuildMop, Steps, StepsOf, Installed
    <3> QED
      BY <3>1 DEF Place
  <2>2. AreRows(Rows) /\ mop' = Rows /\ status' = "serving"
    BY <1>2, PlacesAreTaken DEF BuildMop
  <2>3. AreRows(mop)'
    BY <2>1, <2>2 DEF AreRows
  <2> QED
    BY <2>2, <2>3 DEF MopInv
<1>3. CASE UNCHANGED catVars
  <2>1. Steps' = Steps /\ \A s : Place(s)' = Place(s)
    <3>1. Steps' = Steps
      BY <1>3 DEF catVars, Steps, StepsOf, Installed
    <3> QED
      BY <3>1 DEF Place
  <2> QED
    BY <1>3, <2>1 DEF catVars, MopInv, AreRows
<1> QED
  BY <1>1, <1>2, <1>3 DEF CatNext

\* The numbered checklist has every step once and keeps the milestone gates
\* across devices (build_mop_rows).
THEOREM GatesAreKept == CatSpec => []GatesHold
<1>1. CatInit => MopInv
  BY DEF CatInit, MopInv
<1>2. CatInv /\ MopInv => GatesHold
  <2> SUFFICES ASSUME CatInv, MopInv PROVE GatesHold
    OBVIOUS
  <2>1. CASE mop = <<>>
    BY <2>1 DEF GatesHold
  <2>2. CASE AreRows(mop)
    <3>1. {mop[i] : i \in DOMAIN mop} = Steps
      BY <2>2 DEF AreRows
    <3>2. \A i \in DOMAIN mop : mop[i] \in Steps /\ Place(mop[i]) = i
      BY <2>2 DEF AreRows
    <3>3. \A i, j \in DOMAIN mop : mop[i] = mop[j] => i = j
      BY <3>2
    <3>4. \A i, j \in DOMAIN mop : mop[i].task.level < mop[j].task.level => i < j
      BY <3>2, PlacesAreTaken, StepsAreOrdered
    <3> QED
      BY <3>1, <3>3, <3>4 DEF GatesHold
  <2> QED
    BY <2>1, <2>2 DEF MopInv
<1> QED
  BY <1>1, <1>2, CatInvariance, MopStays, PTL DEF CatSpec
=============================================================================
