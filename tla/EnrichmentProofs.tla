-------------------------- MODULE EnrichmentProofs --------------------------
(***************************************************************************)
(* Theorems about Enrichment, for any runs, distributors, parts, prices    *)
(* and days.  The argument is EnrichmentInv: a thread has answered every   *)
(* part before the one it is at, so a run that is joined without an        *)
(* exception has every answer; and an offer goes from the cache straight   *)
(* to the history of its own day, unless S3 fails in between.  That a run  *)
(* fails for a cause is read off the two steps that can fail it: a thread  *)
(* raises only when S3 may fail or a new release refuses what is cached,   *)
(* and a baseline is a snapshot at least Window days older than the offer. *)
(***************************************************************************)
EXTENDS Enrichment, WellFoundedInduction, TLAPS

USE EnrichmentAssumption DEF Mpns, Days

-----------------------------------------------------------------------------
(***************************************************************************)
(* The inductive invariant.                                                *)
(***************************************************************************)
AtWork == {"lookup", "boot", "login", "fetch", "put", "record"}

\* What a thread has answered, and what it carries.
WorkerOK(r, c) ==
    /\ worker[r][c].at \in {"put", "record"} => worker[r][c].offer \in Offer
    /\ worker[r][c].at \in AtWork =>
         \A m \in 1 .. worker[r][c].mpn - 1 : answers[r][c][m] # None
    /\ worker[r][c].at = "done" => \A m \in Mpns : answers[r][c][m] # None
    /\ worker[r][c].at = "raised" => Faulty
    /\ worker[r][c].at \in AtWork => phase[r] = "enriching"

\* Where the caller stands.
PhaseOK(r) ==
    /\ phase[r] \in {"waiting", "enriching"} => next[r] = 1
    /\ phase[r] = "merging" => next[r] \in Mpns
    /\ phase[r] \in {"merging", "done"} =>
         \A c \in Clients, m \in Mpns : answers[r][c][m] # None

\* The cache, while S3 works and the release stays.
Covered ==
    /\ HistoryCoversCache
    /\ \A c \in Clients, m \in Mpns : cache[c][m] # Garbled

EnrichmentInv ==
    /\ TypeOK
    /\ \A r \in Runs : PhaseOK(r) /\ \A c \in Clients : WorkerOK(r, c)
    /\ ~Faulty => Covered

-----------------------------------------------------------------------------
(***************************************************************************)
(* The price a week ago.                                                   *)
(***************************************************************************)
\* A set of naturals has a least element.
LEMMA LeastNatural ==
  ASSUME NEW S \in SUBSET Nat, S # {}
  PROVE  \E x \in S : \A y \in S : x <= y
<1> DEFINE R == OpToRel(<, Nat)
<1>1. IsWellFoundedOn(R, Nat)
  BY NatLessThanWellFounded
<1>2. \A x, y \in Nat : y < x => <<y, x>> \in R
  BY DEF OpToRel
<1> HIDE DEF R
<1>3. PICK x \in S : \A y \in S : <<y, x>> \notin R
  BY <1>1, WFMin
<1>4. \A y \in S : ~(y < x) /\ y \in Nat /\ x \in Nat
  BY <1>2, <1>3
<1> QED
  BY <1>4

\* So the snapshots that are old enough, if there are any, have a latest.
LEMMA LatestDay ==
  ASSUME NEW S \in SUBSET Days, S # {}
  PROVE  \E x \in S : \A y \in S : y <= x
<1> DEFINE T == {MaxDay - d : d \in S}
<1>0. MaxDay \in Nat /\ \A d \in S : d \in Nat /\ d <= MaxDay
  <2>1. \A d \in S : d \in 0 .. MaxDay
    OBVIOUS
  <2> QED
    BY <2>1
<1>1. T \in SUBSET Nat /\ T # {}
  <2>1. \A d \in S : MaxDay - d \in Nat
    BY <1>0
  <2>2. T \subseteq Nat
    BY <2>1
  <2>3. PICK d : d \in S
    OBVIOUS
  <2>4. MaxDay - d \in T
    BY <2>3
  <2> QED
    BY <2>2, <2>4
<1>2. PICK t \in T : \A u \in T : t <= u
  BY <1>1, LeastNatural
<1>3. PICK x \in S : t = MaxDay - x
  BY <1>2
<1>4. \A y \in S : t <= MaxDay - y
  BY <1>2
<1> QED
  BY <1>0, <1>3, <1>4

\* So a baseline is the snapshot of a day at least Window before the offer.
LEMMA BaselineIsOld ==
  ASSUME NEW c \in Clients, NEW m \in Mpns, NEW o \in Offer, NEW read \in SUBSET Days,
         Older(c, m, o, read) # {}
  PROVE  \E d \in Days : /\ Baseline(c, m, o, read) = snapshots[c][m][d]
                         /\ snapshots[c][m][d] # None /\ d + Window <= o.on
<1> DEFINE old == Older(c, m, o, read)
<1> DEFINE best == CHOOSE d \in old : \A e \in old : e <= d
<1>1. old \in SUBSET Days /\ old # {}
  BY DEF Older
<1>2. \E d \in old : \A e \in old : e <= d
  <2> HIDE DEF old
  <2> QED
    BY <1>1, LatestDay
<1>3. best \in old
  BY <1>2
<1>4. Baseline(c, m, o, read) = snapshots[c][m][best]
  BY DEF Baseline
<1> HIDE DEF best
<1>5. best \in Days /\ snapshots[c][m][best] # None /\ best <= o.on - Window
  BY <1>3 DEF Older
<1>6. o.on \in Int /\ Window \in Int /\ best \in Int
  BY <1>5 DEF Offer
<1> QED
  BY <1>4, <1>5, <1>6

\* The offer a line gets is one of the answers.
LEMMA CheapestIsAnOffer ==
  ASSUME NEW r \in Runs, NEW k \in Mpns, TypeOK, Priced(r, k) # {},
         \A c \in Clients : answers[r][c][k] # None
  PROVE  Cheapest(r, k) \in Clients /\ answers[r][Cheapest(r, k)][k] \in Offer
<1> DEFINE P == {answers[r][e][k].price : e \in Priced(r, k)}
<1>1. \A e \in Priced(r, k) : e \in Clients /\ answers[r][e][k].price \in Nat
  <2> SUFFICES ASSUME NEW e \in Priced(r, k)
               PROVE  e \in Clients /\ answers[r][e][k].price \in Nat
    OBVIOUS
  <2>1. e \in Clients /\ answers[r][e][k].price # NoPrice
    BY DEF Priced
  <2>2. answers[r][e][k] \in Offer
    BY <2>1 DEF TypeOK
  <2>3. answers[r][e][k].price \in Prices \cup {NoPrice}
    BY <2>2 DEF Offer
  <2> QED
    BY <2>1, <2>3
<1>2. P \in SUBSET Nat /\ P # {}
  BY <1>1
<1>3. PICK p \in P : \A q \in P : p <= q
  BY <1>2, LeastNatural
<1>4. PICK e \in Priced(r, k) : p = answers[r][e][k].price
  BY <1>3
<1>5. \A f \in Priced(r, k) : answers[r][e][k].price <= answers[r][f][k].price
  BY <1>3, <1>4
<1>6. Cheapest(r, k) \in Priced(r, k)
  BY <1>4, <1>5 DEF Cheapest
<1>7. PICK c \in Clients : c = Cheapest(r, k)
  BY <1>1, <1>6
<1>8. answers[r][c][k] \in Offer
  BY DEF TypeOK
<1> QED
  BY <1>7, <1>8

-----------------------------------------------------------------------------
(***************************************************************************)
(* Frames.                                                                 *)
(***************************************************************************)
\* A step of one thread leaves the others alone.
OnlyThread(r, c) ==
    \A s \in Runs, e \in Clients :
        <<s, e>> # <<r, c>> => worker'[s][e] = worker[s][e] /\ answers'[s][e] = answers[s][e]

\* It keeps the invariant if it keeps its own part of it, takes no answer
\* back, and the cache covered.
LEMMA ThreadFrame ==
  ASSUME NEW r \in Runs, NEW c \in Clients, EnrichmentInv, TypeOK', WorkerOK(r, c)',
         OnlyThread(r, c), UNCHANGED <<phase, next>>,
         worker[r][c].at \in AtWork,
         (~Faulty => Covered)'
  PROVE  EnrichmentInv'
<1>1. phase[r] = "enriching"
  BY DEF EnrichmentInv, WorkerOK
<1>2. ASSUME NEW s \in Runs, NEW e \in Clients PROVE WorkerOK(s, e)'
  <2>1. WorkerOK(s, e)
    BY DEF EnrichmentInv
  <2>2. CASE <<s, e>> # <<r, c>>
    BY <2>1, <2>2 DEF OnlyThread, WorkerOK
  <2> QED
    BY <2>2
<1>3. ASSUME NEW s \in Runs PROVE PhaseOK(s)'
  <2>1. PhaseOK(s)
    BY DEF EnrichmentInv
  <2>2. CASE s = r
    BY <1>1, <2>1, <2>2 DEF PhaseOK
  <2>3. CASE s # r
    BY <2>1, <2>3 DEF PhaseOK, OnlyThread
  <2> QED
    BY <2>2, <2>3
<1> QED
  BY <1>2, <1>3 DEF EnrichmentInv

\* The cache stays covered if it and the history are left alone, and a
\* thread that is about to write its snapshot is still about to.
LEMMA CoverFrame ==
  ASSUME Covered, UNCHANGED <<cache, snapshots>>,
         \A r \in Runs, c \in Clients : worker[r][c].at = "record" => worker'[r][c] = worker[r][c]
  PROVE  Covered'
BY DEF Covered, HistoryCoversCache, At, Mpn

\* What an answered part leads to.
LEMMA AppendStep ==
  ASSUME NEW r \in Runs, NEW c \in Clients, NEW o \in Offer, EnrichmentInv,
         worker[r][c].at \in AtWork, Append(r, c, o), UNCHANGED phase
  PROVE  /\ worker' \in [Runs -> [Clients -> [at: Steps, mpn: Mpns, offer: Offer \cup {None}]]]
         /\ answers' \in [Runs -> [Clients -> [Mpns -> Offer \cup {None}]]]
         /\ WorkerOK(r, c)' /\ OnlyThread(r, c)
         /\ worker'[r][c].at # "record"
<1> DEFINE m == worker[r][c].mpn
<1>1. TypeOK /\ WorkerOK(r, c) /\ phase[r] = "enriching"
  BY DEF EnrichmentInv, WorkerOK
<1>2. worker[r][c] \in [at: Steps, mpn: Mpns, offer: Offer \cup {None}] /\ m \in Mpns
  BY <1>1 DEF TypeOK
<1>3. /\ answers' = [answers EXCEPT ![r][c][m] = o]
      /\ worker' = [worker EXCEPT ![r][c] =
           IF m = NumMpns
           THEN [at |-> "done", mpn |-> NumMpns, offer |-> None]
           ELSE [at |-> "lookup", mpn |-> m + 1, offer |-> None]]
  BY DEF Append, Mpn
<1>4. worker' \in [Runs -> [Clients -> [at: Steps, mpn: Mpns, offer: Offer \cup {None}]]]
  BY <1>1, <1>2, <1>3 DEF TypeOK, Steps
<1>5. answers' \in [Runs -> [Clients -> [Mpns -> Offer \cup {None}]]]
  BY <1>1, <1>2, <1>3 DEF TypeOK
<1>6. OnlyThread(r, c)
  BY <1>1, <1>3 DEF OnlyThread, TypeOK
<1>7. \A k \in Mpns : answers'[r][c][k] = IF k = m THEN o ELSE answers[r][c][k]
  BY <1>1, <1>2, <1>3 DEF TypeOK
<1>8. \A k \in 1 .. m : answers'[r][c][k] # None
  BY <1>1, <1>2, <1>7 DEF WorkerOK
<1>9. CASE m = NumMpns
  <2>1. worker'[r][c].at = "done"
    BY <1>1, <1>3, <1>9 DEF TypeOK
  <2>2. WorkerOK(r, c)'
    BY <1>8, <1>9, <2>1 DEF WorkerOK, AtWork
  <2> QED
    BY <1>4, <1>5, <1>6, <2>1, <2>2
<1>10. CASE m # NumMpns
  <2>1. worker'[r][c].at = "lookup" /\ worker'[r][c].mpn = m + 1
    BY <1>1, <1>3, <1>10 DEF TypeOK
  <2>2. WorkerOK(r, c)'
    BY <1>1, <1>2, <1>8, <2>1 DEF WorkerOK, AtWork
  <2> QED
    BY <1>4, <1>5, <1>6, <2>1, <2>2
<1> QED
  BY <1>9, <1>10

\* A thread that moves on without an answer.
LEMMA MoveStep ==
  ASSUME NEW r \in Runs, NEW c \in Clients, NEW s \in AtWork \cup {"raised"},
         NEW o \in Offer \cup {None}, EnrichmentInv, worker[r][c].at \in AtWork,
         worker' = [worker EXCEPT ![r][c] = [at |-> s, mpn |-> worker[r][c].mpn, offer |-> o]],
         s \in {"put", "record"} => o \in Offer,
         s = "raised" => Faulty,
         UNCHANGED <<answers, phase>>
  PROVE  /\ worker' \in [Runs -> [Clients -> [at: Steps, mpn: Mpns, offer: Offer \cup {None}]]]
         /\ WorkerOK(r, c)' /\ OnlyThread(r, c)
         /\ worker'[r][c] = [at |-> s, mpn |-> worker[r][c].mpn, offer |-> o]
<1>1. TypeOK /\ WorkerOK(r, c)
  BY DEF EnrichmentInv
<1>2. worker[r][c].mpn \in Mpns
  BY <1>1 DEF TypeOK
<1>3. worker'[r][c] = [at |-> s, mpn |-> worker[r][c].mpn, offer |-> o]
  BY <1>1 DEF TypeOK
<1>4. worker' \in [Runs -> [Clients -> [at: Steps, mpn: Mpns, offer: Offer \cup {None}]]]
  BY <1>1, <1>2 DEF TypeOK, Steps, AtWork
<1>5. OnlyThread(r, c)
  BY <1>1 DEF OnlyThread, TypeOK
<1>6. WorkerOK(r, c)'
  BY <1>1, <1>3 DEF WorkerOK, AtWork
<1> QED
  BY <1>3, <1>4, <1>5, <1>6

-----------------------------------------------------------------------------
(***************************************************************************)
(* The steps of a thread.                                                  *)
(***************************************************************************)
\* A fresh offer in the cache is an answer.
LEMMA HitInv ==
  ASSUME NEW r \in Runs, NEW c \in Clients, EnrichmentInv, Hit(r, c)
  PROVE  EnrichmentInv'
<1>1. TypeOK /\ worker[r][c].at = "lookup" /\ Mpn(r, c) \in Mpns
  BY DEF EnrichmentInv, Hit, At, TypeOK, Mpn
<1>2. cache[c][Mpn(r, c)] \in Offer
  BY <1>1 DEF Hit, Fresh, TypeOK
<1>3. PICK o \in Offer : o = cache[c][Mpn(r, c)]
  BY <1>2
<1>4. Append(r, c, o) /\ UNCHANGED <<today, cache, snapshots, session, phase, next>>
  BY <1>3 DEF Hit, Append
<1>5. /\ worker' \in [Runs -> [Clients -> [at: Steps, mpn: Mpns, offer: Offer \cup {None}]]]
      /\ answers' \in [Runs -> [Clients -> [Mpns -> Offer \cup {None}]]]
      /\ WorkerOK(r, c)' /\ OnlyThread(r, c)
  BY <1>1, <1>4, AppendStep DEF AtWork
<1>6. TypeOK'
  BY <1>1, <1>4, <1>5 DEF TypeOK
<1>7. (~Faulty => Covered)'
  BY <1>1, <1>4, <1>5, CoverFrame DEF EnrichmentInv, OnlyThread
<1> QED
  BY <1>1, <1>4, <1>5, <1>6, <1>7, ThreadFrame DEF AtWork

\* The two ways a thread moves on, as a new record of it.
LEMMA GotoMoves ==
  ASSUME TypeOK, NEW r \in Runs, NEW c \in Clients, NEW s \in Steps, Goto(r, c, s)
  PROVE  worker' = [worker EXCEPT ![r][c] =
                      [at |-> s, mpn |-> worker[r][c].mpn, offer |-> worker[r][c].offer]]
<1>1. worker[r][c] \in [at: Steps, mpn: Mpns, offer: Offer \cup {None}]
  BY DEF TypeOK
<1>2. [worker[r][c] EXCEPT !.at = s]
        = [at |-> s, mpn |-> worker[r][c].mpn, offer |-> worker[r][c].offer]
  BY <1>1
<1>3. worker' = [worker EXCEPT ![r][c] = [worker[r][c] EXCEPT !.at = s]]
  BY <1>1 DEF Goto, TypeOK
<1> QED
  BY <1>2, <1>3

LEMMA FetchedMoves ==
  ASSUME TypeOK, NEW r \in Runs, NEW c \in Clients, NEW o \in Offer, Fetched(r, c, o)
  PROVE  worker' = [worker EXCEPT ![r][c] =
                      [at |-> "put", mpn |-> worker[r][c].mpn, offer |-> o]]
<1>1. worker[r][c] \in [at: Steps, mpn: Mpns, offer: Offer \cup {None}]
  BY DEF TypeOK
<1>2. [worker[r][c] EXCEPT !.at = "put", !.offer = o]
        = [at |-> "put", mpn |-> worker[r][c].mpn, offer |-> o]
  <2>1. PICK w : w = [worker[r][c] EXCEPT !.at = "put"]
    OBVIOUS
  <2>2. w = [at |-> "put", mpn |-> worker[r][c].mpn, offer |-> worker[r][c].offer]
    BY <1>1, <2>1
  <2>3. [w EXCEPT !.offer = o] = [at |-> "put", mpn |-> worker[r][c].mpn, offer |-> o]
    BY <2>2
  <2> QED
    BY <2>1, <2>3, Zenon
<1>3. worker' = [worker EXCEPT ![r][c] = [worker[r][c] EXCEPT !.at = "put", !.offer = o]]
  BY <1>1 DEF Fetched, TypeOK
<1> QED
  BY <1>2, <1>3

\* No answer, offer in S3 or snapshot is touched on the way.
LEMMA MoveInv ==
  ASSUME NEW r \in Runs, NEW c \in Clients, NEW s \in {"boot", "login", "fetch", "put", "raised"},
         NEW o \in Offer \cup {None}, EnrichmentInv, worker[r][c].at \in AtWork,
         worker' = [worker EXCEPT ![r][c] = [at |-> s, mpn |-> worker[r][c].mpn, offer |-> o]],
         s = "put" => o \in Offer,
         s = "raised" => Faulty,
         worker[r][c].at = "record" => Faulty,
         session' \in [Clients -> [page: Runs \cup {None}, loggedIn: BOOLEAN]],
         UNCHANGED <<today, cache, snapshots, phase, answers, next>>
  PROVE  EnrichmentInv'
<1>1. TypeOK
  BY DEF EnrichmentInv
<1>2. s \in AtWork \cup {"raised"} /\ s # "record"
  BY DEF AtWork
<1>3. /\ worker' \in [Runs -> [Clients -> [at: Steps, mpn: Mpns, offer: Offer \cup {None}]]]
      /\ WorkerOK(r, c)' /\ OnlyThread(r, c)
  BY <1>2, MoveStep
<1>4. TypeOK'
  BY <1>1, <1>3 DEF TypeOK
<1>5. (~Faulty => Covered)'
  <2> SUFFICES ASSUME ~Faulty PROVE Covered'
    OBVIOUS
  <2>1. Covered /\ worker[r][c].at # "record"
    BY DEF EnrichmentInv
  <2> QED
    BY <1>3, <2>1, CoverFrame DEF OnlyThread
<1> QED
  BY <1>3, <1>4, <1>5, ThreadFrame

\* Asking, logging in and what comes of it.
LEMMA AskInv ==
  ASSUME NEW r \in Runs, NEW c \in Clients, EnrichmentInv,
         \/ Unreadable(r, c) \/ Miss(r, c) \/ Boot(r, c) \/ Login(r, c)
         \/ Fetch(r, c) \/ Caught(r, c) \/ WriteFails(r, c)
  PROVE  EnrichmentInv'
<1>1. /\ TypeOK /\ worker[r][c] \in [at: Steps, mpn: Mpns, offer: Offer \cup {None}]
      /\ session \in [Clients -> [page: Runs \cup {None}, loggedIn: BOOLEAN]]
  BY DEF EnrichmentInv, TypeOK
<1>2. PICK p \in Offer \cup {None} : p = worker[r][c].offer
  BY <1>1
<1> DEFINE Moves(s, o) ==
      worker' = [worker EXCEPT ![r][c] = [at |-> s, mpn |-> worker[r][c].mpn, offer |-> o]]
<1>3. ASSUME NEW s \in Steps, Goto(r, c, s) PROVE Moves(s, p)
  BY <1>1, <1>2, <1>3, GotoMoves
<1>4. ASSUME NEW o \in Offer, Fetched(r, c, o) PROVE Moves("put", o)
  BY <1>1, <1>4, FetchedMoves
<1>5. CASE Miss(r, c)
  <2>1. PICK s \in {"fetch", "boot"} : Goto(r, c, s)
    BY <1>5 DEF Miss
  <2>2. Moves(s, p)
    BY <1>3, <2>1 DEF Steps
  <2>3. worker[r][c].at = "lookup" /\ UNCHANGED <<today, cache, snapshots, session, phase, answers, next>>
    BY <1>5 DEF Miss, At
  <2> QED
    BY <1>1, <2>2, <2>3, MoveInv DEF AtWork
<1>6. CASE Boot(r, c)
  <2>1. /\ worker[r][c].at = "boot" /\ Goto(r, c, "login")
        /\ UNCHANGED <<today, cache, snapshots, phase, answers, next>>
        /\ session' = [session EXCEPT ![c].page = r]
    BY <1>6 DEF Boot, At
  <2>2. Moves("login", p)
    BY <1>3, <2>1 DEF Steps
  <2>3. session' \in [Clients -> [page: Runs \cup {None}, loggedIn: BOOLEAN]]
    BY <1>1, <2>1
  <2> QED
    BY <2>1, <2>2, <2>3, MoveInv DEF AtWork
<1>7. CASE Login(r, c)
  <2>1. /\ worker[r][c].at = "login" /\ Goto(r, c, "fetch")
        /\ UNCHANGED <<today, cache, snapshots, phase, answers, next>>
        /\ session' = [session EXCEPT ![c].loggedIn = TRUE]
    BY <1>7 DEF Login, At
  <2>2. Moves("fetch", p)
    BY <1>3, <2>1 DEF Steps
  <2>3. session' \in [Clients -> [page: Runs \cup {None}, loggedIn: BOOLEAN]]
    BY <1>1, <2>1
  <2> QED
    BY <2>1, <2>2, <2>3, MoveInv DEF AtWork
<1>8. CASE Fetch(r, c)
  <2>1. PICK page \in Mpns \cup {Blank}, price \in Prices \cup {NoPrice} :
           Fetched(r, c, [on |-> today, price |-> price, page |-> page,
                          error |-> Ambiguous(Mpn(r, c), page)])
    BY <1>8 DEF Fetch
  <2>2. [on |-> today, price |-> price, page |-> page,
         error |-> Ambiguous(Mpn(r, c), page)] \in Offer
    BY <1>1 DEF Offer, Ambiguous, TypeOK
  <2>3. PICK o \in Offer : Fetched(r, c, o)
    BY <2>1, <2>2
  <2>4. Moves("put", o)
    BY <1>4, <2>3
  <2>5. worker[r][c].at = "fetch" /\ UNCHANGED <<today, cache, snapshots, session, phase, answers, next>>
    BY <1>8 DEF Fetch, At
  <2> QED
    BY <1>1, <2>4, <2>5, MoveInv DEF AtWork
<1>9. CASE Caught(r, c)
  <2>1. ErrorOffer \in Offer /\ Fetched(r, c, ErrorOffer)
    BY <1>1, <1>9 DEF Caught, ErrorOffer, Offer, TypeOK
  <2>2. PICK o \in Offer : Fetched(r, c, o)
    BY <2>1
  <2>3. Moves("put", o)
    BY <1>4, <2>2
  <2>4. /\ worker[r][c].at \in {"boot", "login", "fetch"}
        /\ UNCHANGED <<today, cache, snapshots, session, phase, answers, next>>
    BY <1>9 DEF Caught
  <2> QED
    BY <1>1, <2>3, <2>4, MoveInv DEF AtWork
<1>10. CASE WriteFails(r, c)
  <2>1. /\ Faulty /\ worker[r][c].at \in {"put", "record"} /\ Goto(r, c, "raised")
        /\ UNCHANGED <<today, cache, snapshots, session, phase, answers, next>>
    BY <1>10 DEF WriteFails, At
  <2>2. Moves("raised", p)
    BY <1>3, <2>1 DEF Steps
  <2> QED
    BY <1>1, <2>1, <2>2, MoveInv DEF AtWork
<1>11. CASE Unreadable(r, c)
  <2>1. /\ worker[r][c].at = "lookup" /\ Goto(r, c, "raised")
        /\ cache[c][worker[r][c].mpn] = Garbled
        /\ UNCHANGED <<today, cache, snapshots, session, phase, answers, next>>
    BY <1>11 DEF Unreadable, At, Mpn
  <2>2. Moves("raised", p)
    BY <1>3, <2>1 DEF Steps
  <2>3. Faulty
    <3>1. worker[r][c].mpn \in Mpns
      BY <1>1
    <3> QED
      BY <2>1, <3>1 DEF EnrichmentInv, Covered
  <2> QED
    BY <1>1, <2>1, <2>2, <2>3, MoveInv DEF AtWork
<1> QED
  BY <1>5, <1>6, <1>7, <1>8, <1>9, <1>10, <1>11

\* An offer without an error goes to the cache, and its thread to the history.
LEMMA PutInv ==
  ASSUME NEW r \in Runs, NEW c \in Clients, EnrichmentInv, Put(r, c)
  PROVE  EnrichmentInv'
<1> DEFINE m == worker[r][c].mpn
<1>1. /\ TypeOK /\ worker[r][c].at = "put" /\ worker[r][c].offer \in Offer
      /\ worker[r][c] \in [at: Steps, mpn: Mpns, offer: Offer \cup {None}] /\ m \in Mpns
  BY DEF EnrichmentInv, WorkerOK, Put, At, TypeOK
<1>2. UNCHANGED <<today, snapshots, session, phase, next>>
  BY DEF Put
<1>3. PICK o \in Offer : o = worker[r][c].offer
  BY <1>1
<1>4. CASE o.error
  <2>1. Append(r, c, o) /\ UNCHANGED cache
    BY <1>3, <1>4 DEF Put, Append
  <2>2. /\ worker' \in [Runs -> [Clients -> [at: Steps, mpn: Mpns, offer: Offer \cup {None}]]]
        /\ answers' \in [Runs -> [Clients -> [Mpns -> Offer \cup {None}]]]
        /\ WorkerOK(r, c)' /\ OnlyThread(r, c)
    BY <1>1, <1>2, <2>1, AppendStep DEF AtWork
  <2>3. TypeOK'
    BY <1>1, <1>2, <2>1, <2>2 DEF TypeOK
  <2>4. (~Faulty => Covered)'
    BY <1>1, <1>2, <2>1, <2>2, CoverFrame DEF EnrichmentInv, OnlyThread
  <2> QED
    BY <1>1, <1>2, <2>2, <2>3, <2>4, ThreadFrame DEF AtWork
<1>5. CASE ~o.error
  <2>1. /\ cache' = [cache EXCEPT ![c][m] = o]
        /\ Goto(r, c, "record") /\ UNCHANGED answers
    BY <1>3, <1>5 DEF Put, Mpn
  <2>2. worker' = [worker EXCEPT ![r][c] = [at |-> "record", mpn |-> m, offer |-> o]]
    <3>1. [worker[r][c] EXCEPT !.at = "record"] = [at |-> "record", mpn |-> m, offer |-> o]
      BY <1>1, <1>3
    <3>2. worker' = [worker EXCEPT ![r][c] = [worker[r][c] EXCEPT !.at = "record"]]
      BY <1>1, <2>1 DEF Goto, TypeOK
    <3> QED
      BY <3>1, <3>2
  <2>3. /\ worker' \in [Runs -> [Clients -> [at: Steps, mpn: Mpns, offer: Offer \cup {None}]]]
        /\ WorkerOK(r, c)' /\ OnlyThread(r, c)
        /\ worker'[r][c] = [at |-> "record", mpn |-> m, offer |-> o]
    <3>1. "record" \in AtWork \cup {"raised"} /\ worker[r][c].at \in AtWork /\ UNCHANGED <<answers, phase>>
      BY <1>1, <1>2, <2>1 DEF AtWork
    <3> QED
      BY <2>2, <3>1, MoveStep
  <2>4. TypeOK'
    BY <1>1, <1>2, <2>1, <2>3 DEF TypeOK
  <2>5. ASSUME Covered PROVE Covered'
    <3>0. \A e \in Clients, k \in Mpns : cache'[e][k] # Garbled
      BY <1>1, <2>1, <2>5 DEF TypeOK, Covered
    <3> SUFFICES ASSUME NEW e \in Clients, NEW k \in Mpns, cache'[e][k] \notin {Garbled, None}
                 PROVE  \/ snapshots'[e][k][cache'[e][k].on] # None
                        \/ \E s \in Runs : /\ worker'[s][e].at = "record" /\ worker'[s][e].mpn = k
                                           /\ worker'[s][e].offer.on = cache'[e][k].on
      BY <3>0 DEF Covered, HistoryCoversCache, At, Mpn
    <3>1. CASE e = c /\ k = m
      <4>1. cache'[e][k] = o
        BY <1>1, <2>1, <3>1 DEF TypeOK
      <4> QED
        BY <2>3, <3>1, <4>1
    <3>2. CASE ~(e = c /\ k = m)
      <4>1. cache'[e][k] = cache[e][k]
        BY <1>1, <2>1, <3>2 DEF TypeOK
      <4>2. \/ snapshots[e][k][cache[e][k].on] # None
            \/ \E s \in Runs : /\ worker[s][e].at = "record" /\ worker[s][e].mpn = k
                               /\ worker[s][e].offer.on = cache[e][k].on
        BY <2>5, <4>1 DEF Covered, HistoryCoversCache, At, Mpn
      <4>3. \A s \in Runs : worker[s][e].at = "record" => worker'[s][e] = worker[s][e]
        BY <1>1, <2>3 DEF OnlyThread
      <4> QED
        BY <1>2, <4>1, <4>2, <4>3
    <3> QED
      BY <3>1, <3>2
  <2> QED
    BY <1>1, <1>2, <2>3, <2>4, <2>5, ThreadFrame DEF AtWork, EnrichmentInv
<1> QED
  BY <1>4, <1>5

\* The snapshot of the offer's day.
LEMMA RecordInv ==
  ASSUME NEW r \in Runs, NEW c \in Clients, EnrichmentInv, Record(r, c)
  PROVE  EnrichmentInv'
<1> DEFINE m == worker[r][c].mpn
<1>1. TypeOK /\ worker[r][c].at = "record" /\ worker[r][c].offer \in Offer /\ m \in Mpns
  BY DEF EnrichmentInv, WorkerOK, Record, At, TypeOK
<1>2. PICK o \in Offer : o = worker[r][c].offer
  BY <1>1
<1>3. /\ snapshots' = [snapshots EXCEPT ![c][m][o.on] = o]
      /\ Append(r, c, o) /\ UNCHANGED <<today, cache, session, phase, next>>
  BY <1>2 DEF Record, Append, Mpn
<1>4. /\ worker' \in [Runs -> [Clients -> [at: Steps, mpn: Mpns, offer: Offer \cup {None}]]]
      /\ answers' \in [Runs -> [Clients -> [Mpns -> Offer \cup {None}]]]
      /\ WorkerOK(r, c)' /\ OnlyThread(r, c)
  BY <1>1, <1>3, AppendStep DEF AtWork
<1>5. o.on \in Days /\ o # None
  BY DEF Offer
<1>6. snapshots' \in [Clients -> [Mpns -> [Days -> Offer \cup {None}]]]
  BY <1>1, <1>3, <1>5 DEF TypeOK
<1>7. TypeOK'
  BY <1>1, <1>3, <1>4, <1>6 DEF TypeOK
<1>8. ASSUME Covered PROVE Covered'
  <2> SUFFICES ASSUME NEW e \in Clients, NEW k \in Mpns, cache[e][k] \notin {Garbled, None}
               PROVE  \/ snapshots'[e][k][cache[e][k].on] # None
                      \/ \E s \in Runs : /\ worker'[s][e].at = "record" /\ worker'[s][e].mpn = k
                                         /\ worker'[s][e].offer.on = cache[e][k].on
    BY <1>3, <1>8 DEF Covered, HistoryCoversCache, At, Mpn
  <2>1. cache[e][k].on \in Days
    BY <1>1 DEF TypeOK, Offer
  <2>2. snapshots[e][k][cache[e][k].on] # None => snapshots'[e][k][cache[e][k].on] # None
    BY <1>1, <1>3, <1>5, <2>1 DEF TypeOK
  <2>3. ASSUME NEW s \in Runs, worker[s][e].at = "record", worker[s][e].mpn = k,
               worker[s][e].offer.on = cache[e][k].on
        PROVE  \/ snapshots'[e][k][cache[e][k].on] # None
               \/ /\ worker'[s][e].at = "record" /\ worker'[s][e].mpn = k
                  /\ worker'[s][e].offer.on = cache[e][k].on
    <3>1. CASE s = r /\ e = c
      <4>1. cache[e][k].on = o.on /\ k = m
        BY <1>2, <2>3, <3>1
      <4>2. snapshots'[c][m][o.on] = o
        BY <1>1, <1>3, <1>5 DEF TypeOK
      <4> QED
        BY <1>5, <3>1, <4>1, <4>2
    <3>2. CASE ~(s = r /\ e = c)
      <4>1. worker'[s][e] = worker[s][e]
        BY <1>4, <3>2 DEF OnlyThread
      <4> QED
        BY <2>3, <4>1
    <3> QED
      BY <3>1, <3>2
  <2> QED
    BY <1>8, <2>2, <2>3 DEF Covered, HistoryCoversCache, At, Mpn
<1> QED
  BY <1>1, <1>3, <1>4, <1>7, <1>8, ThreadFrame DEF AtWork, EnrichmentInv
-----------------------------------------------------------------------------
(***************************************************************************)
(* The steps of attach_offers, the clock and a restart.                    *)
(***************************************************************************)
\* The threads start at the first part.
LEMMA BeginInv ==
  ASSUME NEW r \in Runs, EnrichmentInv, Begin(r)
  PROVE  EnrichmentInv'
<1>1. TypeOK /\ phase[r] = "waiting" /\ UNCHANGED <<today, cache, snapshots, session, answers, next>>
  BY DEF EnrichmentInv, Begin
<1>2. /\ phase' = [phase EXCEPT ![r] = "enriching"]
      /\ worker' = [worker EXCEPT ![r] =
                      [c \in Clients |-> [at |-> "lookup", mpn |-> 1, offer |-> None]]]
  <2>1. [Idle EXCEPT !.at = "lookup"] = [at |-> "lookup", mpn |-> 1, offer |-> None]
    BY DEF Idle
  <2> QED
    BY <2>1 DEF Begin
<1>3. TypeOK'
  BY <1>1, <1>2 DEF TypeOK, Phases, Steps
<1>4. ASSUME NEW s \in Runs, s # r PROVE phase'[s] = phase[s] /\ worker'[s] = worker[s]
  BY <1>1, <1>2, <1>4 DEF TypeOK
<1>5. /\ phase'[r] = "enriching"
      /\ \A c \in Clients : worker'[r][c] = [at |-> "lookup", mpn |-> 1, offer |-> None]
  BY <1>1, <1>2 DEF TypeOK
<1>6. ASSUME NEW s \in Runs PROVE PhaseOK(s)'
  <2>1. PhaseOK(s)
    BY DEF EnrichmentInv
  <2> QED
    BY <1>1, <1>4, <1>5, <2>1 DEF PhaseOK
<1>7. ASSUME NEW s \in Runs, NEW c \in Clients PROVE WorkerOK(s, c)'
  <2>1. WorkerOK(s, c)
    BY DEF EnrichmentInv
  <2>2. CASE s = r
    BY <1>5, <2>2 DEF WorkerOK, AtWork
  <2>3. CASE s # r
    BY <1>1, <1>4, <2>1, <2>3 DEF WorkerOK
  <2> QED
    BY <2>2, <2>3
<1>8. ASSUME ~Faulty PROVE Covered'
  <2>1. Covered
    BY <1>8 DEF EnrichmentInv
  <2>2. \A c \in Clients : WorkerOK(r, c)
    BY DEF EnrichmentInv
  <2>3. \A c \in Clients : worker[r][c].at # "record"
    BY <1>1, <2>2 DEF WorkerOK, AtWork
  <2>4. \A s \in Runs, c \in Clients : worker[s][c].at = "record" => worker'[s][c] = worker[s][c]
    BY <1>4, <2>3
  <2> QED
    BY <1>1, <2>1, <2>4, CoverFrame
<1> QED
  BY <1>3, <1>6, <1>7, <1>8 DEF EnrichmentInv

\* Steps that leave the threads and S3 alone keep the cache covered.
LEMMA QuietCover ==
  ASSUME EnrichmentInv, UNCHANGED <<cache, snapshots, worker>>
  PROVE  (~Faulty => Covered)'
BY CoverFrame DEF EnrichmentInv

\* Joined without an exception, every thread has answered every part.
LEMMA JoinInv ==
  ASSUME NEW r \in Runs, EnrichmentInv, Join(r)
  PROVE  EnrichmentInv'
<1>1. /\ TypeOK /\ phase[r] = "enriching"
      /\ UNCHANGED <<today, cache, snapshots, session, worker, answers, next>>
      /\ \A c \in Clients : worker[r][c].at \in {"done", "raised"}
  BY DEF EnrichmentInv, Join
<1>2. phase' = [phase EXCEPT ![r] = IF \E c \in Clients : worker[r][c].at = "raised"
                                    THEN "failed" ELSE "merging"]
  BY DEF Join, At
<1>3. TypeOK'
  BY <1>1, <1>2 DEF TypeOK, Phases
<1>4. \A s \in Runs : s # r => phase'[s] = phase[s]
  BY <1>1, <1>2 DEF TypeOK
<1>5. \A c \in Clients : WorkerOK(r, c)
  BY DEF EnrichmentInv
<1>6. phase'[r] = IF \E c \in Clients : worker[r][c].at = "raised" THEN "failed" ELSE "merging"
  BY <1>1, <1>2 DEF TypeOK
<1>7. ASSUME NEW s \in Runs PROVE PhaseOK(s)'
  <2>1. PhaseOK(s)
    BY DEF EnrichmentInv
  <2>2. CASE s # r
    BY <1>1, <1>4, <2>1, <2>2 DEF PhaseOK
  <2>3. CASE s = r /\ \E c \in Clients : worker[r][c].at = "raised"
    BY <1>5, <1>6, <2>3 DEF PhaseOK, WorkerOK
  <2>4. CASE s = r /\ ~ \E c \in Clients : worker[r][c].at = "raised"
    <3>1. phase'[r] = "merging" /\ \A c \in Clients : worker[r][c].at = "done"
      BY <1>1, <1>6, <2>4
    <3>2. \A c \in Clients, m \in Mpns : answers[r][c][m] # None
      BY <1>5, <3>1 DEF WorkerOK
    <3>3. next[r] = 1 /\ 1 \in Mpns
      BY <1>1, <2>1, <2>4 DEF PhaseOK
    <3> QED
      BY <1>1, <2>4, <3>1, <3>2, <3>3 DEF PhaseOK
  <2> QED
    BY <2>2, <2>3, <2>4
<1>8. ASSUME NEW s \in Runs, NEW c \in Clients PROVE WorkerOK(s, c)'
  <2>1. WorkerOK(s, c)
    BY DEF EnrichmentInv
  <2>2. worker[s][c].at \in AtWork => s # r
    BY <1>1 DEF AtWork
  <2> QED
    BY <1>1, <1>4, <2>1, <2>2 DEF WorkerOK
<1> QED
  BY <1>1, <1>3, <1>7, <1>8, QuietCover DEF EnrichmentInv

\* A part is merged, or the price change divides by zero.
LEMMA MergeInv ==
  ASSUME NEW r \in Runs, EnrichmentInv, Merge(r)
  PROVE  EnrichmentInv'
<1>1. /\ TypeOK /\ phase[r] = "merging" /\ PhaseOK(r)
      /\ UNCHANGED <<today, cache, snapshots, session, worker, answers>>
  BY DEF EnrichmentInv, Merge
<1>2. next[r] \in Mpns /\ \A c \in Clients, m \in Mpns : answers[r][c][m] # None
  BY <1>1 DEF PhaseOK
<1>3. PICK k \in Mpns : k = next[r]
  BY <1>2
<1>4. \/ phase' = [phase EXCEPT ![r] = "failed"] /\ UNCHANGED next
      \/ /\ next' = [next EXCEPT ![r] = k + 1]
         /\ phase' = [phase EXCEPT ![r] = IF k = NumMpns THEN "done" ELSE "merging"]
  BY <1>1, <1>3 DEF Merge, TypeOK
<1>5. TypeOK'
  <2>1. next' \in [Runs -> 1 .. NumMpns + 1]
    <3>1. next \in [Runs -> 1 .. NumMpns + 1] /\ k + 1 \in 1 .. NumMpns + 1
      BY <1>1 DEF TypeOK
    <3>2. next' = next \/ next' = [next EXCEPT ![r] = k + 1]
      BY <1>4
    <3> QED
      BY <3>1, <3>2, Zenon
  <2>2. phase' \in [Runs -> Phases]
    BY <1>1, <1>4 DEF TypeOK, Phases
  <2> QED
    BY <1>1, <2>1, <2>2 DEF TypeOK
<1>6. \A s \in Runs : s # r => phase'[s] = phase[s] /\ next'[s] = next[s]
  BY <1>1, <1>4 DEF TypeOK
<1>7. \/ phase'[r] \in {"failed", "done"}
      \/ phase'[r] = "merging" /\ next'[r] = k + 1 /\ k # NumMpns
  BY <1>1, <1>4 DEF TypeOK
<1>8. ASSUME NEW s \in Runs PROVE PhaseOK(s)'
  <2>1. PhaseOK(s)
    BY DEF EnrichmentInv
  <2>2. CASE s # r
    BY <1>1, <1>6, <2>1, <2>2 DEF PhaseOK
  <2>3. CASE s = r
    <3>1. CASE phase'[r] = "merging" /\ next'[r] = k + 1 /\ k # NumMpns
      <4>1. next'[r] \in Mpns
        BY <3>1
      <4> QED
        BY <1>1, <1>2, <2>3, <3>1, <4>1 DEF PhaseOK
    <3>2. CASE phase'[r] \in {"failed", "done"}
      BY <1>1, <1>2, <2>3, <3>2 DEF PhaseOK
    <3> QED
      BY <1>7, <3>1, <3>2
  <2> QED
    BY <2>2, <2>3
<1>9. ASSUME NEW s \in Runs, NEW c \in Clients PROVE WorkerOK(s, c)'
  <2>1. WorkerOK(s, c)
    BY DEF EnrichmentInv
  <2>2. worker[s][c].at \in AtWork => s # r
    BY <1>1, <2>1 DEF WorkerOK
  <2> QED
    BY <1>1, <1>6, <2>1, <2>2 DEF WorkerOK
<1> QED
  BY <1>1, <1>5, <1>8, <1>9, QuietCover DEF EnrichmentInv

\* A day passes.
LEMMA MidnightInv ==
  ASSUME EnrichmentInv, Midnight
  PROVE  EnrichmentInv'
<1>1. TypeOK /\ UNCHANGED <<cache, snapshots, session, phase, worker, answers, next>>
  BY DEF EnrichmentInv, Midnight
<1>2. today' \in Days
  BY <1>1 DEF Midnight, TypeOK
<1>3. TypeOK'
  BY <1>1, <1>2 DEF TypeOK
<1>4. \A r \in Runs : PhaseOK(r)' /\ \A c \in Clients : WorkerOK(r, c)'
  BY <1>1 DEF EnrichmentInv, PhaseOK, WorkerOK
<1> QED
  BY <1>1, <1>3, <1>4, QuietCover DEF EnrichmentInv

\* A restart takes the threads, and nothing they have not done is owed.
LEMMA RestartInv ==
  ASSUME EnrichmentInv, Restart
  PROVE  EnrichmentInv'
<1>1. /\ TypeOK /\ Faulty /\ UNCHANGED <<today, snapshots, answers, next>>
      /\ cache' \in [Clients -> [Mpns -> Offer \cup {Garbled, None}]]
  <2>1. PICK refuses \in BOOLEAN :
          cache' = [c \in Clients |-> [m \in Mpns |->
                      IF refuses /\ cache[c][m] # None THEN Garbled ELSE cache[c][m]]]
    BY DEF Restart
  <2>2. TypeOK /\ Faulty /\ UNCHANGED <<today, snapshots, answers, next>>
    BY DEF EnrichmentInv, Restart
  <2> QED
    BY <2>1, <2>2 DEF TypeOK
<1>2. /\ session' = [c \in Clients |-> [page |-> None, loggedIn |-> FALSE]]
      /\ phase' = [r \in Runs |-> IF phase[r] \in {"enriching", "merging"}
                                  THEN "lost" ELSE phase[r]]
      /\ worker' = [r \in Runs |-> [c \in Clients |-> [at |-> "idle", mpn |-> 1, offer |-> None]]]
  BY DEF Restart, NoSession, Idle
<1>3. TypeOK'
  BY <1>1, <1>2 DEF TypeOK, Phases, Steps
<1>4. ASSUME NEW r \in Runs, NEW c \in Clients PROVE WorkerOK(r, c)'
  BY <1>2 DEF WorkerOK, AtWork
<1>5. ASSUME NEW r \in Runs PROVE PhaseOK(r)'
  <2>1. PhaseOK(r)
    BY DEF EnrichmentInv
  <2> QED
    BY <1>1, <1>2, <2>1 DEF PhaseOK
<1> QED
  BY <1>1, <1>3, <1>4, <1>5 DEF EnrichmentInv

-----------------------------------------------------------------------------
LEMMA InitInv == Init => EnrichmentInv
<1> SUFFICES ASSUME Init PROVE EnrichmentInv
  OBVIOUS
<1>1. TypeOK
  BY DEF Init, TypeOK, NoAnswers, NoSession, Idle, Phases, Steps
<1>2. Covered
  BY DEF Init, NoAnswers, Covered, HistoryCoversCache
<1>3. \A r \in Runs : PhaseOK(r) /\ \A c \in Clients : WorkerOK(r, c)
  BY DEF Init, PhaseOK, WorkerOK, Idle, AtWork
<1> QED
  BY <1>1, <1>2, <1>3 DEF EnrichmentInv

LEMMA NextInv == EnrichmentInv /\ [Next]_vars => EnrichmentInv'
<1> SUFFICES ASSUME EnrichmentInv, [Next]_vars PROVE EnrichmentInv'
  OBVIOUS
<1>1. ASSUME NEW r \in Runs, Begin(r) \/ Join(r) \/ Merge(r) PROVE EnrichmentInv'
  BY <1>1, BeginInv, JoinInv, MergeInv
<1>2. ASSUME NEW r \in Runs, NEW c \in Clients, Thread(r, c) PROVE EnrichmentInv'
  BY <1>2, HitInv, AskInv, PutInv, RecordInv DEF Thread
<1>3. CASE UNCHANGED vars
  <2>1. UNCHANGED <<today, cache, snapshots, session, phase, worker, answers, next>>
    BY <1>3 DEF vars
  <2>2. TypeOK'
    BY <2>1 DEF EnrichmentInv, TypeOK
  <2>3. \A r \in Runs : PhaseOK(r)' /\ \A c \in Clients : WorkerOK(r, c)'
    BY <2>1 DEF EnrichmentInv, PhaseOK, WorkerOK
  <2> QED
    BY <2>1, <2>2, <2>3, QuietCover DEF EnrichmentInv
<1> QED
  BY <1>1, <1>2, <1>3, MidnightInv, RestartInv DEF Next

-----------------------------------------------------------------------------
(***************************************************************************)
(* The theorems.                                                           *)
(***************************************************************************)
\* The invariant, for any number of runs, distributors, parts and days, with
\* or without S3 failures and restarts.
THEOREM Invariance == Spec => []EnrichmentInv
<1> QED
  BY InitInv, NextInv, PTL DEF Spec

\* The variables keep their types: no thread runs past the last part, no
\* offer in S3 lies outside the days of the clock.
THEOREM TypeCorrect == Spec => []TypeOK
<1>1. EnrichmentInv => TypeOK
  BY DEF EnrichmentInv
<1> QED
  BY <1>1, Invariance, PTL

\* A run that got through has every distributor's answer for every part.
THEOREM NoPartForgotten == Spec => []EveryPartAnswered
<1>1. EnrichmentInv => EveryPartAnswered
  BY DEF EnrichmentInv, PhaseOK, EveryPartAnswered
<1> QED
  BY <1>1, Invariance, PTL

\* A run fails only by S3, by a release that refuses what is cached, or by a
\* snapshot at a price of zero that is old enough to be compared with:
\* nothing else a portal does, and no takeover of the shared session.
THEOREM DegradesGracefully == Spec => FailsForCause
<1> DEFINE Cause(r) ==
      \/ Faulty /\ \E c \in Clients : At(r, c, "raised")
      \/ \E c \in Clients, d \in Days :
            LET m == next[r] IN
            /\ snapshots[c][m][d] # None /\ snapshots[c][m][d].price = 0
            /\ d + Window <= answers[r][c][m].on
<1>1. ASSUME EnrichmentInv, [Next]_vars, NEW r \in Runs, phase[r] # "failed", phase'[r] = "failed"
      PROVE  Cause(r)
  <2>1. TypeOK
    BY <1>1 DEF EnrichmentInv
  <2>2. Join(r) \/ Merge(r)
    <3>1. CASE UNCHANGED vars
      BY <1>1, <3>1 DEF vars
    <3>2. CASE Midnight
      BY <1>1, <3>2 DEF Midnight
    <3>3. CASE Restart
      BY <1>1, <3>3 DEF Restart
    <3>4. ASSUME NEW s \in Runs, NEW c \in Clients, Thread(s, c) PROVE FALSE
      BY <1>1, <3>4 DEF Thread, Hit, Unreadable, Miss, Boot, Login, Fetch, Caught, Put,
                        Record, WriteFails
    <3>5. ASSUME NEW s \in Runs, Begin(s) PROVE FALSE
      BY <1>1, <2>1, <3>5 DEF Begin, TypeOK
    <3>6. ASSUME NEW s \in Runs, Join(s) \/ Merge(s) PROVE s = r
      <4>1. \E p : phase' = [phase EXCEPT ![s] = p]
        BY <3>6 DEF Join, Merge
      <4> QED
        BY <1>1, <2>1, <4>1 DEF TypeOK
    <3> QED
      BY <1>1, <3>1, <3>2, <3>3, <3>4, <3>5, <3>6 DEF Next
  <2>3. CASE Join(r)
    <3>1. \E c \in Clients : At(r, c, "raised")
      BY <1>1, <2>1, <2>3 DEF Join, TypeOK
    <3>2. \A c \in Clients : WorkerOK(r, c)
      BY <1>1 DEF EnrichmentInv
    <3> QED
      BY <3>1, <3>2 DEF WorkerOK, At
  <2>4. CASE Merge(r)
    <3>1. PhaseOK(r) /\ phase[r] = "merging"
      BY <1>1, <2>4 DEF EnrichmentInv, Merge
    <3>2. PICK k \in Mpns : k = next[r]
      BY <3>1 DEF PhaseOK
    <3>3. \A c \in Clients : answers[r][c][k] # None
      BY <3>1 DEF PhaseOK
    <3>4. PICK read \in Readable : DividesByZero(r, k, read)
      BY <1>1, <2>1, <2>4, <3>1, <3>2 DEF Merge, TypeOK
    <3>5. read \in SUBSET Days
      BY DEF Readable
    <3>6. PICK c : c = Cheapest(r, k)
      OBVIOUS
    <3>7. /\ Priced(r, k) # {} /\ Older(c, k, answers[r][c][k], read) # {}
          /\ Baseline(c, k, answers[r][c][k], read).price = 0
      BY <3>4, <3>6 DEF DividesByZero
    <3>8. c \in Clients /\ answers[r][c][k] \in Offer
      BY <2>1, <3>3, <3>6, <3>7, CheapestIsAnOffer
    <3>9. PICK d \in Days : /\ Baseline(c, k, answers[r][c][k], read) = snapshots[c][k][d]
                            /\ snapshots[c][k][d] # None
                            /\ d + Window <= answers[r][c][k].on
      BY <3>5, <3>7, <3>8, BaselineIsOld
    <3> QED
      BY <3>2, <3>7, <3>8, <3>9
  <2> QED
    BY <2>2, <2>3, <2>4
<1>2. EnrichmentInv /\ [Next]_vars =>
        [\A r \in Runs : phase[r] # "failed" /\ phase'[r] = "failed" => Cause(r)]_vars
  BY <1>1
<1> QED
  BY <1>2, Invariance, PTL DEF Spec, FailsForCause

\* While S3 takes the writes, the history covers the cache, however the
\* threads of several runs interleave between the two writes.
THEOREM NoGapInHistory == ~Faulty => (Spec => []HistoryCoversCache)
<1> SUFFICES ASSUME ~Faulty PROVE Spec => []HistoryCoversCache
  OBVIOUS
<1>1. EnrichmentInv => HistoryCoversCache
  BY DEF EnrichmentInv, Covered
<1> QED
  BY <1>1, Invariance, PTL
=============================================================================
