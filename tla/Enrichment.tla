----------------------------- MODULE Enrichment -----------------------------
(***************************************************************************)
(* Distributor offers for the catalog parts of a BOM: EnrichmentService,   *)
(* the S3 offer cache and offer history, and the GraybarClient session.    *)
(*                                                                         *)
(* The client objects, the cache and the history are built once for the    *)
(* process; every pipeline run calls `enrich` on them from its own worker  *)
(* thread, and `enrich` starts one more thread per client.  What the       *)
(* distributors' pages say, and whether they can be reached, is chosen     *)
(* anew at every fetch.  Days stand for timestamps: the cache keeps an     *)
(* offer Ttl days, the history has one snapshot per day.                   *)
(***************************************************************************)
EXTENDS Integers

CONSTANTS
    Runs,       \* pipeline runs that enrich their BOM
    Clients,    \* distributor clients with credentials in the environment
    NumMpns,    \* catalog part numbers of the BOM, sorted: 1 .. NumMpns
    Prices,     \* what a page may show as data-price, in dollars
    NoPrice,    \* no price, or one that is not a number
    Blank,      \* a page without a data-mpn element
    Similar,    \* part number -> products that pass for it on its page
    Ttl,        \* days an offer is fresh (7)
    Window,     \* days back to the price it is compared with (7)
    MaxDay,     \* bound on the clock
    Faulty,     \* S3 may fail, the process may restart, with another release
    Garbled,    \* a cached entry that the schema of this release refuses
    None

Mpns == 1 .. NumMpns
Days == 0 .. MaxDay
Offer == [on: Days,                         \* refreshed_at
          price: Prices \cup {NoPrice},
          page: Mpns \cup {Blank},          \* the product it was read from
          error: BOOLEAN]

ASSUME EnrichmentAssumption ==
    /\ NumMpns \in Nat \ {0}
    /\ Prices \subseteq Nat /\ NoPrice \notin Nat
    /\ Similar \in [Mpns -> SUBSET Mpns]
    /\ Blank \notin Mpns
    /\ Ttl \in Nat /\ Window \in Nat \ {0} /\ MaxDay \in Nat
    /\ Faulty \in BOOLEAN
    /\ None \notin Offer \cup Runs /\ Garbled \notin Offer \cup {None}

VARIABLES
    today,      \* the clock
    cache,      \* S3: client -> part -> the cached offer, Garbled, or None
    snapshots,  \* S3: client -> part -> day -> the offer of that day, or None
    session,    \* client -> [page: the run whose thread opened it, loggedIn]
    phase,      \* run -> where attach_offers stands
    worker,     \* run -> client -> [at, mpn, offer]: its thread in `enrich`
    answers,    \* run -> client -> part -> offer, or None
    next        \* run -> the part attach_offers is at, once enriched

vars == <<today, cache, snapshots, session, phase, worker, answers, next>>

Phases == {"waiting", "enriching", "merging", "done", "failed", "lost"}
Steps == {"idle", "lookup", "boot", "login", "fetch", "put", "record",
          "done", "raised"}

TypeOK ==
    /\ today \in Days
    /\ cache \in [Clients -> [Mpns -> Offer \cup {Garbled, None}]]
    /\ snapshots \in [Clients -> [Mpns -> [Days -> Offer \cup {None}]]]
    /\ session \in [Clients -> [page: Runs \cup {None}, loggedIn: BOOLEAN]]
    /\ phase \in [Runs -> Phases]
    /\ worker \in [Runs -> [Clients ->
                     [at: Steps, mpn: Mpns, offer: Offer \cup {None}]]]
    /\ answers \in [Runs -> [Clients -> [Mpns -> Offer \cup {None}]]]
    /\ next \in [Runs -> 1 .. NumMpns + 1]

Idle == [at |-> "idle", mpn |-> 1, offer |-> None]
NoSession == [page |-> None, loggedIn |-> FALSE]
NoAnswers == [c \in Clients |-> [m \in Mpns |-> None]]

Init ==
    /\ today = 0
    /\ cache = NoAnswers
    /\ snapshots = [c \in Clients |-> [m \in Mpns |-> [d \in Days |-> None]]]
    /\ session = [c \in Clients |-> NoSession]
    /\ phase = [r \in Runs |-> "waiting"]
    /\ worker = [r \in Runs |-> [c \in Clients |-> Idle]]
    /\ answers = [r \in Runs |-> NoAnswers]
    /\ next = [r \in Runs |-> 1]

-----------------------------------------------------------------------------
(***************************************************************************)
(* One thread of `enrich`: client c, for run r, part by part.              *)
(***************************************************************************)
Mpn(r, c) == worker[r][c].mpn
At(r, c, s) == worker[r][c].at = s
Goto(r, c, s) == worker' = [worker EXCEPT ![r][c].at = s]

\* A fetched offer, on its way to the cache.
Fetched(r, c, o) ==
    worker' = [worker EXCEPT ![r][c].at = "put", ![r][c].offer = o]

\* Mutated: the loop runs one part too far.
AppendPastLast(r, c, o) ==
    /\ answers' = [answers EXCEPT ![r][c][Mpn(r, c)] = o]
    /\ worker' = [worker EXCEPT ![r][c] =
         IF Mpn(r, c) > NumMpns
         THEN [at |-> "done", mpn |-> NumMpns, offer |-> None]
         ELSE [at |-> "lookup", mpn |-> Mpn(r, c) + 1, offer |-> None]]

\* results.append(o), then the next part of the list.
Append(r, c, o) ==
    /\ answers' = [answers EXCEPT ![r][c][Mpn(r, c)] = o]
    /\ worker' = [worker EXCEPT ![r][c] =
         IF Mpn(r, c) = NumMpns
         THEN [at |-> "done", mpn |-> NumMpns, offer |-> None]
         ELSE [at |-> "lookup", mpn |-> Mpn(r, c) + 1, offer |-> None]]

\* An offer without data, for a fetch that went wrong.
ErrorOffer == [on |-> today, price |-> NoPrice, page |-> Blank, error |-> TRUE]

\* The page is taken for another product's unless its data-mpn is part of
\* the number asked for or the other way round; a missing one is the empty
\* string, which is part of every number.
Ambiguous(m, page) == page \notin Similar[m] \cup {Blank}

Fresh(o) == o \notin {Garbled, None} /\ today - o.on <= Ttl

\* The cache has a fresh offer: no request to the distributor.
Hit(r, c) ==
    /\ At(r, c, "lookup")
    /\ Fresh(cache[c][Mpn(r, c)])
    /\ Append(r, c, cache[c][Mpn(r, c)])
    /\ UNCHANGED <<today, cache, snapshots, session, phase, next>>

\* An entry that is there but does not validate: the exception leaves the
\* thread, for only the reading of the object is guarded.
Unreadable(r, c) ==
    /\ At(r, c, "lookup")
    /\ cache[c][Mpn(r, c)] = Garbled
    /\ Goto(r, c, "raised")
    /\ UNCHANGED <<today, cache, snapshots, session, phase, answers, next>>

\* No offer, an old one, or S3 cannot be read: the client has to ask.
Miss(r, c) ==
    /\ At(r, c, "lookup")
    /\ Goto(r, c, IF session[c].loggedIn THEN "fetch" ELSE "boot")
    /\ UNCHANGED <<today, cache, snapshots, session, phase, answers, next>>

\* _ensure_logged_in, first half: Chromium is launched and self._page set,
\* over whatever another thread has put there since.
Boot(r, c) ==
    /\ At(r, c, "boot")
    /\ session' = [session EXCEPT ![c].page = r]
    /\ Goto(r, c, "login")
    /\ UNCHANGED <<today, cache, snapshots, phase, answers, next>>

\* Second half: the login form on self._page, which only the thread that
\* opened the page can drive (Playwright's synchronous API).
Login(r, c) ==
    /\ At(r, c, "login")
    /\ session[c].page = r
    /\ session' = [session EXCEPT ![c].loggedIn = TRUE]
    /\ Goto(r, c, "fetch")
    /\ UNCHANGED <<today, cache, snapshots, phase, answers, next>>

\* The search, the first product found, and what its page says.
Fetch(r, c) ==
    /\ At(r, c, "fetch")
    /\ session[c].page = r
    /\ \E page \in Mpns \cup {Blank}, price \in Prices \cup {NoPrice} :
         Fetched(r, c, [on |-> today, price |-> price, page |-> page,
                        error |-> Ambiguous(Mpn(r, c), page)])
    /\ UNCHANGED <<today, cache, snapshots, session, phase, answers, next>>

\* Mutated: what the portal raises leaves the thread.
CaughtByNobody(r, c) ==
    /\ worker[r][c].at \in {"boot", "login", "fetch"}
    /\ Goto(r, c, "raised")
    /\ UNCHANGED <<today, cache, snapshots, session, phase, answers, next>>

\* Anything raised on the way, a timeout or another thread's page: caught,
\* and answered by an offer that says so.
Caught(r, c) ==
    /\ worker[r][c].at \in {"boot", "login", "fetch"}
    /\ Fetched(r, c, ErrorOffer)
    /\ UNCHANGED <<today, cache, snapshots, session, phase, answers, next>>

\* Mutated: an offer with an error is skipped, not passed on.
PutSkipsErrors(r, c) ==
    LET o == worker[r][c].offer IN
    /\ At(r, c, "put")
    /\ IF o.error
       THEN Append(r, c, None) /\ UNCHANGED cache
       ELSE /\ cache' = [cache EXCEPT ![c][Mpn(r, c)] = o]
            /\ Goto(r, c, "record")
            /\ UNCHANGED answers
    /\ UNCHANGED <<today, snapshots, session, phase, next>>

\* OfferCache.put, which skips an error offer, as `record` will.
Put(r, c) ==
    LET o == worker[r][c].offer IN
    /\ At(r, c, "put")
    /\ IF o.error
       THEN Append(r, c, o) /\ UNCHANGED cache
       ELSE /\ cache' = [cache EXCEPT ![c][Mpn(r, c)] = o]
            /\ Goto(r, c, "record")
            /\ UNCHANGED answers
    /\ UNCHANGED <<today, snapshots, session, phase, next>>

\* Mutated: the snapshot goes under the day it is written on.
RecordToday(r, c) ==
    LET o == worker[r][c].offer IN
    /\ At(r, c, "record")
    /\ snapshots' = [snapshots EXCEPT ![c][Mpn(r, c)][today] = o]
    /\ Append(r, c, o)
    /\ UNCHANGED <<today, cache, session, phase, next>>

\* OfferHistory.record: the snapshot of the day of the offer.
Record(r, c) ==
    LET o == worker[r][c].offer IN
    /\ At(r, c, "record")
    /\ snapshots' = [snapshots EXCEPT ![c][Mpn(r, c)][o.on] = o]
    /\ Append(r, c, o)
    /\ UNCHANGED <<today, cache, session, phase, next>>

\* Neither write is guarded: an S3 error leaves the thread by an exception.
WriteFails(r, c) ==
    /\ Faulty
    /\ \/ At(r, c, "put") /\ ~worker[r][c].offer.error
       \/ At(r, c, "record")
    /\ Goto(r, c, "raised")
    /\ UNCHANGED <<today, cache, snapshots, session, phase, answers, next>>

Thread(r, c) ==
    \/ Hit(r, c) \/ Unreadable(r, c) \/ Miss(r, c)
    \/ Boot(r, c) \/ Login(r, c) \/ Fetch(r, c) \/ Caught(r, c)
    \/ Put(r, c) \/ Record(r, c) \/ WriteFails(r, c)

-----------------------------------------------------------------------------
(***************************************************************************)
(* attach_offers, on the worker thread of run r.                           *)
(***************************************************************************)
Begin(r) ==
    /\ phase[r] = "waiting"
    /\ phase' = [phase EXCEPT ![r] = "enriching"]
    /\ worker' = [worker EXCEPT ![r] =
                    [c \in Clients |-> [Idle EXCEPT !.at = "lookup"]]]
    /\ UNCHANGED <<today, cache, snapshots, session, answers, next>>

\* Mutated: a thread that raised is waited for like one still at work.
JoinDone(r) ==
    /\ phase[r] = "enriching"
    /\ \A c \in Clients : At(r, c, "done")
    /\ phase' = [phase EXCEPT ![r] = "merging"]
    /\ UNCHANGED <<today, cache, snapshots, session, worker, answers, next>>

\* The threads are joined; an exception of one is raised here.
Join(r) ==
    /\ phase[r] = "enriching"
    /\ \A c \in Clients : worker[r][c].at \in {"done", "raised"}
    /\ phase' = [phase EXCEPT ![r] =
                   IF \E c \in Clients : At(r, c, "raised")
                   THEN "failed" ELSE "merging"]
    /\ UNCHANGED <<today, cache, snapshots, session, worker, answers, next>>

Priced(r, m) ==
    {c \in Clients : /\ ~answers[r][c][m].error
                     /\ answers[r][c][m].price # NoPrice}
Cheapest(r, m) ==
    CHOOSE c \in Priced(r, m) :
        \A e \in Priced(r, m) : answers[r][c][m].price <= answers[r][e][m].price

\* list_snapshots gives the days it can read: a listing or an object that
\* fails, or does not validate, is logged and left out.
Readable == IF Faulty THEN SUBSET Days ELSE {Days}

\* Of those, the snapshots with a price, at least Window days older than
\* offer o.
Older(c, m, o, read) ==
    {d \in read : /\ snapshots[c][m][d] # None
                  /\ snapshots[c][m][d].price # NoPrice
                  /\ d <= o.on - Window}
Baseline(c, m, o, read) ==
    snapshots[c][m][CHOOSE d \in Older(c, m, o, read) :
                        \A e \in Older(c, m, o, read) : e <= d]

\* compute_delta_pct divides by the price of the baseline.
DividesByZero(r, m, read) ==
    /\ Priced(r, m) # {}
    /\ LET c == Cheapest(r, m)
           o == answers[r][c][m]
       IN  Older(c, m, o, read) # {} /\ Baseline(c, m, o, read).price = 0

\* The lines of part next[r] get their offers and price change; after the
\* last part, live prices and the budget.
Merge(r) ==
    /\ phase[r] = "merging"
    /\ \E read \in Readable :
         IF DividesByZero(r, next[r], read)
         THEN phase' = [phase EXCEPT ![r] = "failed"] /\ UNCHANGED next
         ELSE /\ next' = [next EXCEPT ![r] = @ + 1]
              /\ phase' = [phase EXCEPT ![r] =
                             IF next[r] = NumMpns THEN "done" ELSE @]
    /\ UNCHANGED <<today, cache, snapshots, session, worker, answers>>

-----------------------------------------------------------------------------
Midnight ==
    /\ today < MaxDay
    /\ today' = today + 1
    /\ UNCHANGED <<cache, snapshots, session, phase, worker, answers, next>>

\* Threads and sessions are gone; the objects in S3 stay, but the release
\* that starts may have a schema with a field less, and forbids extra ones.
Restart ==
    /\ Faulty
    /\ \E refuses \in BOOLEAN :
         cache' = [c \in Clients |-> [m \in Mpns |->
                      IF refuses /\ cache[c][m] # None THEN Garbled ELSE cache[c][m]]]
    /\ session' = [c \in Clients |-> NoSession]
    /\ phase' = [r \in Runs |-> IF phase[r] \in {"enriching", "merging"}
                                THEN "lost" ELSE phase[r]]
    /\ worker' = [r \in Runs |-> [c \in Clients |-> Idle]]
    /\ UNCHANGED <<today, snapshots, answers, next>>

Next ==
    \/ \E r \in Runs : Begin(r) \/ Join(r) \/ Merge(r)
    \/ \E r \in Runs, c \in Clients : Thread(r, c)
    \/ Midnight
    \/ Restart

\* Every call returns or raises, so a thread that can step does: the portal
\* calls carry timeouts and boto3 has its own.  No run has to begin.
Fairness ==
    \A r \in Runs : /\ WF_vars(Join(r)) /\ WF_vars(Merge(r))
                    /\ \A c \in Clients : WF_vars(Thread(r, c))

Spec == Init /\ [][Next]_vars /\ Fairness

-----------------------------------------------------------------------------
(***************************************************************************)
(* Properties.                                                             *)
(***************************************************************************)
\* A run that got through has an answer of every distributor for every
\* part, an error included, so a reader of the BOM can tell "not in the
\* catalog" from "not reached" (EnrichmentService.enrich, attach_offers).
EveryPartAnswered ==
    \A r \in Runs : phase[r] \in {"merging", "done"} =>
        \A c \in Clients, m \in Mpns : answers[r][c][m] # None

\* What fails a run is S3, or a release that refuses its cached entries; else
\* only a part that was free: the division in compute_delta_pct, by a price
\* of zero that is in the history, Window days or more before the offer it
\* is compared with.  So a portal that cannot be reached, logs nobody in or
\* times out, another product's page and a session two runs take from each
\* other fail none (the graceful degradation of _base_scraper.py).
FailsForCause ==
    [][\A r \in Runs : phase[r] # "failed" /\ phase'[r] = "failed" =>
          \/ Faulty /\ \E c \in Clients : At(r, c, "raised")
          \/ \E c \in Clients, d \in Days :
                LET m == next[r] IN
                /\ snapshots[c][m][d] # None /\ snapshots[c][m][d].price = 0
                /\ d + Window <= answers[r][c][m].on]_vars

\* Every offer in the cache came with a snapshot of its day, or its thread
\* is about to write it: the history that price changes are computed from
\* has no gap where the cache spares a request (_fetch_all_for_client).
HistoryCoversCache ==
    \A c \in Clients, m \in Mpns :
        LET o == cache[c][m] IN
        o \notin {Garbled, None} =>
            \/ snapshots[c][m][o.on] # None
            \/ \E r \in Runs : /\ At(r, c, "record") /\ Mpn(r, c) = m
                               /\ worker[r][c].offer.on = o.on

\* Enrichment never holds a pipeline up for good (failed logins, sessions
\* taken over by another run, exceptions in one of the threads).
EnrichmentEnds ==
    \A r \in Runs : phase[r] \in {"enriching", "merging"} ~>
                    phase[r] \in {"done", "failed", "lost"}

\* _graybar_client.py: one browser context serves all fetch_offer calls of the
\* process, and login happens once.  So a thread about to ask holds the page
\* it needs, at least when no other run is enriching.
OneSessionForAll ==
    \A c \in Clients, r \in Runs :
        /\ At(r, c, "fetch")
        /\ \A s \in Runs \ {r} : phase[s] # "enriching"
        => session[c].page = r

\* _base_scraper.py: "NEVER raises", "The BOM ships even when one distributor
\* is down": nothing a distributor's page says fails a run, a price of zero
\* included; S3 aside.
PortalFailsNoRun == ~Faulty => \A r \in Runs : phase[r] # "failed"

\* parse_product_detail: an offer has an error when the page's data-mpn does
\* not include the part number; and errors are not cached (_offer_cache.py).
CachedFromItsPage ==
    \A c \in Clients, m \in Mpns :
        cache[c][m] \notin {Garbled, None} => cache[c][m].page \in Similar[m]
=============================================================================
