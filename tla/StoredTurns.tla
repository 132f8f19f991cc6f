----------------------------- MODULE StoredTurns -----------------------------
(***************************************************************************)
(* The stored read path (internal/server/stored_turns.go, dedup.go): each  *)
(* turn is built once, its output kept in turns / turn_entries, and a page *)
(* is read back from those rows.  A page read is a sequence of separate    *)
(* queries, other reads and the turnMaterializer rebuild the same turns    *)
(* meanwhile, and ingest goes on under all of them.                        *)
(*                                                                         *)
(* One session.  Its log carries the turn the index gave each event, which *)
(* is what TurnIndex shows of it, so BuildTurnIndex is one step here.  The *)
(* log only grows: what a query saw of it is the number of events it saw.  *)
(***************************************************************************)
EXTENDS DualEmit

CONSTANTS
    Readers,       \* concurrent page and entry reads
    Materializer,  \* the turnMaterializer goroutine
    Texts,         \* texts of dual-emit candidates
    PromptTexts,   \* those of user_message events, the others are results
    Versions,      \* values of materializerVersion over the deployments
    NoVersion,     \* of a turn never built, 0 in the code
    StaleTurns,    \* staleTurnsPerSession
    Requests,      \* the reads clients send
    NoRequest,     \* what an idle reader serves
    MaxEvents,     \* bound: events ever stored
    MaxTurns,      \* bound: turns of the session
    MaxRestarts    \* bound: restarts of the process

Procs == Readers \cup {Materializer}
Ids == 1..MaxEvents
Seqs == 1..MaxTurns
Event == [turn : Seqs, text : Texts, source : {"harness", "otel"}]
            \cup [turn : Seqs, text : {Plain}, source : {"harness"}]
PageRequest == [kind : {"page"}, limit : Nat \ {0}, before : Nat]
EntryRequest == [kind : {"entry"}, event : Ids]

ASSUME BoundsAssumption ==
    /\ MaxEvents \in Nat /\ MaxTurns \in Nat /\ MaxRestarts \in Nat
    /\ StaleTurns \in Nat \ {0}

ASSUME NamesAssumption ==
    /\ Materializer \notin Readers
    /\ Plain \notin Texts /\ PromptTexts \subseteq Texts
    /\ NoVersion \notin Versions
    /\ Requests \subseteq PageRequest \cup EntryRequest
    /\ NoRequest \notin Requests

VARIABLES
    log,       \* the session's events, in id order
    version,   \* the running binary's materializerVersion
    indexed,   \* whether the session's turn index is current
    restarts,
    stored,    \* what the turns and turn_entries rows hold, per turn
    pc,        \* the query a process makes next
    ask,       \* the request it serves
    began,     \* events stored when it read its window
    window,    \* the turn rows it read, or has built since
    paired,    \* events stored when it read the candidates
    rows,      \* events stored when it read a turn's events
    page       \* what it answers

procVars == <<pc, ask, began, window, paired, rows, page>>
vars == <<log, version, indexed, restarts, stored, procVars>>
-----------------------------------------------------------------------------
(***************************************************************************)
(* Turns, pairs and builds over the first n events of a log l.             *)
(***************************************************************************)
TurnEvents(l, n, t) == {e \in 1..n : l[e].turn = t}
LastEvent(l, n, t) ==
    LET own == TurnEvents(l, n, t)
    IN  IF own = {} THEN 0 ELSE CHOOSE e \in own : \A f \in own : f <= e
TurnsOf(l, n) == {l[e].turn : e \in 1..n}

\* sessionPairing.fingerprint: a turn's candidates, each with its twin or 0.
Fingerprint(l, n, t) == [e \in {e \in TurnEvents(l, n, t) : l[e].text # Plain} |-> Twin(l, n, e)]

\* The OTel copy of a pair is the hidden duplicate.
Hidden(l, n, e) == l[e].source = "otel" /\ Twin(l, n, e) # 0

\* buildTurnModel and projectForReading: the entries of a turn, each with the
\* twin that names its group, from n events and the pairs among the first m.
Entries(l, n, m, t) == [e \in {e \in TurnEvents(l, n, t) : ~Hidden(l, m, e)} |-> Twin(l, m, e)]

NoBuild == [version |-> NoVersion, through |-> 0, pairs |-> <<>>, ids |-> {}, entries |-> <<>>]

\* Mutant: the turn's last event now, not the last one the builder read.
BuiltThroughNow(l, v, n, m, t) ==
    [version |-> v, through |-> LastEvent(l, Len(l), t), pairs |-> Fingerprint(l, m, t),
     ids |-> DOMAIN Entries(l, n, m, t), entries |-> Entries(l, n, m, t)]

\* Mutant: one past it, the next event to read.
BuiltThroughNext(l, v, n, m, t) ==
    [version |-> v, through |-> LastEvent(l, n, t) + 1, pairs |-> Fingerprint(l, m, t),
     ids |-> DOMAIN Entries(l, n, m, t), entries |-> Entries(l, n, m, t)]

Built(l, v, n, m, t) ==
    LET entries == Entries(l, n, m, t)
    IN  [version |-> v, through |-> LastEvent(l, n, t), pairs |-> Fingerprint(l, m, t),
         ids |-> DOMAIN entries, entries |-> entries]

\* Mutant: the pairs a turn was built with are not compared.
NeedsMaterializingUnpaired(r, v, last, pairs) == r.version # v \/ r.through < last

NeedsMaterializing(r, v, last, pairs) ==
    r.version # v \/ r.through < last \/ r.pairs # pairs

\* TurnWindow: `limit` prompt turns back from the newest, or from the turn before
\* the one that holds event `before`; plain turns when no turn in range is a prompt.
PromptTurns(l, n) == {l[e].turn : e \in {e \in 1..n : l[e].text \in PromptTexts}}
InRange(l, n, before) ==
    {t \in TurnsOf(l, n) :
        CASE before = 0 -> TRUE
          [] before \in 1..n -> t < l[before].turn
          [] OTHER -> n > 0 /\ t <= l[n].turn}
NthNewest(S, limit) == CHOOSE t \in S : Cardinality({u \in S : u >= t}) = limit

TurnWindow(l, n, limit, before) ==
    LET range == InRange(l, n, before)
        prompts == range \cap PromptTurns(l, n)
        counted == IF prompts = {} THEN range ELSE prompts
    IN  {t \in range : Cardinality(counted) >= limit => t >= NthNewest(counted, limit)}

NewestTurns(l, n, limit) == {t \in TurnsOf(l, n) : Cardinality({u \in TurnsOf(l, n) : u > t}) < limit}

TurnOfEvent(l, n, e) == IF e \in 1..n THEN {l[e].turn} ELSE {}
-----------------------------------------------------------------------------
NoPage == [turns |-> {}, ids |-> {}, entries |-> <<>>, validator |-> 0]

Init ==
    /\ log = <<>>
    /\ version \in Versions
    /\ indexed = TRUE
    /\ restarts = 0
    /\ stored = [t \in Seqs |-> NoBuild]
    /\ pc = [p \in Procs |-> "idle"]
    /\ ask = [p \in Procs |-> NoRequest]
    /\ began = [p \in Procs |-> 0]
    /\ window = [p \in Procs |-> <<>>]
    /\ paired = [p \in Procs |-> 0]
    /\ rows = [p \in Procs |-> 0]
    /\ page = [p \in Procs |-> NoPage]

\* StoreEvent: the turn's row grows, its stored build stays as it is.
StoreEvent(ev) ==
    /\ Len(log) < MaxEvents
    /\ ev.turn \in TurnsOf(log, Len(log)) \/ ev.turn = Cardinality(TurnsOf(log, Len(log))) + 1
    /\ log' = Append(log, ev)
    /\ UNCHANGED <<version, indexed, restarts, stored, procVars>>

\* Every read first indexes the session, which drops what an old index held.
IndexedStored == IF indexed THEN stored ELSE [t \in Seqs |-> NoBuild]

\* A read of turns W: their rows come with it.  A page of no turns goes straight
\* to its validator, an entry of no turn is not found.
ReadWindow(p, W, none) ==
    /\ began' = [began EXCEPT ![p] = Len(log)]
    /\ window' = [window EXCEPT ![p] = [t \in W |-> IndexedStored[t]]]
    /\ pc' = [pc EXCEPT ![p] = IF W = {} THEN none ELSE "pairs"]
    /\ stored' = IndexedStored
    /\ indexed' = TRUE
    /\ UNCHANGED <<log, version, restarts, paired, rows, page>>

StartPage(p, r) ==
    /\ p \in Readers /\ pc[p] = "idle" /\ r.kind = "page"
    /\ ask' = [ask EXCEPT ![p] = r]
    /\ ReadWindow(p, TurnWindow(log, Len(log), r.limit, r.before), "validator")

StartEntry(p, r) ==
    /\ p \in Readers /\ pc[p] = "idle" /\ r.kind = "entry"
    /\ ask' = [ask EXCEPT ![p] = r]
    /\ ReadWindow(p, TurnOfEvent(log, Len(log), r.event), "answer")

\* turnMaterializer.run takes the session up some time after an event ended a turn,
\* and leaves it alone while the backfill has not reached it.
StartSettle ==
    /\ pc[Materializer] = "idle" /\ indexed
    /\ ReadWindow(Materializer, NewestTurns(log, Len(log), StaleTurns), "idle")
    /\ UNCHANGED ask

\* sessionPairing, over the whole session.
ReadPairs(p) ==
    /\ pc[p] = "pairs"
    /\ paired' = [paired EXCEPT ![p] = Len(log)]
    /\ pc' = [pc EXCEPT ![p] = "turns"]
    /\ UNCHANGED <<log, version, indexed, restarts, stored, ask, began, window, rows, page>>

\* What is left to build, judged by the rows and pairs read before.
Stale(p) ==
    {t \in DOMAIN window[p] :
        NeedsMaterializing(window[p][t], version, LastEvent(log, began[p], t),
                           Fingerprint(log, paired[p], t))}

\* A page builds oldest first, the materializer newest first.
NextStale(p) ==
    CHOOSE t \in Stale(p) : \A u \in Stale(p) : IF p = Materializer THEN u <= t ELSE t <= u

\* materializeStoredTurn: the turn's events are read, and then ...
ReadTurnEvents(p) ==
    /\ pc[p] = "turns" /\ Stale(p) # {}
    /\ rows' = [rows EXCEPT ![p] = Len(log)]
    /\ pc' = [pc EXCEPT ![p] = "replace"]
    /\ UNCHANGED <<log, version, indexed, restarts, stored, ask, began, window, paired, page>>

\* ... ReplaceMaterializedTurn stores what they built into, in one transaction.
ReplaceMaterializedTurn(p) ==
    /\ pc[p] = "replace"
    /\ LET t == NextStale(p)
           build == Built(log, version, rows[p], paired[p], t)
       IN  /\ stored' = [stored EXCEPT ![t] = build]
           /\ window' = [window EXCEPT ![p][t] = build]
    /\ rows' = [rows EXCEPT ![p] = 0]
    /\ pc' = [pc EXCEPT ![p] = "turns"]
    /\ UNCHANGED <<log, version, indexed, restarts, ask, began, paired, page>>

\* StoredEntries and assembleStoredPage: the turns as read or built, the entries
\* from what is stored by now.
ReadEntries(p) ==
    /\ p \in Readers /\ pc[p] = "turns" /\ Stale(p) = {}
    /\ page' = [page EXCEPT ![p] =
            [turns |-> DOMAIN window[p],
             ids |-> UNION {window[p][t].ids : t \in DOMAIN window[p]},
             entries |-> [e \in UNION {DOMAIN stored[t].entries : t \in DOMAIN window[p]} |->
                            stored[log[e].turn].entries[e]],
             validator |-> 0]]
    /\ pc' = [pc EXCEPT ![p] = IF ask[p].kind = "page" THEN "validator" ELSE "answer"]
    /\ window' = [window EXCEPT ![p] = <<>>]
    /\ paired' = [paired EXCEPT ![p] = 0]
    /\ UNCHANGED <<log, version, indexed, restarts, stored, ask, began, rows>>

\* Validators: the newest event of the whole session, as of now.
ReadValidator(p) ==
    /\ pc[p] = "validator"
    /\ page' = [page EXCEPT ![p].validator = Len(log)]
    /\ pc' = [pc EXCEPT ![p] = "answer"]
    /\ UNCHANGED <<log, version, indexed, restarts, stored, ask, began, window, paired, rows>>

Forget(P) ==
    /\ ask' = [p \in Procs |-> IF p \in P THEN NoRequest ELSE ask[p]]
    /\ pc' = [p \in Procs |-> IF p \in P THEN "idle" ELSE pc[p]]
    /\ began' = [p \in Procs |-> IF p \in P THEN 0 ELSE began[p]]
    /\ window' = [p \in Procs |-> IF p \in P THEN <<>> ELSE window[p]]
    /\ paired' = [p \in Procs |-> IF p \in P THEN 0 ELSE paired[p]]
    /\ rows' = [p \in Procs |-> IF p \in P THEN 0 ELSE rows[p]]
    /\ page' = [p \in Procs |-> IF p \in P THEN NoPage ELSE page[p]]

Answer(p) ==
    /\ pc[p] = "answer"
    /\ Forget({p})
    /\ UNCHANGED <<log, version, indexed, restarts, stored>>

Settled ==
    /\ pc[Materializer] = "turns" /\ Stale(Materializer) = {}
    /\ Forget({Materializer})
    /\ UNCHANGED <<log, version, indexed, restarts, stored>>

\* Another binary starts on the same database: newer or older materializing rules,
\* and perhaps index rules under which the stored rows no longer count.
Restart ==
    /\ restarts < MaxRestarts
    /\ restarts' = restarts + 1
    /\ version' \in Versions
    /\ indexed' \in {FALSE, indexed}
    /\ Forget(Procs)
    /\ UNCHANGED <<log, stored>>

Step(p) ==
    \/ ReadPairs(p) \/ ReadTurnEvents(p) \/ ReplaceMaterializedTurn(p)
    \/ ReadEntries(p) \/ ReadValidator(p) \/ Answer(p)

Next ==
    \/ \E ev \in Event : StoreEvent(ev)
    \/ \E p \in Readers, r \in Requests : StartPage(p, r) \/ StartEntry(p, r)
    \/ StartSettle \/ Settled
    \/ \E p \in Procs : Step(p)
    \/ Restart

Spec == Init /\ [][Next]_vars
-----------------------------------------------------------------------------
Steps == {"idle", "pairs", "turns", "replace", "validator", "answer"}
TwinMap(f) == DOMAIN f \subseteq Ids /\ \A e \in DOMAIN f : f[e] \in 0..MaxEvents
IsBuild(b) ==
    /\ b.version \in Versions \cup {NoVersion} /\ b.through \in 0..MaxEvents
    /\ TwinMap(b.pairs) /\ TwinMap(b.entries) /\ b.ids \subseteq Ids

\* Type correctness of the stored turns and of the locals of the reads.
TypeOK ==
    /\ log \in Seq(Event) /\ Len(log) \in 0..MaxEvents
    /\ version \in Versions /\ indexed \in BOOLEAN /\ restarts \in 0..MaxRestarts
    /\ DOMAIN stored = Seqs /\ \A t \in Seqs : IsBuild(stored[t])
    /\ pc \in [Procs -> Steps] /\ ask \in [Procs -> Requests \cup {NoRequest}]
    /\ began \in [Procs -> 0..MaxEvents]
    /\ paired \in [Procs -> 0..MaxEvents] /\ rows \in [Procs -> 0..MaxEvents]
    /\ \A p \in Procs : \A t \in DOMAIN window[p] : t \in Seqs /\ IsBuild(window[p][t])
    /\ \A p \in Procs : page[p].ids \subseteq Ids /\ page[p].validator \in 0..MaxEvents

\* A stored turn that no check finds stale is what the builder would make of the
\* turn now: an event, a rules change or a copy landing in another turn never goes
\* unnoticed, in whatever order slow builds overwrite one another.
FreshIsRight ==
    indexed => \A t \in TurnsOf(log, Len(log)) :
        LET n == Len(log)
        IN  ~NeedsMaterializing(stored[t], version, LastEvent(log, n, t), Fingerprint(log, n, t))
                => stored[t] = Built(log, version, n, n, t)

Answering(kind) == {p \in Readers : pc[p] = "answer" /\ ask[p].kind = kind}

\* A page is as new as its request: in the turns it holds, every event stored
\* before the read began is listed unless a twin hides it, and a copy whose twin
\* was already there is not listed beside it.
PageAsNewAsRead ==
    \A p \in Answering("page") : \A e \in 1..began[p] :
        log[e].turn \in page[p].turns =>
            /\ e \notin page[p].ids => Hidden(log, Len(log), e)
            /\ Hidden(log, began[p], e) => e \notin page[p].ids

\* Pairs never come apart: a copy once paired keeps its twin whatever lands later,
\* so a page already served never has to split an entry in two.
PairsStay ==
    [][log' # log => \A e \in DOMAIN log :
        LET twin == Twin(log, Len(log), e)
        IN  twin # 0 => Twin(log', Len(log'), e) = twin]_vars

\* "A turn referencing an id that is no longer in the map is not cosmetic"
\* (project.go:71): every entry the turns of a read list is among its entries, which
\* for the read of one entry is the difference between finding it and a 404.
PageWhole ==
    \A p \in Answering("page") \cup Answering("entry") : page[p].ids \subseteq DOMAIN page[p].entries

\* The validator is "the cheap staleness currency" (turnmodel.go:217): an event it
\* counts that belongs to the page's turns, or a newer one, is on the newest page.
PageHoldsValidated ==
    \A p \in Answering("page") : ask[p].before = 0 =>
        \A e \in 1..page[p].validator :
            Hidden(log, Len(log), e) \/ e \in page[p].ids \/ \E t \in page[p].turns : log[e].turn < t
-----------------------------------------------------------------------------
(***************************************************************************)
(* The inductive invariant behind FreshIsRight: whatever is stored was     *)
(* built by some rules from some prefix of the log with the pairs of some  *)
(* other prefix.                                                           *)
(***************************************************************************)
WasBuilt(b, t) ==
    \/ b = NoBuild
    \/ \E v \in Versions, n, m \in 0..Len(log) : b = Built(log, v, n, m, t)

StoredInv ==
    /\ log \in Seq(Event) /\ version \in Versions
    /\ paired \in [Procs -> 0..Len(log)] /\ rows \in [Procs -> 0..Len(log)]
    /\ DOMAIN stored = Seqs /\ \A t \in Seqs : WasBuilt(stored[t], t)
=============================================================================
