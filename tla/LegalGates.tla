----------------------------- MODULE LegalGates ------------------------------
(***************************************************************************)
(* What must be accepted or attested before a request passes: the legal    *)
(* gate, then the scoring gate.  The parts share no state.                 *)
(***************************************************************************)
EXTENDS Integers, Sequences, FiniteSets, SequencesExt

(****************************************************************************)
(* Legal documents and the gates that depend on them: the sync of the files *)
(* into the table, the acceptances of a user, the gate of the trading       *)
(* routes, and the two gates on the version of the terms                    *)
(* (legal/, api/routes/legal.py, api/legal.py).                             *)
(****************************************************************************)
CONSTANTS Slugs,       \* documents
          Required,    \* the ones with requires_acceptance
          LegalCalls,  \* requests of the user in flight at once
          MaxVersion, MaxAcceptances, MaxEditions, MaxStamp

ASSUME LegalAssumption == IsFiniteSet(Slugs) /\ Required \subseteq Slugs /\ MaxVersion \in Nat

VARIABLES lgFiles,   \* the version in each file
          lgDocs,    \* the table of documents; 0 for none
          lgRows,    \* the user's acceptances, oldest first
          lgCalls,   \* requests in flight
          lgServed,  \* the request that passed the gate last: the table it saw
          lgTerms,   \* settings.legal_terms_version of the running process
          lgGate,    \* the user's newest row of legal_gate_acceptances; 0 for none
          lgMemory,  \* the user's entry of InMemoryAcceptanceStore; 0 for none
          lgBack,    \* a file went back to an earlier version
          lgEditions,
          lgNow      \* the clock, which orders the requests that accept

lgVars == <<lgFiles, lgDocs, lgRows, lgCalls, lgServed, lgTerms, lgGate, lgMemory, lgBack, lgEditions, lgNow>>

Versions == 1..MaxVersion
NoLegalCall == [pc |-> "none"]

LegalInit ==
    /\ lgFiles = [s \in Slugs |-> 1] /\ lgDocs = [s \in Slugs |-> 0]
    /\ lgRows = <<>> /\ lgGate = 0 /\ lgMemory = 0 /\ lgTerms = 1
    /\ lgCalls = [c \in LegalCalls |-> NoLegalCall]
    /\ lgServed = [docs |-> [s \in Slugs |-> 0], rows |-> <<>>]
    /\ lgBack = FALSE /\ lgEditions = 0 /\ lgNow = 0

\* An operator publishes another version of a document.
EditDocument(s, v) ==
    /\ lgEditions < MaxEditions /\ v # lgFiles[s]
    /\ lgEditions' = lgEditions + 1
    /\ lgFiles' = [lgFiles EXCEPT ![s] = v]
    /\ lgBack' = (lgBack \/ v < lgFiles[s])
    /\ UNCHANGED <<lgDocs, lgRows, lgCalls, lgServed, lgTerms, lgGate, lgMemory, lgNow>>

\* sync_legal_documents in the lifespan of a process that starts: a file that
\* cannot be read or parsed is skipped, the others are upserted. The new process
\* may have another legal_terms_version and an empty store.
SyncDocuments(readable, terms) ==
    /\ lgDocs' = [s \in Slugs |-> IF s \in readable THEN lgFiles[s] ELSE lgDocs[s]]
    /\ lgTerms' = terms /\ lgMemory' = 0
    /\ lgDocs' # lgDocs \/ terms # lgTerms
    /\ UNCHANGED <<lgFiles, lgRows, lgCalls, lgServed, lgGate, lgBack, lgEditions, lgNow>>

\* _bulk_latest_acceptances: the newest row of a document; 0 for none.
MutLatest(s, rows) == LET own == {i \in DOMAIN rows : rows[i].slug = s}
                      IN IF own = {} THEN 0 ELSE rows[CHOOSE i \in own : \A j \in own : rows[i].at <= rows[j].at].version
LatestVersion(s, rows) == LET own == {i \in DOMAIN rows : rows[i].slug = s}
                   IN IF own = {} THEN 0 ELSE rows[CHOOSE i \in own : \A j \in own : rows[j].at <= rows[i].at].version
\* get_pending_acceptances
MutPending(docs, rows) == {s \in Required : docs[s] # 0 /\ LatestVersion(s, rows) = 0}
Pending(docs, rows) == {s \in Required : docs[s] # 0 /\ LatestVersion(s, rows) < docs[s]}

\* _get_exact_acceptance: a row of this version exists.
ExactAcceptance(it) == \E i \in DOMAIN lgRows : lgRows[i].slug = it.slug /\ lgRows[i].version = it.version
\* accepted_at is the time the request began. The context tells a first acceptance from a later one.
AcceptedRow(it, now) ==
    [slug |-> it.slug, version |-> it.version, at |-> now,
     context |-> IF LatestVersion(it.slug, lgRows) = 0 THEN "onboarding" ELSE "re-acceptance"]
\* POST /api/v1/legal/accept: every item names a current version, or the request
\* fails as a whole. A version accepted before adds no row. The clock and the
\* documents are read in one step, and which documents are required is fixed.
ReadAcceptances(c, items) ==
    /\ lgCalls[c] = NoLegalCall /\ items # {} /\ lgNow < MaxStamp
    /\ lgNow' = lgNow + 1
    /\ \A it \in items : lgDocs[it.slug] = it.version
    /\ lgCalls' = [lgCalls EXCEPT ![c] = [pc |-> "accept",
           fresh |-> {AcceptedRow(it, lgNow) : it \in {x \in items : ~ExactAcceptance(x)}}]]
    /\ UNCHANGED <<lgFiles, lgDocs, lgRows, lgServed, lgTerms, lgGate, lgMemory, lgBack, lgEditions>>
CommitAcceptances(c) ==
    /\ lgCalls[c].pc = "accept" /\ Len(lgRows) + Cardinality(lgCalls[c].fresh) <= MaxAcceptances
    /\ lgRows' = lgRows \o SetToSeq(lgCalls[c].fresh)
    /\ lgCalls' = [lgCalls EXCEPT ![c] = NoLegalCall]
    /\ UNCHANGED <<lgFiles, lgDocs, lgServed, lgTerms, lgGate, lgMemory, lgBack, lgEditions, lgNow>>

\* require_legal_acceptance: the documents first, then the acceptances, in two queries.
ReadDocuments(c) ==
    /\ lgCalls[c] = NoLegalCall
    /\ lgCalls' = [lgCalls EXCEPT ![c] = [pc |-> "gate", docs |-> lgDocs]]
    /\ UNCHANGED <<lgFiles, lgDocs, lgRows, lgServed, lgTerms, lgGate, lgMemory, lgBack, lgEditions, lgNow>>
PassGate(c) ==
    /\ lgCalls[c].pc = "gate"
    /\ lgServed' = IF Pending(lgCalls[c].docs, lgRows) = {}
                   THEN [docs |-> lgCalls[c].docs, rows |-> lgRows] ELSE lgServed
    /\ lgCalls' = [lgCalls EXCEPT ![c] = NoLegalCall]
    /\ UNCHANGED <<lgFiles, lgDocs, lgRows, lgTerms, lgGate, lgMemory, lgBack, lgEditions, lgNow>>

\* POST /api/legal/accept appends to its table, POST of api/legal.py replaces the
\* entry in memory; both only for the version of the terms in force.
AcceptTerms(v) ==
    /\ v = lgTerms
    /\ lgGate' = v
    /\ UNCHANGED <<lgFiles, lgDocs, lgRows, lgCalls, lgServed, lgTerms, lgMemory, lgBack, lgEditions, lgNow>>
RememberTerms(v) ==
    /\ v = lgTerms
    /\ lgMemory' = v
    /\ UNCHANGED <<lgFiles, lgDocs, lgRows, lgCalls, lgServed, lgTerms, lgGate, lgBack, lgEditions, lgNow>>
\* _is_currently_accepted
MemoryAccepted == lgMemory = lgTerms

Items == [slug : Slugs, version : Versions]
LegalNext ==
    \/ \E s \in Slugs, v \in Versions : EditDocument(s, v)
    \/ \E readable \in SUBSET Slugs, terms \in Versions : SyncDocuments(readable, terms)
    \/ \E c \in LegalCalls :
          \/ \E items \in SUBSET Items : ReadAcceptances(c, items)
          \/ CommitAcceptances(c) \/ ReadDocuments(c) \/ PassGate(c)
    \/ \E v \in Versions : AcceptTerms(v) \/ RememberTerms(v)

----------------------------------------
\* A request that passed the gate was of a user who had accepted every required
\* document, in the version the gate read or a later one (require_legal_acceptance).
ServedHadAccepted ==
    \A s \in Required : lgServed.docs[s] # 0 =>
       \E i \in DOMAIN lgServed.rows : lgServed.rows[i].slug = s /\ lgServed.rows[i].version >= lgServed.docs[s]

\* A user whose acceptance of every current version was answered is let in, with
\* several acceptances in flight, as long as no document went back to an earlier
\* version (then a row of that version stays the newest, and accepting the later
\* version again adds none). The terms in memory were asked for by this process.
AcceptingAdmits ==
    /\ ~lgBack /\ (\A s \in Required : lgDocs[s] # 0 =>
          \E i \in DOMAIN lgRows : lgRows[i].slug = s /\ lgRows[i].version = lgDocs[s])
       => Pending(lgDocs, lgRows) = {}
    /\ lgMemory # 0 => MemoryAccepted

----------------------------------------
(****************************************************************************)
(* Scores of symbols: the executor that computes them, the legal validator  *)
(* that suppresses or caps them, the snapshots and their later display      *)
(* (plugins/scoring_executor.py, legal/scoring_gate.py, routes/scoring.py). *)
(****************************************************************************)

Top == 4   \* 100 points

CONSTANTS Universe,    \* symbols asked for
          Factors,     \* factors of the strategy, each with its weight
          MinPoints,   \* min_data_points
          Scorers,     \* scoring strategies
          Ceilings,    \* values of legal_score_max_composite
          MaxSnapshots

\* The validator clamps a higher ceiling, and a score is never negative.
ASSUME ScoringAssumption == IsFiniteSet(Universe) /\ Ceilings \subseteq 0..Top

VARIABLES sgSettings,  \* legal_score_flagged_strategies and the ceiling
          sgCached,    \* the process's default validator: its settings, or NoValidator
          sgStored,    \* scoring_snapshots
          sgShown      \* the scores a response showed last, and the validator then

sgVars == <<sgSettings, sgCached, sgStored, sgShown>>

NoValidator == [flagged |-> {}, max |-> -1]
Invalid == -1     \* NaN, an infinity or no score

ScoreInit ==
    /\ sgSettings \in [flagged : {{}}, max : Ceilings]
    /\ sgCached = NoValidator /\ sgStored = <<>>
    /\ sgShown = [strategy |-> "none", scores |-> {}, by |-> NoValidator]

\* _compute_factor_z_scores: a factor counts when enough symbols have a value.
CountsFactor(f, data) == Cardinality({s \in DOMAIN data : f \in data[s]}) >= MinPoints
Used(data) == {f \in DOMAIN Factors : CountsFactor(f, data)}
\* The weights of the factors in use are normalised; none, or a weight of
\* nothing, gives no scores.
NoScores(data) == \A f \in Used(data) : Factors[f] = 0

\* scale_to_range: all equal gives the middle, else the least is 0 and the most Top.
Scalings(symbols) ==
    {c \in [symbols -> 0..Top] :
        \/ \A s \in symbols : 2 * c[s] = Top
        \/ \E a, b \in symbols : c[a] = 0 /\ c[b] = Top}
\* ScoringResult sorts by score, the highest first, and ranks by position; equal
\* scores stand in the order of the request.
Ranked(comp) ==
    {{[symbol |-> s, score |-> comp[s], rank |-> rank[s]] : s \in DOMAIN comp} :
        rank \in {r \in [DOMAIN comp -> 1..Cardinality(DOMAIN comp)] :
                    \A a, b \in DOMAIN comp : a # b => r[a] # r[b] /\ (r[a] < r[b] => comp[a] >= comp[b])}}

\* get_default_score_validator: built from the settings at the first use, and kept.
Validator == IF sgCached = NoValidator THEN sgSettings ELSE sgCached

\* LegalScoreValidator.validate_score: Invalid when the score is suppressed.
MutOutcome(v, strategy, score) == IF score > v.max THEN v.max ELSE score
Outcome(v, strategy, score) ==
    IF score = Invalid \/ strategy \in v.flagged THEN Invalid
    ELSE IF score > v.max THEN v.max ELSE score
\* validate_result and _gate_score_dicts: entries that are suppressed are dropped, the
\* others keep their rank (a strategy's are suppressed together).
MutGated(v, strategy, scores) == scores
Gated(v, strategy, scores) ==
    {e \in {[entry EXCEPT !.score = Outcome(v, strategy, @)] : entry \in scores} : e.score # Invalid}

Displays(strategy, scores, v) ==
    /\ sgShown' = [strategy |-> strategy, scores |-> scores, by |-> v]
    /\ sgCached' = v

\* POST /{strategy}/run: computed, validated, stored and shown.
RunScoring(strategy, data) ==
    LET v == Validator IN
    /\ Len(sgStored) < MaxSnapshots
    /\ \E comp \in Scalings(DOMAIN data) : \E ranked \in Ranked(comp) :
          LET scores == IF NoScores(data) THEN {} ELSE Gated(v, strategy, ranked)
          IN /\ sgStored' = Append(sgStored, [strategy |-> strategy, scores |-> scores])
             /\ Displays(strategy, scores, v)
    /\ UNCHANGED sgSettings

\* GET /{strategy}/results: what was stored passes the validator again.
ShowResults(i) ==
    LET snap == sgStored[i]
        v == Validator
    IN /\ Displays(snap.strategy, Gated(v, snap.strategy, snap.scores), v)
       /\ UNCHANGED <<sgSettings, sgStored>>

\* The settings are changed; set_ and reset_default_score_validator.
ChangeSettings(flagged, max) ==
    /\ sgSettings' = [flagged |-> flagged, max |-> max] /\ sgSettings' # sgSettings
    /\ UNCHANGED <<sgCached, sgStored, sgShown>>
ResetValidator == /\ sgCached # NoValidator /\ sgCached' = NoValidator
                  /\ UNCHANGED <<sgSettings, sgStored, sgShown>>

\* Raw data: for some symbols of the universe, the factors with a value.
Data == UNION {[symbols -> SUBSET DOMAIN Factors] : symbols \in SUBSET Universe \ {{}}}
ScoreNext ==
    \/ \E strategy \in Scorers, data \in Data : RunScoring(strategy, data)
    \/ \E i \in DOMAIN sgStored : ShowResults(i)
    \/ \E flagged \in SUBSET Scorers, max \in Ceilings : ChangeSettings(flagged, max)
    \/ ResetValidator

----------------------------------------
\* Whatever was stored under earlier settings, a response shows no score of a
\* strategy that its validator flags and none above its ceiling, and scores in the
\* order of their ranks (LegalScoreValidator, get_scoring_results).
ShownWithinLaw ==
    LET v == sgShown.by
        scores == sgShown.scores
    IN /\ sgShown.strategy \in v.flagged => scores = {}
       /\ \A e \in scores : e.score \in 0..v.max
       /\ \A e, f \in scores : e.rank < f.rank => e.score >= f.score
=============================================================================
