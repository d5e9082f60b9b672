------------------------------ MODULE WikiPages ------------------------------
(***************************************************************************)
(* The pages of one scope's wiki.  All reads and all decisions are made on *)
(* an in-memory mirror; a write is applied to the mirror first (with its   *)
(* compare-and-set on the page's revision) and then inserted into          *)
(* PostgreSQL, from which a restarted process builds its mirror again:     *)
(* first the publications in the order of their rows, then the retirements.*)
(*                                                                         *)
(* Two kinds of writers run side by side: an injection (with a rebuild,    *)
(* under the consumer's scope lock) that plans targets, prepares a draft   *)
(* for each and publishes them, and the curation rounds (under a lock of   *)
(* their own) that merge, rewrite and retire pages of the catalog they     *)
(* read at the start.  Planner, editor and curator may answer anything.    *)
(*                                                                         *)
(* A revision is the sequence of drafts that led to it, so its base is its *)
(* front; a draft is the set of sources whose quoted evidence it holds     *)
(* (cites) and a variant.  A quote that is part of a longer one is dropped *)
(* from a curated page with its anchor, but its text stays: it still       *)
(* counts.  Topics, links, embeddings and the slug changes of updates are  *)
(* left out.                                                               *)
(***************************************************************************)
EXTENDS Integers, Sequences, FiniteSets, SequencesExt

CONSTANTS
    Sources,     \* session snapshots; each has at most one page of its own
    Slugs,       \* the slugs that sources may propose for their pages
    Variants,    \* wordings an LLM may choose from
    Budgets,     \* bounds: how many injections, curated candidates, rebuilds,
                 \* and faults (failed inserts, restarts) a behaviour may have
    Nothing      \* no page, no successor

ASSUME WikiPagesAssumption ==
    /\ Nothing \notin Sources
    /\ Budgets \subseteq [{"injects", "candidates", "rebuilds", "faults"} -> Nat]

\* The id of a page is made of the source and the brief that created it.
Pages == Sources
NoPage == [rev |-> << >>, retired |-> FALSE, successor |-> Nothing]
EmptyWiki == [p \in Pages |-> NoPage]
NoDraft == [cites |-> {}, variant |-> Nothing]

VARIABLES
    page,      \* the mirror's pages
    done,      \* sources with a succeeded run in the mirror
    broken,    \* TRUE: the rows could not be replayed
    log,       \* pagewiki_publications, by ordinal
    life,      \* pagewiki_page_lifecycle, by ordinal
    runs,      \* succeeded pagewiki_maintenance_runs: source and revisions
    inject,    \* the injection under way
    round,     \* the curation round under way
    rebuild,   \* TRUE between a rebuild's commit and the reset of the mirror
    torn,      \* pages whose rows may not be what the mirror has, see Tear
    slug,      \* the slug of the page that a source proposes
    budget     \* what is left of the bounds

vars == <<page, done, broken, log, life, runs, inject, round, rebuild, torn, slug, budget>>
dbVars == <<log, life, runs>>

Idle == [pc |-> "idle"]
NoRow == [page |-> Nothing]

Init ==
    /\ page = EmptyWiki /\ done = {} /\ broken = FALSE
    /\ log = << >> /\ life = << >> /\ runs = {}
    /\ inject = Idle /\ round = Idle /\ rebuild = FALSE
    /\ torn = {}
    /\ slug \in [Sources -> Slugs]
    /\ budget \in Budgets

Spend(kind) == budget[kind] > 0 /\ budget' = [budget EXCEPT ![kind] = @ - 1]

Exists(wiki, p) == wiki[p].rev # << >>
Active(wiki, p) == Exists(wiki, p) /\ ~ wiki[p].retired
Catalog == {p \in Pages : Active(page, p)}
----------------------------------------------------------------------------
(* The mirror: memory.Repository.                                          *)

\* validatePublication: the slug is free, a retired page has to be revived, and
\* the revision builds on the current one.
Admissible(names, wiki, pub) ==
    /\ \A q \in Pages : Exists(wiki, q) /\ names[q] = names[pub.page] => q = pub.page
    /\ wiki[pub.page].retired => pub.revive
    /\ wiki[pub.page].rev = Front(pub.rev)

\* The stored page is the writer's copy, which was active (or is revived).
ActiveAt(rev) == [NoPage EXCEPT !.rev = rev]
Published(wiki, pub) == [wiki EXCEPT ![pub.page] = ActiveAt(pub.rev)]

\* isApplied: exactly this publication has landed, and it lands again as nothing.
\* One that revives carries the page as it was retired, and differs.
Applied(wiki, pub) == ~ pub.revive /\ wiki[pub.page] = ActiveAt(pub.rev)

\* PublishPages, of a single publication.
Publishable(names, wiki, pub) == Applied(wiki, pub) \/ Admissible(names, wiki, pub)

\* Mutant: only that the page is active is checked.
RetirableStale(wiki, req) == Active(wiki, req.page)

Retirable(wiki, req) ==
    Active(wiki, req.page) /\ wiki[req.page].rev = req.rev

Retired(wiki, req) ==
    [wiki EXCEPT ![req.page].retired = TRUE, ![req.page].successor = req.successor]

----------------------------------------------------------------------------
(* hydrate: publications, then retirements, then runs.                     *)

\* One publication; the first that does not fit makes the whole replay fail.
ReplayStep(names, acc, pub) ==
    IF acc.ok /\ Publishable(names, acc.wiki, pub)
      THEN [acc EXCEPT !.wiki = Published(acc.wiki, pub)]
      ELSE [acc EXCEPT !.ok = FALSE]

Replay(names, rows) ==
    FoldLeft(LAMBDA acc, pub : ReplayStep(names, acc, pub),
             [ok |-> TRUE, wiki |-> EmptyWiki], rows)

\* Mutant: a retirement is replayed whatever was published since.
RetireStepForced(wiki, req) ==
    IF Active(wiki, req.page) THEN Retired(wiki, req) ELSE wiki

\* A retirement that its page has outlived is skipped.
RetireStep(wiki, req) == IF Retirable(wiki, req) THEN Retired(wiki, req) ELSE wiki

ReplayRetirements(wiki, rows) == FoldLeft(RetireStep, wiki, rows)

Hydrate ==
    LET replayed == Replay(slug, log)
    IN  [replayed EXCEPT !.wiki = ReplayRetirements(@, life)]

----------------------------------------------------------------------------
(* Writes in two legs.                                                     *)

\* The page a writer has still to insert a row for, if any.
Unwritten(w) == IF w.pc \in {"insert", "insertRetire"} THEN {w.row.page} ELSE {}
InsertsDue == Unwritten(inject) \cup Unwritten(round)

\* The page that a round has decided to retire and has not retired yet.
RetirementDue ==
    IF round.pc \in {"insert", "retire"} /\ round.retire # NoRow THEN {round.retire.page} ELSE {}

\* Page p is written in the mirror, or taken as it is there, while an insert for p
\* is still to come, or while a rebuild has emptied the tables and not yet the
\* mirror: the rows may not follow the mirror.
Tear(p) == torn' = IF p \in InsertsDue \/ rebuild THEN torn \cup {p} ELSE torn

Stored(rows, x) == \E i \in DOMAIN rows : rows[i].page = x.page /\ rows[i].rev = x.rev

\* INSERT ... ON CONFLICT DO NOTHING; a row is identified by its revision.
Recorded(rows, row) == IF Stored(rows, row) THEN rows ELSE Append(rows, row)

Fault == Spend("faults")

\* What a statement that fails leaves behind: nothing, or all of it if only the
\* reply was lost.
Attempted(rows, row) == {rows, Recorded(rows, row)}

----------------------------------------------------------------------------
(* InjectSession, one at a time.                                           *)

NewTarget(create, p) ==
    [create |-> create, page |-> p, base |-> page[p].rev, revive |-> FALSE,
     draft |-> NoDraft, status |-> "planned"]

\* Plans: a page of the source's own, an update of a page of the catalog, or
\* both.
Plans(s) ==
    LET create == NewTarget(TRUE, s)
        updates == {NewTarget(FALSE, p) : p \in Catalog}
    IN {<<create>>} \cup {<<u>> : u \in updates} \cup {<<create, u>> : u \in updates}

BeginInject(s) ==
    /\ inject = Idle /\ ~ rebuild /\ ~ broken
    /\ s \notin done
    /\ Spend("injects")
    /\ \E plan \in Plans(s) :
          inject' = [pc |-> "prepare", source |-> s, targets |-> plan, i |-> 1, row |-> NoRow]
    /\ UNCHANGED <<page, done, broken, dbVars, round, rebuild, torn>>

Target == inject.targets[inject.i]

\* The target at hand is settled; the loop goes on with the next one.
Settle(target, pc, after) ==
    inject' = IF inject.i < Len(inject.targets)
                THEN [inject EXCEPT !.targets[inject.i] = target, !.i = @ + 1, !.pc = pc]
                ELSE [inject EXCEPT !.targets[inject.i] = target, !.i = 1, !.pc = after]

\* resolvePage for a create: it lands on the page that has the slug, if that is
\* retired (revive) or was created by an earlier attempt of this run.
Resolved(t) ==
    LET retired == {q \in Pages : page[q].retired /\ slug[q] = slug[t.page]}
    IN IF retired = {} THEN [t EXCEPT !.base = page[t.page].rev]
       ELSE LET q == CHOOSE q \in retired : TRUE
            IN [t EXCEPT !.page = q, !.base = page[q].rev, !.revive = TRUE]

\* prepareTarget: the page is resolved and the editor writes a draft; or the
\* brief is invalid, the page has changed since it was planned, or the editor
\* fails.
PrepareTarget ==
    /\ inject.pc = "prepare"
    /\ \/ \E v \in Variants :
            LET t == IF Target.create THEN Resolved(Target) ELSE Target
            IN /\ page[t.page].rev = t.base
               /\ Settle([t EXCEPT !.draft = [cites |-> {inject.source}, variant |-> v],
                                   !.status = "ready"], "prepare", "commit")
       \/ Settle([Target EXCEPT !.status = "failed"], "prepare", "commit")
    /\ UNCHANGED <<page, done, broken, dbVars, round, rebuild, torn, budget>>

Row(t) == [page |-> t.page, rev |-> Append(t.base, t.draft), revive |-> t.revive]

\* A draft that changes nothing is not published, unless it revives the page.
Equivalent(t) == ~ t.revive /\ t.base # << >> /\ Last(t.base) = t.draft

\* commitTarget: the mirror's leg of PublishPage.
CommitTarget ==
    /\ inject.pc = "commit" /\ Target.status = "ready" /\ ~ Equivalent(Target)
    /\ Publishable(slug, page, Row(Target))
    /\ page' = Published(page, Row(Target))
    /\ Tear(Target.page)
    /\ inject' = [inject EXCEPT !.pc = "insert", !.row = Row(Target)]
    /\ UNCHANGED <<done, broken, dbVars, round, rebuild, budget>>

\* commitTarget without a publication: nothing to change, a target that failed
\* before, or a conflict.
PassTarget ==
    /\ inject.pc = "commit"
    /\ LET same == Target.status = "ready" /\ Equivalent(Target)
       IN /\ same \/ Target.status = "failed" \/ ~ Publishable(slug, page, Row(Target))
          /\ Settle([Target EXCEPT !.status = IF same THEN "succeeded" ELSE "failed"],
                    "commit", "save")
          /\ IF same THEN Tear(Target.page) ELSE UNCHANGED torn
    /\ UNCHANGED <<page, done, broken, dbVars, round, rebuild, budget>>

\* The database's leg.
InsertPublication ==
    /\ inject.pc = "insert"
    /\ log' = Recorded(log, inject.row)
    /\ Settle([Target EXCEPT !.status = "succeeded", !.base = inject.row.rev], "commit", "save")
    /\ UNCHANGED <<page, done, broken, life, runs, round, rebuild, torn, budget>>

\* It fails: the target has failed, and the mirror keeps the page.
InsertFails ==
    /\ inject.pc = "insert" /\ Fault
    /\ log' \in Attempted(log, inject.row)
    /\ torn' = torn \cup {inject.row.page}
    /\ Settle([Target EXCEPT !.status = "failed"], "commit", "save")
    /\ UNCHANGED <<page, done, broken, life, runs, round, rebuild>>

Targets == {inject.targets[i] : i \in DOMAIN inject.targets}

\* Mutant: one target that landed makes the run a success.
SucceededInPart == \E t \in Targets : t.status = "succeeded"

\* summarizeRun.
Succeeded == \A t \in Targets : t.status = "succeeded"

\* ON CONFLICT DO UPDATE: the source's row is replaced.  Runs that did not succeed
\* are recorded too, but nothing here reads them.
RunRecorded ==
    {r \in runs : r.source # inject.source} \cup
    {r \in {[source |-> inject.source,
             revs |-> {[page |-> t.page, rev |-> t.base] : t \in Targets}]} : Succeeded}

\* SaveMaintenanceRun; if its statement fails, the mirror's record is undone.
SaveRun ==
    /\ inject.pc = "save"
    /\ \/ /\ runs' = RunRecorded
          /\ done' = IF Succeeded THEN done \cup {inject.source} ELSE done
          /\ UNCHANGED budget
       \/ Fault /\ runs' \in {runs, RunRecorded} /\ UNCHANGED done
    /\ inject' = Idle
    /\ UNCHANGED <<page, broken, log, life, round, rebuild, torn>>

----------------------------------------------------------------------------
(* RunCurationRound.  The round judges the catalog as it was at its start. *)

BeginRound ==
    /\ round = Idle /\ ~ broken /\ Catalog # {} /\ budget.candidates > 0
    /\ \E pairs \in SUBSET kSubset(2, Catalog) :
          round' = [pc |-> "judge", snapshot |-> [p \in Catalog |-> page[p].rev],
                    todo |-> pairs \cup {{p} : p \in Catalog \ UNION pairs},
                    retire |-> NoRow, row |-> NoRow]
    /\ UNCHANGED <<page, done, broken, dbVars, inject, rebuild, torn, budget>>

\* Candidates are pairs of pages that look alike and, once these are judged,
\* the single pages that are in no pair.
Candidate(c) ==
    /\ round.pc = "judge" /\ c \in round.todo
    /\ Cardinality(c) = 1 => \A d \in round.todo : Cardinality(d) = 1

\* "keep" or "distinct", a verdict that the second look refutes, or an error.
KeepCandidate(c) ==
    /\ round # Idle /\ Candidate(c)
    /\ round' = [round EXCEPT !.todo = @ \ {c}]
    /\ UNCHANGED <<page, done, broken, dbVars, inject, rebuild, torn, budget>>

SnapshotCites(ps) == UNION {Last(round.snapshot[p]).cites : p \in ps}

\* buildCurationDraft: the draft carries the evidence of all pages of c.  Which
\* page survives (selectSurvivor counts links) is left open.
Rewritten(c, p, v) ==
    [page |-> p, rev |-> Append(round.snapshot[p], [cites |-> SnapshotCites(c), variant |-> v]),
     revive |-> FALSE]
Retirement(p, successor) ==
    [page |-> p, rev |-> round.snapshot[p], successor |-> successor]

\* The mirror's leg of the publication that a verdict asks for: all pages of c go
\* into p, and the one that remains is to be retired next.  With a conflict the
\* candidate has failed.
Rewrite(c, p, v) ==
    /\ round # Idle /\ Candidate(c) /\ p \in c
    /\ Spend("candidates")
    /\ LET row == Rewritten(c, p, v)
           ok == Publishable(slug, page, row)
       IN /\ page' = IF ok THEN Published(page, row) ELSE page
          /\ IF ok THEN Tear(p) ELSE UNCHANGED torn
          /\ round' = [round EXCEPT !.todo = @ \ {c}, !.pc = IF ok THEN "insert" ELSE @,
                 !.row = IF ok THEN row ELSE @,
                 !.retire = IF ok /\ c # {p} THEN Retirement(CHOOSE q \in c \ {p} : TRUE, p)
                                             ELSE NoRow]
    /\ UNCHANGED <<done, broken, dbVars, inject, rebuild>>

\* The quality lane's retirement, without a successor.
RetireOnly(p) ==
    /\ round # Idle /\ Candidate({p})
    /\ Spend("candidates")
    /\ round' = [round EXCEPT !.todo = @ \ {{p}}, !.pc = "retire",
                              !.retire = Retirement(p, Nothing)]
    /\ UNCHANGED <<page, done, broken, dbVars, inject, rebuild, torn>>

\* The publication's insert; a merge goes on to the loser.
InsertCurated ==
    /\ round.pc = "insert"
    /\ \/ /\ log' = Recorded(log, round.row)
          /\ round' = [round EXCEPT !.pc = IF round.retire = NoRow THEN "judge" ELSE "retire"]
          /\ UNCHANGED <<torn, budget>>
       \/ /\ Fault /\ torn' = torn \cup {round.row.page}
          /\ log' \in Attempted(log, round.row)
          /\ round' = [round EXCEPT !.pc = "judge"]
    /\ UNCHANGED <<page, done, broken, life, runs, inject, rebuild>>

\* RetirePage: the mirror's leg, or a conflict.
RetirePage ==
    /\ round.pc = "retire"
    /\ IF Retirable(page, round.retire)
         THEN /\ page' = Retired(page, round.retire) /\ Tear(round.retire.page)
              /\ round' = [round EXCEPT !.pc = "insertRetire", !.row = round.retire]
         ELSE round' = [round EXCEPT !.pc = "judge"] /\ UNCHANGED <<page, torn>>
    /\ UNCHANGED <<done, broken, dbVars, inject, rebuild, budget>>

InsertRetirement ==
    /\ round.pc = "insertRetire"
    /\ \/ life' = Recorded(life, round.row) /\ UNCHANGED <<torn, budget>>
       \/ /\ Fault /\ torn' = torn \cup {round.row.page}
          /\ life' \in Attempted(life, round.row)
    /\ round' = [round EXCEPT !.pc = "judge"]
    /\ UNCHANGED <<page, done, broken, log, runs, inject, rebuild>>

EndRound ==
    /\ round.pc = "judge" /\ round.todo = {} /\ round' = Idle
    /\ UNCHANGED <<page, done, broken, dbVars, inject, rebuild, torn, budget>>

----------------------------------------------------------------------------
(* RebuildPageWiki, under the lock of injections, and a new process.       *)

\* A curation round is not kept out: what it has begun to write is torn.
ClearTables ==
    /\ inject = Idle /\ ~ rebuild /\ ~ broken /\ Spend("rebuilds")
    /\ log' = << >> /\ life' = << >> /\ runs' = {}
    /\ rebuild' = TRUE
    /\ torn' = InsertsDue \cup RetirementDue
    /\ UNCHANGED <<page, done, broken, inject, round>>

ResetMirror ==
    /\ rebuild /\ rebuild' = FALSE
    /\ page' = EmptyWiki /\ done' = {}
    /\ UNCHANGED <<broken, dbVars, inject, round, torn, budget>>

Restart ==
    /\ Fault
    /\ inject' = Idle /\ round' = Idle /\ rebuild' = FALSE
    /\ broken' = ~ Hydrate.ok
    /\ page' = IF Hydrate.ok THEN Hydrate.wiki ELSE EmptyWiki
    /\ done' = {r.source : r \in runs}
    /\ UNCHANGED <<dbVars, torn>>

Next ==
    \/ \E s \in Sources : BeginInject(s)
    \/ PrepareTarget \/ CommitTarget \/ PassTarget
    \/ InsertPublication \/ InsertFails \/ SaveRun
    \/ BeginRound \/ EndRound
    \/ \E c \in SUBSET Pages :
          KeepCandidate(c) \/ \E p \in Pages, v \in Variants : Rewrite(c, p, v)
    \/ \E p \in Pages : RetireOnly(p)
    \/ InsertCurated \/ RetirePage \/ InsertRetirement
    \/ ClearTables \/ ResetMirror \/ Restart

Spec == Init /\ [][Next /\ UNCHANGED slug]_vars
----------------------------------------------------------------------------
Drafts == [cites : SUBSET Sources, variant : Variants]

\* The state has its type; no two pages of the mirror have one slug, and only
\* pages that exist are retired.
TypeOK ==
    /\ page \in [Pages -> [rev : Seq(Drafts), retired : BOOLEAN,
                           successor : Pages \cup {Nothing}]]
    /\ done \subseteq Sources /\ torn \subseteq Pages
    /\ {broken, rebuild} \subseteq BOOLEAN
    /\ \A p, q \in Pages :
          Exists(page, p) /\ Exists(page, q) /\ slug[p] = slug[q] => p = q
    /\ \A p \in Pages : page[p].retired => Exists(page, p)

\* Whenever the process dies, its successor finds the wiki as it was: unless a
\* page is torn, the rows can be replayed, retirements after the publications,
\* and give the mirror's pages, but for the one whose insert is still to come.
MirrorReplays ==
    TypeOK /\ (torn = {} /\ ~ rebuild =>
        /\ Hydrate.ok
        /\ \A p \in Pages \ InsertsDue : Hydrate.wiki[p] = page[p])

\* A run that is stored as succeeded, on which the consumer moves its cursor,
\* has every one of its revisions stored: unless a page is torn, a succeeded
\* session is not missing from the wiki that the next process finds.
SucceededBacked == torn = {} => \A r \in runs : \A x \in r.revs : Stored(log, x)

\* A merge loses no evidence: every source whose evidence the retired page held
\* has it in the history of the successor, whatever was injected between the
\* judgement and the retirement.  A mirror that a rebuild is about to empty is
\* left out: the pages torn before it are no longer marked.
EvidenceKept ==
    ~ rebuild => \A p, q \in Pages \ torn : page[p].retired /\ page[p].successor = q =>
        \A x \in Last(page[p].rev).cites :
            \E i \in DOMAIN page[q].rev : x \in page[q].rev[i].cites
=============================================================================
