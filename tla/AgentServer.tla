---------------------------- MODULE AgentServer ----------------------------
(***************************************************************************)
(* The MCP server an agent reads and labels the ledger through:            *)
(* mcp/server.py, mcp/service.py, mcp/validators.py and the pages of       *)
(* services/transactions.py.                                               *)
(*                                                                         *)
(* A call waits for the gate, a semaphore of one, and then runs on a       *)
(* thread: it counts itself against the rate limit, reads, and for a       *)
(* classification writes. A cancelled call lets go of the gate, but its    *)
(* thread runs on. The agent here may walk through one listing page by     *)
(* page with the cursor it is given, beside other calls.                   *)
(***************************************************************************)
EXTENDS Advice, Reports, SequencesExt

CONSTANTS
  Call,       \* bound: the calls a behaviour may make
  Requests,   \* what may be asked for, other than the pages of a walk
  Walks,      \* the listings that may be walked through
  Limit,      \* RATE_LIMIT_PER_MINUTE
  Window,     \* the minute, in ticks of the clock
  PageMax     \* MAX_RESULTS

Listings == {"get_unclassified_spends", "search_transactions"}

ASSUME AgentServerAssumption ==
  /\ IsFiniteSet(Call) /\ Call \subseteq Nat /\ None \notin Call
  /\ Limit \in Nat \ {0} /\ Window \in Nat \ {0} /\ PageMax \in Nat \ {0}
  /\ \A w \in Walks : w.tool \in Listings /\ w.limit \in Nat /\ w.least \in Nat
  /\ \A r \in Requests :
       \/ r.tool = "report"
       \/ /\ r.tool = "classify_transaction" /\ r.tx \in Tx \cup {None} /\ r.slug \in Slug
          /\ r.sub \in Slug \cup {None} /\ r.teach \in BOOLEAN /\ r.past \in BOOLEAN

VARIABLES
  calls,     \* [Call -> CallState or None]
  gate,      \* the call that holds the semaphore, or None
  stamps,    \* _call_timestamps
  clock,
  walk,      \* Walk or None
  watch      \* history: what happened to the listing since the walk began

\* What an agent that turns the pages of a listing remembers.
Walk == [tool : Listings, limit : Nat, least : Nat, cursor : Nat, seen : SUBSET Tx,
         repeats : Nat, state : {"asked", "more", "finished", "failed"}]

ASSUME WalkAssumption == None \notin Walk

server == <<calls, gate, stamps, clock>>
agent == <<walk, watch>>

AgentInit ==
  /\ calls = [k \in Call |-> None]
  /\ gate = None
  /\ stamps = <<>>
  /\ clock = 0
  /\ walk = None
  /\ watch = [steady |-> {}, departed |-> 0, arrived |-> 0]

Arrived(request) ==
  [request |-> request, phase |-> "waiting", orphan |-> FALSE, at |-> None, counted |-> FALSE,
   read |-> None, label |-> None, page |-> None]

InPhase(k, phase) == calls[k] # None /\ calls[k].phase = phase
Unused == {k \in Call : calls[k] = None}
Working == {"entered", "checked", "counted", "resolved", "done"}

-----------------------------------------------------------------------------
(* Pages.                                                                  *)

\* list_transactions as the two tools call it, newest first.
Listed(tool) ==
  {t \in Present :
    /\ tx[t].type # "not_a_transaction" /\ ~tx[t].flagged
    /\ tool = "get_unclassified_spends" => tx[t].review
    /\ tool = "search_transactions" => Data[t].direction = "debit"}

Day(t) == Absolute(MonthOf(t)) * 31 + Data[t].day

\* _apply_sort: newest first, and by id within a day.
Before(t, u) == Day(t) > Day(u) \/ (Day(t) = Day(u) /\ t < u)

\* How many of the rows come before one of them.
Offset(t, rows) == Cardinality({u \in rows : Before(u, t)})

\* validate_limit_arg.
PageSize(limit) == IF limit > PageMax THEN PageMax ELSE limit

\* OFFSET and LIMIT of a query.
Slice(rows, offset, limit) ==
  {t \in rows : Offset(t, rows) >= offset /\ Offset(t, rows) < offset + limit}

\* Mutant: the next page starts after all that was fetched.
PageAfterFetched(r) ==
  LET size    == PageSize(r.limit)
      fetched == Slice(Listed(r.tool), r.cursor, size + 1)
      kept    == {t \in fetched : Data[t].amount >= r.least}
  IN  [items |-> Slice(kept, 0, size), more |-> Cardinality(kept) > size,
       next |-> r.cursor + Cardinality(fetched)]

\* One row more than the page is fetched to know if there are more; the bound on the
\* amount is applied to what was fetched, the extra row included.
Page(r) ==
  LET size    == PageSize(r.limit)
      fetched == Slice(Listed(r.tool), r.cursor, size + 1)
      kept    == {t \in fetched : Data[t].amount >= r.least}
  IN  [items |-> Slice(kept, 0, size), more |-> Cardinality(kept) > size,
       next |-> r.cursor + size]

-----------------------------------------------------------------------------
(* A call.                                                                 *)

Send(k, request, step) ==
  /\ Take(step)
  /\ k \in Unused /\ \A j \in Unused : k <= j
  /\ calls' = [calls EXCEPT ![k] = Arrived(request)]
  /\ UNCHANGED <<taxonomy, rules, tx, cited, advice, gate, stamps, clock>>

Request(k) ==
  \E r \in Requests :
    /\ Send(k, r, IF r.tool = "report" THEN "report" ELSE "label")
    /\ UNCHANGED walk

PageRequest(w) == [tool |-> w.tool, limit |-> w.limit, least |-> w.least, cursor |-> w.cursor]

StartWalk(k) ==
  /\ walk = None
  /\ \E w \in Walks :
       /\ walk' = [tool |-> w.tool, limit |-> w.limit, least |-> w.least, cursor |-> 0,
                   seen |-> {}, repeats |-> 0, state |-> "asked"]
       /\ Send(k, PageRequest(walk'), "page")

NextPage(k) ==
  /\ walk # None /\ walk.state = "more"
  /\ walk' = [walk EXCEPT !.state = "asked"]
  /\ Send(k, PageRequest(walk), "page")

Enter(k) ==
  /\ InPhase(k, "waiting") /\ gate = None
  /\ gate' = k
  /\ calls' = [calls EXCEPT ![k].phase = "entered"]
  /\ UNCHANGED <<taxonomy, rules, tx, cited, left, advice, stamps, clock, walk>>

Trimmed == SelectInSeq(stamps, LAMBDA s : s >= clock - Window)
Recent ==
  IF Trimmed = 0 THEN <<>> ELSE SubSeq(stamps, Trimmed, Len(stamps))

\* Mutant: one call more than the limit.
CheckRateLate(k) ==
  /\ InPhase(k, "entered")
  /\ stamps' = Recent
  /\ calls' = [calls EXCEPT ![k].at = clock,
                            ![k].phase = IF Len(Recent) > Limit THEN "done" ELSE "checked"]
  /\ UNCHANGED <<taxonomy, rules, tx, cited, left, advice, gate, clock, walk>>

\* _check_rate_limit up to its answer: the stamps before the first recent one go.
CheckRate(k) ==
  /\ InPhase(k, "entered")
  /\ stamps' = Recent
  /\ calls' = [calls EXCEPT ![k].at = clock,
                            ![k].phase = IF Len(Recent) >= Limit THEN "done" ELSE "checked"]
  /\ UNCHANGED <<taxonomy, rules, tx, cited, left, advice, gate, clock, walk>>

\* The stamp is appended: another thread may have come between.
CountCall(k) ==
  /\ InPhase(k, "checked")
  /\ stamps' = Append(stamps, calls[k].at)
  /\ calls' = [calls EXCEPT ![k].phase = "counted", ![k].counted = TRUE]
  /\ UNCHANGED <<taxonomy, rules, tx, cited, left, advice, gate, clock, walk>>

\* The thread is done; without a page it has an error or a plain answer.
Done(k, page) == calls' = [calls EXCEPT ![k].phase = "done", ![k].page = page]

\* A page, unless the limit is refused, the query times out, or a row on it does not
\* pass validate_agent_dto.
ReadPage(k) ==
  LET r == calls[k].request IN
  /\ InPhase(k, "counted") /\ r.tool \in Listings
  /\ \/ /\ r.limit > 0 /\ \A t \in Page(r).items : ~Data[t].unfit
        /\ Done(k, Page(r))
     \/ Done(k, None)
  /\ UNCHANGED <<taxonomy, rules, tx, cited, left, advice, gate, stamps, clock, walk>>

\* Any of the other reading tools: what it tells is in Reports.
ReadReport(k) ==
  /\ InPhase(k, "counted") /\ calls[k].request.tool = "report"
  /\ Done(k, None)
  /\ UNCHANGED <<taxonomy, rules, tx, cited, left, advice, gate, stamps, clock, walk>>

\* classify_transaction finds the label by its slugs and loads the row. Asked to label
\* past rows too it reads a name the row does not have, and fails before it writes.
Resolve(k) ==
  LET r     == calls[k].request
      found == Hinted(r.slug, r.sub)
      known == /\ r.tx # None /\ tx[r.tx] # None /\ found.category # None
               /\ (r.sub # None => found.subcategory # None) /\ ~r.past
  IN
  /\ InPhase(k, "counted") /\ r.tool = "classify_transaction"
  /\ \/ /\ known
        /\ calls' = [calls EXCEPT ![k].phase = "resolved", ![k].read = tx[r.tx],
                                  ![k].label = Label(found.category, found.subcategory)]
     \/ ~known /\ Done(k, None)
  /\ UNCHANGED <<taxonomy, rules, tx, cited, left, advice, gate, stamps, clock, walk>>

\* The write of what was resolved. A label that has gone fails on its foreign keys.
Commit(k) ==
  LET c == calls[k] IN
  /\ InPhase(k, "resolved")
  /\ \/ Classified(c.request.tx, c.read, c.label, c.request.teach, FALSE)
     \/ /\ ~(c.label.category \in Categories /\ Fits(c.label.category, c.label.subcategory))
        /\ UNCHANGED <<taxonomy, rules, tx, cited, ops>>
  /\ Done(k, None)
  /\ UNCHANGED <<left, asking, gate, stamps, clock, walk>>

\* What the agent makes of the answer to its walk.
Told(k) ==
  LET page == calls[k].page IN
  IF calls[k].request.tool \notin Listings THEN walk
  ELSE IF page = None THEN [walk EXCEPT !.state = "failed"]
  ELSE [walk EXCEPT !.seen = @ \cup page.items,
                    !.repeats = @ + Cardinality(page.items \cap walk.seen),
                    !.cursor = page.next, !.state = IF page.more THEN "more" ELSE "finished"]

Over(k) == [calls EXCEPT ![k].phase = "over", ![k].read = None, ![k].label = None,
                         ![k].page = None]

\* The answer goes out and the gate opens; an orphan's goes nowhere.
Reply(k) ==
  /\ InPhase(k, "done")
  /\ gate' = IF calls[k].orphan THEN gate ELSE None
  /\ walk' = IF calls[k].orphan THEN walk ELSE Told(k)
  /\ calls' = Over(k)
  /\ UNCHANGED <<taxonomy, rules, tx, cited, left, advice, stamps, clock>>

\* The agent cancels a call, or its client gives it up: a waiting one is gone, a running
\* one lets go of the gate and its thread runs on.
Cancel(k) ==
  /\ Take("cancel")
  /\ calls[k] # None /\ ~calls[k].orphan
  /\ \/ /\ InPhase(k, "waiting")
        /\ calls' = Over(k)
        /\ UNCHANGED gate
     \/ /\ calls[k].phase \in Working
        /\ calls' = [calls EXCEPT ![k].orphan = TRUE]
        /\ gate' = None
  /\ walk' = IF calls[k].request.tool \in Listings THEN [walk EXCEPT !.state = "failed"] ELSE walk
  /\ UNCHANGED <<taxonomy, rules, tx, cited, advice, stamps, clock>>

Tick ==
  /\ Take("tick")
  /\ clock' = clock + 1
  /\ UNCHANGED <<taxonomy, rules, tx, cited, advice, calls, gate, stamps, walk>>

Calls ==
  \/ \E k \in Call :
       \/ Request(k) \/ StartWalk(k) \/ NextPage(k) \/ Enter(k) \/ CheckRate(k) \/ CountCall(k)
       \/ ReadPage(k) \/ ReadReport(k) \/ Resolve(k) \/ Commit(k) \/ Reply(k) \/ Cancel(k)
  \/ Tick

\* History: what a step does to the listing that is walked through.
Watched ==
  watch' =
    IF walk' = None THEN watch
    ELSE IF walk = None THEN [watch EXCEPT !.steady = Listed(walk'.tool)]
    ELSE IF walk.state \in {"finished", "failed"} THEN watch
    ELSE LET before == Listed(walk.tool)
             after  == Listed(walk.tool)'
         IN  [steady   |-> watch.steady \cap after,
              departed |-> watch.departed + Cardinality(before \ after),
              arrived  |-> watch.arrived + Cardinality(after \ before)]

-----------------------------------------------------------------------------
(* Properties.                                                             *)

\* However the pages of a walk interleave with rows that arrive, are labelled or are
\* reported: when the walk ends without a bound on the amount, it has missed at most as
\* many of the rows that were listed throughout as have left the listing, and shown at
\* most as many twice as have come to it (mcp/service.py:821, services/transactions.py:101).
WalkMisses ==
  walk # None /\ walk.state = "finished" /\ walk.least = 0 =>
    /\ Cardinality(watch.steady \ walk.seen) <= watch.departed
    /\ walk.repeats <= watch.arrived

\* In any minute at most the limit's number of calls are let through, and one more for
\* each that was cancelled while it ran (mcp/service.py:110).
RateHolds ==
  \A from \in 0..clock :
    Cardinality({k \in Call : calls[k] # None /\ calls[k].counted
                              /\ calls[k].at \in from..(from + Window)})
      <= Limit + Cardinality({k \in Call : calls[k] # None /\ calls[k].orphan})
=============================================================================
