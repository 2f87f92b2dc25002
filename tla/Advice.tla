------------------------------- MODULE Advice -------------------------------
(***************************************************************************)
(* AI suggestions for the label of a row, services/ai/service.py, and what *)
(* a classification makes of them. A suggestion never labels a row: it is  *)
(* stored with the context it was asked for, served again while that       *)
(* context stands, and marked accepted or corrected when the row is        *)
(* labelled. The provider answers after a while; what the request read     *)
(* before it called is what the answer is held against.                    *)
(***************************************************************************)
EXTENDS Taxonomy

Model == {"configured", "other"}   \* OpenRouter may answer with another model

VARIABLES
  ops,      \* [Tx -> Seq(Op)]: table ai_operations, oldest first
  asking    \* [Tx -> Question or None]: the call to the provider under way

advice == <<ops, asking>>

\* _build_sanitized_context: the part of the input hash that changes.
Context(t) ==
  LET confirmed == {p \in Present \ {t} :
                      /\ Data[t].name # None /\ Data[p].name = Data[t].name
                      /\ tx[p].verified /\ tx[p].by = "user"
                      /\ tx[p].category # None}
      label(p) == [category |-> cats[tx[p].category].slug,
                   subcategory |-> IF tx[p].subcategory = None THEN None
                                   ELSE subs[tx[p].subcategory].slug]
  IN  [type    |-> tx[t].type,
       history |-> [l \in {label(p) : p \in confirmed} |->
                      Cardinality({p \in confirmed : label(p) = l})]]

AdviceInit ==
  /\ ops = [t \in Tx |-> <<>>]
  /\ asking = [t \in Tx |-> None]

\* The answers stored for the same context by the configured model.
Cached(t) ==
  {i \in DOMAIN ops[t] :
    /\ ops[t][i].model = "configured"
    /\ ops[t][i].status \in {"suggested", "accepted", "corrected"}
    /\ ops[t][i].context = Context(t)}

\* The latest of them serves while its category is there.
Served(t) ==
  IF Cached(t) = {} THEN None
  ELSE ops[t][CHOOSE i \in Cached(t) : \A j \in Cached(t) : j <= i]

Serves(t) == Served(t) # None /\ Served(t).category \in Categories

\* get_ai_suggestion up to the call. An answer from the cache changes nothing.
Ask(t) ==
  /\ Take("ask")
  /\ tx[t] # None /\ asking[t] = None
  /\ \E refresh \in BOOLEAN :
       \/ Serves(t) /\ ~refresh /\ UNCHANGED asking
       \/ /\ Serves(t) => refresh
          /\ asking' = [asking EXCEPT ![t] =
               [context |-> Context(t), cats |-> Categories, trying |-> "configured",
                under |-> [s \in Subcategories |-> subs[s].of]]]
  /\ UNCHANGED <<taxonomy, rules, tx, cited, ops>>

\* What the request will take for an answer: a category it read, with a subcategory it
\* read under it or none.
Acceptable(question) ==
  {l \in [category : question.cats, subcategory : DOMAIN question.under \cup {None}] :
    l.subcategory # None => question.under[l.subcategory] = l.category}

Op(question, label, model, status) ==
  [context |-> question.context, category |-> label.category,
   subcategory |-> label.subcategory, model |-> model, status |-> status]

\* The configured model did not answer, for all the retries and the options left away:
\* the next one is asked. (A refused key ends the call instead.)
FallBack(t) ==
  /\ asking[t] # None /\ asking[t].trying = "configured"
  /\ asking' = [asking EXCEPT ![t].trying = "other"]
  /\ UNCHANGED <<taxonomy, rules, tx, cited, left, ops>>

\* The provider answers, under a name of its own for the model perhaps, or fails; either
\* is stored at once. A refused answer is stored under the model that was asked for, and
\* what it named is not looked at again.
Answer(t) ==
  /\ asking[t] # None
  /\ \/ \E status \in {"failed", "invalid"} :
          ops' = [ops EXCEPT ![t] =
            Append(@, Op(asking[t], [category |-> None, subcategory |-> None],
                         "configured", status))]
     \/ \E label \in Acceptable(asking[t]), model \in {asking[t].trying, "other"} :
          ops' = [ops EXCEPT ![t] = Append(@, Op(asking[t], label, model, "suggested"))]
  /\ asking' = [asking EXCEPT ![t] = None]
  /\ UNCHANGED <<taxonomy, rules, tx, cited, left>>

Open(t) == {i \in DOMAIN ops[t] : ops[t][i].status = "suggested"}

\* track_user_classification_feedback: the latest open suggestion is judged.
Judged(t, label) ==
  LET i  == CHOOSE j \in Open(t) : \A k \in Open(t) : k <= j
      op == ops[t][i]
  IN  IF Open(t) = {} THEN ops
      ELSE [ops EXCEPT ![t][i].status =
             IF op.category = label.category /\ op.subcategory = label.subcategory
             THEN "accepted" ELSE "corrected"]

\* classify_transaction, from the user or the agent: the row and what was suggested.
Classified(t, read, label, teach, past) ==
  /\ Relabel(t, read, label, teach, past)
  /\ ops' = Judged(t, label)

\* The user labels a row in the application.
Classify(t, c, s) ==
  /\ Take("classify")
  /\ tx[t] # None /\ c \in Categories /\ s \in Subcategories \cup {None}
  /\ \E teach, past \in BOOLEAN : Classified(t, tx[t], Label(c, s), teach, past)
  /\ UNCHANGED asking

-----------------------------------------------------------------------------
(* Properties.                                                             *)

LabelFits(label) ==
  /\ label.category \in Categories \cup {None}
  /\ label.subcategory \in Subcategories \cup {None}
  /\ ~label.strayed => Fits(label.category, label.subcategory)

\* What a cached answer would put before the user is a category that is there with a
\* subcategory of its own or one that is gone.
ServedFits(op) ==
  op.category \in Categories =>
    \/ Fits(op.category, op.subcategory)
    \/ subs[op.subcategory] = Gone

\* However categories and subcategories are created, renamed and deleted while the user,
\* the rules, the agent and late answers label rows: what a row, a rule, a bill or a suggestion
\* names is a living category with a living subcategory of that category. A pair can only
\* come apart where a rule was given a category alone, or where two sessions labelled
\* the row at once (services/transactions.py:341, api/routes/rules.py:80).
LabelsFit ==
  /\ \A t \in Present : LabelFits(tx[t])
  /\ \A n \in Name : rules[n] # None => LabelFits(rules[n])
  /\ \A d \in Due : dues[d] # None => dues[d].category \in Categories \cup {None}
  /\ \A t \in Present : Served(t) # None => ServedFits(Served(t))
=============================================================================
