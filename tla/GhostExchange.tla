--------------------------- MODULE GhostExchange ---------------------------
(***************************************************************************)
(* What bringing ghosts up to date promises, whatever messages carry it    *)
(* out.                                                                    *)
(*                                                                         *)
(* Every rank publishes a value per tag again and again, and collects, in  *)
(* between, the values of the ranks it holds ghosts of.  The n-th time it  *)
(* collects what they have published the n-th time, although they may have *)
(* published more by then and other tags are under way; and it is not      *)
(* through before it has collected from all of them.                       *)
(***************************************************************************)
EXTENDS Naturals, Sequences

CONSTANTS
  Proc,     \* the ranks
  Links,    \* the pairs <<owner, ghost>> that share entities
  Tags,     \* what is published
  Value     \* what a rank may publish

VARIABLES
  published,  \* published[p][t]: what p has published, in order
  open,       \* open[p]: the tags p has published and is not through with
  missing,    \* missing[p][t]: the links p has still to collect from
  ghost       \* ghost[t][l]: what the ghosts of l[2] have last got from l[1]

vars == <<published, open, missing, ghost>>

Init ==
  /\ published = [p \in Proc |-> [t \in Tags |-> <<>>]]
  /\ open = [p \in Proc |-> {}]
  /\ missing = [p \in Proc |-> [t \in Tags |-> {}]]
  /\ ghost \in [Tags -> [Links -> Value]]

(* A rank that shares nothing has nothing to wait for: it may publish a    *)
(* tag again without having closed it.                                     *)
Isolated(p) == \A l \in Links : p \notin {l[1], l[2]}

Publish(p, t) ==
  /\ \E v \in Value : published' = [published EXCEPT ![p][t] = Append(@, v)]
  /\ UNCHANGED ghost
  /\ t \notin open[p] \/ Isolated(p)
  /\ open' = [open EXCEPT ![p] = @ \cup {t}]
  /\ missing' = [missing EXCEPT ![p][t] = {l \in Links : l[2] = p}]

(* The value of the owner with the number of the collector's own turn.     *)
Collect(p, t, l) ==
  LET turn == Len(published[p][t])
  IN /\ l \in missing[p][t]
     /\ turn <= Len(published[l[1]][t])
     /\ ghost' = [ghost EXCEPT ![t][l] = published[l[1]][t][turn]]
     /\ missing' = [missing EXCEPT ![p][t] = @ \ {l}]
     /\ UNCHANGED <<published, open>>

Close(p, t) ==
  /\ missing[p][t] = {}
  /\ UNCHANGED <<published, missing, ghost>>
  /\ t \in open[p]
  /\ open' = [open EXCEPT ![p] = @ \ {t}]

Next ==
  \E p \in Proc, t \in Tags :
    \/ Publish(p, t)
    \/ \E l \in Links : Collect(p, t, l)
    \/ Close(p, t)

Spec == Init /\ [][Next]_vars
=============================================================================
