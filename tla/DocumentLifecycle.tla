--------------------------- MODULE DocumentLifecycle ---------------------------
(***************************************************************************)
(* What the pipeline promises to a client of one server, with no jobs, no  *)
(* claims, no attempts and no restarts in sight: a document is accepted,   *)
(* prepared for search, mined for memories, and is then ready, unless it   *)
(* fails or is removed.  JobQueue implements it (JobQueueRefinement).      *)
(***************************************************************************)
EXTENDS Naturals, Sequences

CONSTANTS
    Bodies,  \* what can be submitted
    Nothing  \* nothing published, nothing remembered

VARIABLE view  \* per document, in the order of acceptance

Phases == {"preparing", "remembering", "ready", "failed", "gone"}

\* `searchable` and `remembered`: the bodies the searchable chunks and the
\* memories were made from.
Entry == [body: Bodies, phase: Phases,
          searchable: Bodies \cup {Nothing}, remembered: Bodies \cup {Nothing}]

TypeOK == view \in Seq(Entry)

Init == view = <<>>

Accept(body) ==
    view' = Append(view, [body |-> body, phase |-> "preparing",
                          searchable |-> Nothing, remembered |-> Nothing])

\* A body under preparation is never replaced underneath its preparation.
Replace(d, body) ==
    /\ view[d].phase \in {"remembering", "ready", "failed"}
    /\ view' = [view EXCEPT ![d].body = body, ![d].phase = "preparing"]

\* Search switches to the accepted body at once, and only to that body.
Publish(d, phase) ==
    /\ view[d].phase = "preparing"
    /\ phase \in {"remembering", "ready"}
    /\ view' = [view EXCEPT ![d].searchable = view[d].body, ![d].phase = phase]

Remember(d) ==
    /\ view[d].phase = "remembering"
    /\ view' = [view EXCEPT ![d].remembered = view[d].body, ![d].phase = "ready"]

\* A failure keeps what is searchable.
Fail(d) ==
    /\ view[d].phase \in {"preparing", "remembering"}
    /\ view' = [view EXCEPT ![d].phase = "failed"]

Remove(d) ==
    /\ view[d].phase # "gone"
    /\ view' = [view EXCEPT ![d].phase = "gone"]

Next ==
    \/ \E body \in Bodies : Accept(body)
    \/ \E d \in DOMAIN view :
          \/ \E body \in Bodies : Replace(d, body)
          \/ \E phase \in {"remembering", "ready"} : Publish(d, phase)
          \/ Remember(d)
          \/ Fail(d)
          \/ Remove(d)

Spec == Init /\ [][Next]_view

\* Search answers from the body accepted last, for every document that is past
\* its preparation and has not failed.
SearchIsCurrent ==
    \A d \in DOMAIN view :
        view[d].phase \in {"remembering", "ready"} => view[d].searchable = view[d].body
=============================================================================
