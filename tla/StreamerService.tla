--------------------------- MODULE StreamerService ---------------------------
(***************************************************************************)
(* What Streamer objects promise JavaScript, as if everything happened on  *)
(* the thread that asks: stream() is answered with a selection made of the *)
(* entities the streamer had and of where the players were when it was     *)
(* called, and the answers are given one at a time in the order of the     *)
(* calls.  A streamer that is dropped takes none of its answers with it.   *)
(***************************************************************************)
EXTENDS Naturals, Sequences

CONSTANTS
  Streamer,             \* streamer ids
  Entity,               \* records with the id and the place of an entity
  View,                 \* where players may be seen
  Selections(_, _)      \* what may be shown of some entities in a view

VARIABLES
  contents,     \* the entities of each streamer
  view,         \* where the tracked players were last seen
  owed,         \* the calls without an answer, with the acceptable ones
  given         \* the answers, in the order they were given

serviceVars == <<contents, view, owed, given>>

ServiceInit ==
  /\ contents = [s \in Streamer |-> {}]
  /\ owed = <<>>
  /\ given = <<>>

Put(s, e) ==
  /\ contents' = [contents EXCEPT ![s] = @ \cup {e}]
  /\ UNCHANGED <<view, owed, given>>

Remove(s, id) ==
  /\ contents' = [contents EXCEPT ![s] = {e \in @ : e.id # id}]
  /\ UNCHANGED <<view, owed, given>>

Drop(s) ==
  /\ contents' = [contents EXCEPT ![s] = {}]
  /\ UNCHANGED <<view, owed, given>>

Look ==
  /\ view' \in View
  /\ UNCHANGED <<contents, owed, given>>

Ask(s) ==
  /\ owed' = Append(owed, [call |-> Len(given) + Len(owed) + 1,
                           from |-> Selections(contents[s], view)])
  /\ UNCHANGED <<contents, view, given>>

\* One of the acceptable answers is chosen.
Decide ==
  /\ \E i \in 1 .. Len(owed) : \E answer \in owed[i].from :
       owed' = [owed EXCEPT ![i].from = {answer}]
  /\ UNCHANGED <<contents, view, given>>

Give ==
  /\ owed # <<>>
  /\ \E answer \in Head(owed).from :
       given' = Append(given, [call |-> Head(owed).call, answer |-> answer])
  /\ owed' = Tail(owed)
  /\ UNCHANGED <<contents, view>>

ServiceNext ==
  \/ \E s \in Streamer :
       \/ \E e \in Entity : Put(s, e) \/ Remove(s, e.id)
       \/ Drop(s)
       \/ Ask(s)
  \/ Look
  \/ Decide
  \/ Give

ServiceSpec == ServiceInit /\ [][ServiceNext]_serviceVars
=============================================================================
