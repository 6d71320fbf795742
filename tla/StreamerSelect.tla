--------------------------- MODULE StreamerSelect ---------------------------
(***************************************************************************)
(* Streamer::Stream (bindings/modules/streamer/streamer.cc): which of the  *)
(* entities around the players are created when the server can show no     *)
(* more than max_visible of them.  Every player outside has an iterator    *)
(* over the entities in range, nearest first, and the players take turns   *)
(* in batches.                                                             *)
(*                                                                         *)
(* The spatial index is Boost's: in_range[p] is what the box query would   *)
(* return for player p, and an iterator sees the first `nearest` of it.    *)
(***************************************************************************)
EXTENDS Integers, Sequences, SequencesExt

CONSTANTS
  Surroundings,   \* bound: what a player may have in range, nearest first
  MaxPlayers,     \* bound: players in an update
  MaxLimit,       \* bound: the largest max_visible_
  MinQuery        \* an iterator sees at least this many (100 in the code)

ASSUME SelectAssumption ==
  /\ MaxPlayers \in Nat \ {0}
  /\ MaxLimit \in Nat
  /\ MinQuery \in Nat
  /\ \A seq \in Surroundings : seq \in Seq(Range(seq)) /\ IsInjective(seq)

VARIABLES
  max_visible,      \* max_visible_
  players,          \* updates.size()
  in_range,         \* for each player outside, the entities in range
  pc,
  position,         \* how many entities each player's iterator has passed
  iterators,        \* query_iterators: the players that still have one
  iter,             \* index of the iterator whose turn it is
  max_per_player,   \* size of a batch
  batch_size,       \* how much of its batch the iterator has taken
  entities          \* the selection

inputs == <<max_visible, players, in_range>>
selectVars == <<inputs, pc, position, iterators, iter, max_per_player, batch_size,
                entities>>

PlayerIndex == 1 .. players
Candidate == UNION {Range(seq) : seq \in Surroundings}
Outside == DOMAIN in_range
Larger(a, b) == IF a > b THEN a ELSE b
Smaller(a, b) == IF a < b THEN a ELSE b

\* max_visible_ / updates.size(): players inside a building count as well.
Share == max_visible \div players

\* The k of nearest(position, k).
QueryLimit == Larger(Share * 2, MinQuery)

\* What the iterator of player p runs through before qend().
Query(p) == SubSeq(in_range[p], 1, Smaller(QueryLimit, Len(in_range[p])))

SelectTypeOK ==
  /\ max_visible \in 0 .. MaxLimit
  /\ players \in 1 .. MaxPlayers
  /\ Outside \subseteq PlayerIndex
  /\ in_range \in [Outside -> Surroundings]
  /\ pc \in {"while", "for", "batch", "done"}
  /\ position \in [Outside -> Nat]
  /\ iterators \in Seq(Outside)
  /\ iter \in Nat \ {0}
  /\ max_per_player \in Nat
  /\ batch_size \in Nat
  /\ pc = "batch" => iter <= Len(iterators) /\ batch_size <= max_per_player
  /\ entities \in SUBSET Candidate

\* Everything before the loop.  (An update without players returns at once.)
SelectInit ==
  /\ max_visible \in 0 .. MaxLimit
  /\ players \in 1 .. MaxPlayers
  /\ \E outside \in SUBSET (1 .. players) :
       in_range \in [outside -> Surroundings]
  /\ pc = "while"
  /\ position = [p \in DOMAIN in_range |-> 0]
  /\ iterators \in SetToSeqs(DOMAIN in_range)
  /\ \A i, j \in DOMAIN iterators : i < j => iterators[i] < iterators[j]
  /\ iter = 1
  /\ max_per_player = Share
  /\ batch_size = 0
  /\ entities = {}
-----------------------------------------------------------------------------
\* Mutant: batches of at least two are forgotten.
NewBatchSizeUnbounded(free) == free \div players

\* std::max((max_visible_ - entities.size()) / updates.size(), 2u)
NewBatchSize(free) == Larger(free \div players, 2)

NextRound ==
  /\ pc = "while"
  /\ \/ /\ Cardinality(entities) < max_visible /\ iterators # <<>>
        /\ max_per_player' = NewBatchSize(max_visible - Cardinality(entities))
        /\ iter' = 1
        /\ pc' = "for"
     \/ /\ Cardinality(entities) >= max_visible \/ iterators = <<>>
        /\ pc' = "done"
        /\ UNCHANGED <<max_per_player, iter>>
  /\ UNCHANGED <<inputs, position, iterators, batch_size, entities>>

\* Mutant: the batch is computed anew for every player's turn.
NextTurnNewBatch ==
  /\ pc = "for"
  /\ \/ /\ iter > Len(iterators) \/ Cardinality(entities) = max_visible
        /\ pc' = "while"
        /\ UNCHANGED <<batch_size, max_per_player>>
     \/ /\ iter <= Len(iterators) /\ Cardinality(entities) # max_visible
        /\ pc' = "batch"
        /\ batch_size' = 0
        /\ max_per_player' = NewBatchSize(max_visible - Cardinality(entities))
  /\ UNCHANGED <<inputs, position, iterators, iter, entities>>

\* The head of the for loop over the iterators.
NextTurn ==
  /\ pc = "for"
  /\ \/ /\ iter > Len(iterators) \/ Cardinality(entities) = max_visible
        /\ pc' = "while"
        /\ UNCHANGED batch_size
     \/ /\ iter <= Len(iterators) /\ Cardinality(entities) # max_visible
        /\ pc' = "batch"
        /\ batch_size' = 0
  /\ UNCHANGED <<inputs, position, iterators, iter, max_per_player, entities>>

\* Mutant: the break in the loop over a batch was dropped.
NeverFull(selection) == FALSE

\* The condition of the break after the insertion.
Full(selection) == Cardinality(selection) = max_visible

\* The iterator has reached its end, or has taken a batch, or the break was
\* taken.
EndsTurn ==
  \/ position[iterators[iter]] = Len(Query(iterators[iter]))
  \/ batch_size = max_per_player
  \/ Full(entities)

\* entities.insert(query_iterator->second).  The break skips both increments.
Take ==
  /\ pc = "batch" /\ ~EndsTurn
  /\ LET p == iterators[iter]
     IN  /\ entities' = entities \cup {Query(p)[position[p] + 1]}
         /\ \/ /\ Full(entities')
               /\ UNCHANGED <<position, batch_size>>
            \/ /\ ~Full(entities')
               /\ position' = [position EXCEPT ![p] = @ + 1]
               /\ batch_size' = batch_size + 1
  /\ UNCHANGED <<inputs, pc, iterators, iter, max_per_player>>

\* Mutant: an iterator is done with its first full batch.
EndTurnErases ==
  /\ pc = "batch" /\ EndsTurn
  /\ pc' = "for"
  /\ iterators' = RemoveAt(iterators, iter)
  /\ UNCHANGED <<inputs, position, iter, max_per_player, batch_size, entities>>

\* An iterator that could not fill its batch is erased.
EndTurn ==
  /\ pc = "batch" /\ EndsTurn
  /\ pc' = "for"
  /\ \/ /\ batch_size # max_per_player
        /\ iterators' = RemoveAt(iterators, iter)
        /\ UNCHANGED iter
     \/ /\ batch_size = max_per_player
        /\ iter' = iter + 1
        /\ UNCHANGED iterators
  /\ UNCHANGED <<inputs, position, max_per_player, batch_size, entities>>

Returned == pc = "done" /\ UNCHANGED selectVars

SelectNext == NextRound \/ NextTurn \/ Take \/ EndTurn \/ Returned

\* The function runs on the background thread and nothing interrupts it.
SelectSpec == SelectInit /\ [][SelectNext]_selectVars /\ WF_selectVars(SelectNext)
-----------------------------------------------------------------------------
(***************************************************************************)
(* Properties.                                                             *)
(***************************************************************************)
Truncated == \E p \in Outside : Len(in_range[p]) > QueryLimit

Reachable == UNION {Range(in_range[p]) : p \in Outside}

\* The first n entities of a player's query.
First(p, n) == {Query(p)[i] : i \in 1 .. Smaller(n, Len(Query(p)))}

\* The server's limit is respected in the middle of a batch as well
\* (entities.size() == max_visible_ is tested for equality only).
AtMostMaxVisible == Cardinality(entities) <= max_visible

\* The state is well formed and never holds more than the limit.
SelectInv == SelectTypeOK /\ AtMostMaxVisible

\* No entity in range is left out for want of space that there is, as long
\* as no player has more than QueryLimit of them in range.
FillsUp ==
  pc = "done" /\ ~Truncated =>
    Cardinality(entities) = Smaller(max_visible, Cardinality(Reachable))

\* "We begin by ensuring that the player's share of the maximum visible
\* entities is represented" (streamer.cc:66), where the share is two at least
\* (a share of one can go to somebody else: the smallest batch is two):
\* nobody's first batch takes from anybody's share, and the nearest entities
\* of a player go first.
SharesRepresented ==
  pc = "done" /\ Share >= 2 =>
    \A p \in Outside : First(p, Share) \subseteq entities

\* After every round those whose iterators are still there have been given the
\* same number of their entities, wherever they are in the list of players and
\* however many others ran out in that round.
TakeTurns ==
  pc = "while" /\ ~Full(entities) =>
    \A i, j \in 1 .. Len(iterators) :
      position[iterators[i]] = position[iterators[j]]

\* The two meanings of a fair selection, during the rounds and at their end.
SharesFair == SharesRepresented /\ TakeTurns

\* The three nested loops end, with players that share all their entities too.
Terminates == <>(pc = "done")
=============================================================================
