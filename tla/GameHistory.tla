----------------------------- MODULE GameHistory -----------------------------
(***************************************************************************)
(* The list of the games played last, the latest first: what a game that   *)
(* starts does to it.  Settings has the list on the disk, FrontendMenu the *)
(* one the menu shows.                                                     *)
(***************************************************************************)
EXTENDS Integers, Sequences

CONSTANT MaxHistory     \* MAX_HISTORY

ASSUME HistoryAssumption == MaxHistory \in Nat \ {0}

\* remove_if and erase: the list with none of the entries of a game.
Without(list, g) ==
    LET rest[n \in 0..Len(list)] == IF n = 0 THEN <<>>
                                    ELSE IF list[n] = g THEN rest[n - 1]
                                    ELSE Append(rest[n - 1], list[n])
    IN  rest[Len(list)]

\* Mutant of AddToHistoryList: an earlier entry of the game stays.
AddToHistoryTwice(list, g) ==
    LET longer == <<g>> \o list
    IN  SubSeq(longer, 1, IF Len(longer) > MaxHistory THEN MaxHistory
                                                      ELSE Len(longer))

AddToHistoryList(list, g) ==
    LET longer == <<g>> \o Without(list, g)
    IN  SubSeq(longer, 1, IF Len(longer) > MaxHistory THEN MaxHistory
                                                      ELSE Len(longer))
=============================================================================
