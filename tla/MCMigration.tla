---------------------------- MODULE MCMigration ----------------------------
(* Small histories for Migration: three days of four slots, two an hour. *)
EXTENDS Migration, TLC

CONSTANTS orphan

LOCAL H(raw, inside, minute, hourly, daily, other, otherHourly, otherDaily) ==
    [raw |-> raw, inside |-> inside,
     minute |-> (Primary :> minute @@ orphan :> other),
     hourly |-> (Primary :> hourly @@ orphan :> otherHourly),
     daily |-> (Primary :> daily @@ orphan :> otherDaily)]

\* A plain one, with the raw window beginning in the middle of a day and of a
\* slot.
Plain == H({6, 9, 11}, TRUE, {2, 3, 5, 6, 9, 11}, {2, 4, 6, 8, 10}, {0, 4, 8}, {}, {}, {})

\* One whose source was renamed in the middle of a day, with the minutes of that
\* day; one renamed on a day only the daily tier has; one with no raw left, whose
\* first day has lost its first minutes; one whose first day only the daily tier
\* has and whose second the hourly one; one of a single day, all of it raw; one
\* of a single instant; and one without anything.
MCHistories ==
    {Plain,
     H({9, 11}, FALSE, {1, 6, 9, 11}, {0, 6, 8, 10}, {0, 4, 8}, {4, 5}, {4}, {4}),
     H({9}, FALSE, {9}, {8}, {4, 8}, {}, {}, {4}),
     H({}, FALSE, {3, 5, 7}, {0, 2, 4, 6}, {0, 4}, {}, {}, {}),
     H({10}, FALSE, {6, 9, 10}, {4, 6, 8, 10}, {0, 4, 8}, {}, {}, {}),
     H({4, 7}, FALSE, {4, 7}, {4, 6}, {4}, {}, {}, {}),
     H({}, FALSE, {5}, {4}, {4}, {}, {}, {}),
     H({}, FALSE, {}, {}, {}, {}, {}, {})}

\* The plain one alone.
PlainHistory == {Plain}
=============================================================================
