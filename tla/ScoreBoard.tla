----------------------------- MODULE ScoreBoard -----------------------------
(***************************************************************************)
(* The score of a simulation: one entry per match, in the order of         *)
(* PRESET_MATCHES (src/simulation/domain/value-objects/score-board.ts).    *)
(***************************************************************************)
EXTENDS Integers, SequencesExt

CONSTANT Matches  \* PRESET_MATCHES, records [id, home, away]

(* Match.create refuses a match of a team against itself; the preset lists *)
(* a match once and a team in one match.                                   *)
ASSUME MatchesAssumption ==
    /\ Matches \in Seq([id: {m.id : m \in ToSet(Matches)},
                        home: {m.home : m \in ToSet(Matches)},
                        away: {m.away : m \in ToSet(Matches)}])
    /\ \A i, j \in DOMAIN Matches :
        /\ Matches[i].home # Matches[j].away
        /\ i # j => /\ Matches[i].id # Matches[j].id
                    /\ Matches[i].home # Matches[j].home
                    /\ Matches[i].away # Matches[j].away

(* PRESET_TEAMS *)
Teams == UNION {{m.home, m.away} : m \in ToSet(Matches)}

Boards ==
    [DOMAIN Matches -> [match: ToSet(Matches), home: Nat, away: Nat]]

FromMatches == [i \in DOMAIN Matches |-> [match |-> Matches[i], home |-> 0, away |-> 0]]

(* Mutant: whoever scores, the home team is credited. *)
IncrementHome(board, team) ==
    [i \in DOMAIN board |->
        IF team \in {board[i].match.home, board[i].match.away}
        THEN [board[i] EXCEPT !.home = @ + 1] ELSE board[i]]

(* Every team of PRESET_TEAMS plays: the code's throw is out of reach. *)
Increment(board, team) ==
    [i \in DOMAIN board |->
        CASE board[i].match.home = team -> [board[i] EXCEPT !.home = @ + 1]
          [] board[i].match.away = team -> [board[i] EXCEPT !.away = @ + 1]
          [] OTHER -> board[i]]

TotalGoals(board) ==
    LET sum[n \in 0 .. Len(board)] ==
            IF n = 0 THEN 0 ELSE sum[n - 1] + board[n].home + board[n].away
    IN  sum[Len(board)]

(* Mutant: the goals of the away teams survive. *)
ResetHome(board) == [i \in DOMAIN board |-> [board[i] EXCEPT !.home = 0]]

Reset(board) == [i \in DOMAIN board |-> [board[i] EXCEPT !.home = 0, !.away = 0]]

Snapshot(board) ==
    [i \in DOMAIN board |->
        [matchId |-> board[i].match.id, home |-> board[i].home, away |-> board[i].away]]

(* Entries find their match by its id; an unknown id throws. *)
FromSnapshot(snapshot) ==
    [i \in DOMAIN snapshot |->
        [match |-> CHOOSE m \in ToSet(Matches) : m.id = snapshot[i].matchId,
         home |-> snapshot[i].home, away |-> snapshot[i].away]]

=============================================================================
