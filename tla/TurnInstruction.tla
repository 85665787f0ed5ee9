-------------------------- MODULE TurnInstruction --------------------------
(* Turn instructions, bearings and the comparison of names that both the   *)
(* analysis of intersections and the answers use                           *)
(* (guidance/turn_instruction.hpp, util/bearing.hpp,                       *)
(* util/guidance/name_announcements.hpp).  Angles are whole degrees.       *)
EXTENDS Integers, Sequences, FiniteSets, FiniteSetsExt, SequencesExt

EntersOnly == {"EnterRoundabout", "EnterRotary", "EnterRoundaboutIntersection"}
EntersAtExit == {"EnterRoundaboutAtExit", "EnterRotaryAtExit", "EnterRoundaboutIntersectionAtExit"}
EntersAndExits == {"EnterAndExitRoundabout", "EnterAndExitRotary", "EnterAndExitRoundaboutIntersection"}
Exits == {"ExitRoundabout", "ExitRotary", "ExitRoundaboutIntersection"}

entersRoundabout(type) == type \in EntersOnly \cup EntersAtExit \cup EntersAndExits
leavesRoundabout(type) == type \in Exits \cup EntersAndExits
staysOnRoundabout(type) == type \in EntersAtExit \cup {"StayOnRoundabout"}
hasRoundaboutType(type) == entersRoundabout(type) \/ leavesRoundabout(type) \/ staysOnRoundabout(type)
isSilent(type) == type \in {"NoTurn", "Suppressed", "StayOnRoundabout"}

LeftModifiers == {"SharpLeft", "Left", "SlightLeft"}
RightModifiers == {"SharpRight", "Right", "SlightRight"}
isLeftTurn(type, modifier) == modifier \in IF type = "Merge" THEN RightModifiers ELSE LeftModifiers
isRightTurn(type, modifier) == modifier \in IF type = "Merge" THEN LeftModifiers ELSE RightModifiers

getTurnDirection(angle) ==
  CASE angle > 0 /\ angle < 60 -> "SharpRight"
    [] angle >= 60 /\ angle < 140 -> "Right"
    [] angle >= 140 /\ angle < 160 -> "SlightRight"
    [] angle >= 160 /\ angle <= 200 -> "Straight"
    [] angle > 200 /\ angle <= 220 -> "SlightLeft"
    [] angle > 220 /\ angle <= 300 -> "Left"
    [] angle > 300 /\ angle < 360 -> "SharpLeft"
    [] OTHER -> "UTurn"

reverse(bearing) == IF bearing >= 180 THEN bearing - 180 ELSE bearing + 180
angleBetween(entry_bearing, exit_bearing) == (entry_bearing - exit_bearing + 540) % 360
TheShorterWay(deviation) == IF 360 - deviation < deviation THEN 360 - deviation ELSE deviation
angularDeviation(angle, from) == TheShorterWay(IF angle > from THEN angle - from ELSE from - angle)

-----------------------------------------------------------------------------
(* A road's signage: name and ref are sequences of symbols; names are    *)
(* alike when they differ in the affixes of the suffix table only.         *)

StartsWith(t, s) == Len(s) <= Len(t) /\ SubSeq(t, 1, Len(s)) = s
Contained(s, t) == \E i \in 0..(Len(t) - Len(s)) : SubSeq(t, i + 1, i + Len(s)) = s

\* The longest part two names share, found row by row.  Where the symbols differ a row
\* keeps what the row before the last one left there, so that the part found may be
\* longer than any shared one.
RowFound(at, current, best, i) ==
  [previous |-> current, current |-> at.previous, best |-> best,
   best_pos |-> IF best > at.best THEN i ELSE at.best_pos]
SharedPart(name, found) == SubSeq(name, found.best_pos - found.best + 1, found.best_pos)

RowExtended(at, current, i, alike) ==
  RowFound(at, current, Max({at.best} \cup {current[j] : j \in alike}), i)
NextRow(at, lhs, rhs, i) ==
  RowExtended(at, [j \in DOMAIN rhs |-> IF lhs[i] # rhs[j] THEN at.current[j]
                                        ELSE IF j = 1 THEN 1 ELSE at.previous[j - 1] + 1],
              i, {j \in DOMAIN rhs : lhs[i] = rhs[j]})
longest_common_substring(lhs, rhs) ==
  LET zero == [j \in DOMAIN rhs |-> 0]
      row[i \in 0..Len(lhs)] ==
        IF i = 0 THEN [previous |-> zero, current |-> zero, best |-> 0, best_pos |-> 0]
        ELSE NextRow(row[i - 1], lhs, rhs, i)
  IN SharedPart(lhs, row[Len(lhs)])

\* What is left of a name before and after the part; a part that does not occur is
\* found at npos, from where its length wraps around to just before the part's end.
PartsAround(name, part) ==
  LET found == {k \in 0..(Len(name) - Len(part)) : SubSeq(name, k + 1, k + Len(part)) = part}
  IN IF found = {} THEN {name, SubSeq(name, Len(part), Len(name))}
     ELSE {SubSeq(name, 1, Min(found)), SubSeq(name, Min(found) + Len(part) + 1, Len(name))}
PartsWithout(lhs, rhs, lcs) == IF lcs = <<>> THEN {lhs, rhs} ELSE PartsAround(lhs, lcs) \cup PartsAround(rhs, lcs)
decompose(lhs, rhs) == PartsWithout(lhs, rhs, longest_common_substring(lhs, rhs))
isSuffixChange(from, to, affixes) == \A part \in decompose(from, to) : part = <<>> \/ part \in affixes

AnnouncedGiven(from, to, is_suffix_change, ref_is_contained) ==
  LET names_are_empty == from.name = <<>> /\ to.name = <<>>
      refs_are_empty == from.ref = <<>> /\ to.ref = <<>>
      names_are_equal == StartsWith(from.name, to.name) \/ StartsWith(to.name, from.name) \/ is_suffix_change
      ref_is_removed == from.ref # <<>> /\ to.ref = <<>>
      obvious_change ==
        \/ names_are_empty /\ refs_are_empty
        \/ names_are_equal /\ (ref_is_contained \/ refs_are_empty \/ ref_is_removed)
        \/ ref_is_contained /\ from.name # <<>> /\ to.name = <<>>
        \/ is_suffix_change
      needs_announce ==
        \/ from.name = <<>> /\ from.ref # <<>> /\ to.name # <<>> /\ to.ref = <<>>
        \/ from.name # <<>> /\ from.ref = <<>> /\ to.name = <<>> /\ to.ref # <<>>
        \/ names_are_empty /\ ~ref_is_contained
      looses_exit == names_are_equal /\ from.exits # <<>> /\ to.exits = <<>>
  IN \/ from.name = <<>> /\ from.ref = <<>> /\ ~(to.name = <<>> /\ to.ref = <<>>)
     \/ ~obvious_change \/ needs_announce
     \/ from.pronunciation # to.pronunciation
     \/ from.exits # to.exits /\ ~looses_exit
requiresNameAnnounced(from, to, affixes) ==
  AnnouncedGiven(from, to, isSuffixChange(from.name, to.name, affixes),
                 Contained(from.ref, to.ref) \/ Contained(to.ref, from.ref))
=============================================================================
